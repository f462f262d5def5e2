---------------------------- MODULE ImportBatches ----------------------------
(* Imports of one bundle into a live store: preflight, plan, the batch row     *)
(* and the apply transaction (portability/importer.ts,                         *)
(* import-batch-store.ts, cli/commands/import.ts), while other processes       *)
(* update, supersede and create the memories the bundle names.                 *)
(*                                                                             *)
(* A memory is its revision, the body it has and the revision numbers          *)
(* memory_revisions holds for it; what the validators, the secret detector,    *)
(* the identity checks and the budget say of an entry is one choice, "refused".*)

EXTENDS Naturals, FiniteSets

CONSTANTS
  Procs,         \* importing processes
  Ids,           \* memory ids the bundle names
  Batches,       \* import_batch_ids; they bound the imports
  BundleRev,     \* the revision every entry of the bundle has
  Local, Bundled, Merged,  \* bodies: written here, the bundle's, merged
  None,
  MaxRev         \* bound on the revisions that are written over

VARIABLES
  row,           \* memory_entries
  chain,         \* memory_revisions: the revision numbers of each memory
  batch,         \* import_batches
  call,          \* what each process is importing
  overwritten    \* memories an import wrote at another revision than it planned

vars == <<row, chain, batch, call, overwritten>>

Policies == {"keep", "replace", "merge", "fail"}
Modes == {"snapshot", "full_history"}
Absent == [rev |-> 0, body |-> None, active |-> FALSE]
NoCall == [step |-> "idle", batch |-> None, policy |-> "keep", mode |-> "snapshot",
           dry |-> FALSE, revs |-> [m \in Ids |-> 0]]
NoBatch == [status |-> "absent", affected |-> {}, dry |-> FALSE]

TypeOK ==
  /\ row \in [Ids -> [rev : 0..MaxRev + 1, body : {None, Local, Bundled, Merged}, active : BOOLEAN]]
  /\ chain \in [Ids -> SUBSET (1..MaxRev + 1)]
  /\ batch \in [Batches -> [status : {"absent", "pending", "completed", "failed"},
                            affected : SUBSET Ids, dry : BOOLEAN]]
  /\ call \in [Procs -> [step : {"idle", "start", "apply", "fail"}, batch : Batches \cup {None},
                         policy : Policies, mode : Modes, dry : BOOLEAN,
                         revs : [Ids -> 0..MaxRev + 1]]]
  /\ overwritten \subseteq Ids

Init ==
  /\ row = [m \in Ids |-> Absent]
  /\ chain = [m \in Ids |-> {}]
  /\ batch = [b \in Batches |-> NoBatch]
  /\ call = [p \in Procs |-> NoCall]
  /\ overwritten = {}

Does(p, new) == call' = [call EXCEPT ![p] = new]
Live(m) == row[m].rev > 0

(* A memory under one of the bundle's ids is created here, *)
Create(m) ==
  /\ ~Live(m)
  /\ row' = [row EXCEPT ![m] = [rev |-> 1, body |-> Local, active |-> TRUE]]
  /\ chain' = [chain EXCEPT ![m] = {1}]
  /\ UNCHANGED <<batch, call, overwritten>>

(* or updated or superseded: the plain INSERT of its new revision fails, and *)
(* the update with it, when that number is taken.                            *)
Writable(m) == Live(m) /\ row[m].active /\ row[m].rev + 1 \notin chain[m]

Write(m, stays) ==
  /\ Writable(m) /\ row[m].rev < MaxRev
  /\ row' = [row EXCEPT ![m] = [rev |-> row[m].rev + 1, body |-> Local, active |-> stays]]
  /\ chain' = [chain EXCEPT ![m] = @ \cup {row[m].rev + 1}]
  /\ UNCHANGED <<batch, call, overwritten>>

(* preflightImport: "fail", and a replacement of another revision, refuse the *)
(* bundle.                                                                    *)
Refused(m, policy) ==
  Live(m) /\ (policy = "fail" \/ (policy = "replace" /\ row[m].rev # BundleRev))

(* planImport; a bundle that is refused leaves no trace. The id is random.   *)
Plan(p, b, policy, mode, dry) ==
  /\ call[p] = NoCall /\ batch[b] = NoBatch
  /\ \A q \in Procs : call[q].batch # b
  /\ \A m \in Ids : ~Refused(m, policy)
  /\ Does(p, [step |-> "start", batch |-> b, policy |-> policy, mode |-> mode, dry |-> dry,
              revs |-> [m \in Ids |-> row[m].rev]])
  /\ UNCHANGED <<row, chain, batch, overwritten>>

(* importMemoryExport: the batch row, for a dry run too, which ends here, *)
Start(p) ==
  /\ call[p].step = "start"
  /\ batch' = [batch EXCEPT ![call[p].batch] =
                 [status |-> "pending", affected |-> {}, dry |-> call[p].dry]]
  /\ Does(p, IF call[p].dry THEN NoCall ELSE [call[p] EXCEPT !.step = "apply"])
  /\ UNCHANGED <<row, chain, overwritten>>

(* The decision the preflight took for an entry, *)
Kind(p, m) ==
  IF call[p].revs[m] = 0 THEN "insert" ELSE IF call[p].policy = "keep" THEN "skip" ELSE call[p].policy

Of(p, kinds) == {m \in Ids : Kind(p, m) \in kinds}

(* Mutant: replacements are trusted as they were planned. *)
StillAsPlannedBefore(p) == TRUE

(* applyImport reads the targets of replacements again in its transaction. A *)
(* replacement compares with the bundle, a merge with the row it merged,     *)
(* both of which are the revision that was planned.                          *)
StillAsPlanned(p) ==
  \A m \in Of(p, {"replace", "merge"}) : Live(m) /\ row[m].rev = call[p].revs[m]

(* updateMemory refuses a memory that is no longer active; inserts and new   *)
(* revisions meet the primary keys.                                          *)
Applies(p) ==
  /\ StillAsPlanned(p)
  /\ \A m \in Ids : row[m].rev <= MaxRev
  /\ \A m \in Of(p, {"replace", "merge"}) : Writable(m)
  /\ \A m \in Of(p, {"insert"}) : ~Live(m)

Imported(p, m) ==
  CASE Kind(p, m) = "insert" -> [rev |-> BundleRev, body |-> Bundled, active |-> TRUE]
    [] Kind(p, m) = "replace" -> [row[m] EXCEPT !.rev = @ + 1, !.body = Bundled]
    [] Kind(p, m) = "merge" -> [row[m] EXCEPT !.rev = @ + 1, !.body = Merged]
    [] OTHER -> row[m]

(* applyFullHistory: OR IGNORE, and for every entry of the bundle.           *)
History(p, m) == IF call[p].mode = "full_history" THEN 1..BundleRev ELSE {}

NewRevision(p, m) ==
  IF Kind(p, m) \in {"replace", "merge"} THEN {row[m].rev + 1} ELSE {}

(* The transaction: entries, history and the completed batch, all at once.   *)
Apply(p) ==
  /\ call[p].step = "apply" /\ Applies(p)
  /\ row' = [m \in Ids |-> Imported(p, m)]
  /\ chain' = [m \in Ids |-> chain[m] \cup NewRevision(p, m) \cup History(p, m)]
  /\ batch' = [batch EXCEPT ![call[p].batch] =
                 [@ EXCEPT !.status = "completed", !.affected = Of(p, {"insert", "replace", "merge"})]]
  /\ overwritten' = overwritten \cup
       {m \in Of(p, {"replace", "merge"}) : row[m].rev # call[p].revs[m]}
  /\ Does(p, NoCall)

(* It is rolled back whatever went wrong: a row, a key, the budget or the    *)
(* identities, read again.                                                   *)
Rollback(p) ==
  /\ call[p].step = "apply"
  /\ Does(p, [call[p] EXCEPT !.step = "fail"])
  /\ UNCHANGED <<row, chain, batch, overwritten>>

(* The failure is written outside it. *)
Fail(p) ==
  /\ call[p].step = "fail"
  /\ batch' = [batch EXCEPT ![call[p].batch].status = "failed"]
  /\ Does(p, NoCall)
  /\ UNCHANGED <<row, chain, overwritten>>

Crash(p) ==
  /\ call[p] # NoCall
  /\ Does(p, NoCall)
  /\ UNCHANGED <<row, chain, batch, overwritten>>

Next ==
  \/ \E m \in Ids : Create(m) \/ \E stays \in BOOLEAN : Write(m, stays)
  \/ \E p \in Procs :
       \/ \E b \in Batches, policy \in Policies, mode \in Modes, dry \in BOOLEAN :
            Plan(p, b, policy, mode, dry)
       \/ Start(p) \/ Apply(p) \/ Rollback(p) \/ Fail(p) \/ Crash(p)

Spec == Init /\ [][Next]_vars

-----------------------------------------------------------------------------
(* However imports and local writes interleave: a batch that names memories  *)
(* has completed, they are there, and a dry run never completes;             *)
CompletedIsThere ==
  \A b \in Batches :
    /\ \A m \in batch[b].affected : batch[b].status = "completed" /\ Live(m)
    /\ batch[b].dry => batch[b].status \in {"pending"}

(* and a local write made after the plan is never overwritten by it.         *)
NothingOverwritten == overwritten = {}

ImportsAreWhole == CompletedIsThere /\ NothingOverwritten

(* The next revision of a memory is free: it can be written again.           *)
NextRevisionIsFree == \A m \in Ids : Live(m) => row[m].rev + 1 \notin chain[m]

(* A dry run leaves nothing behind.                                          *)
DryRunWritesNothing == \A b \in Batches : ~batch[b].dry
=============================================================================
