----------------------------- MODULE EntryReads -----------------------------
(* One memory read by get_memory, show and the memory resource                 *)
(* (memory-read-service.ts, show.ts, resources.ts), which look at the store in *)
(* several statements of no transaction, beside the writers of other           *)
(* processes: the write service, whose transactions MemoryWrites has in full,  *)
(* and confirm_memory_trust (memory-service.ts), which has none.               *)

EXTENDS Naturals, FiniteSets

CONSTANTS
  Clients,
  Ceiling,       \* the sensitivity each client reads up to
  Levels,        \* sensitivities, as the store orders them: 1, 2, 3
  MaxRev,        \* bound on the writes
  None

VARIABLES
  row,           \* memory_entries: revision, sensitivity, and text, the
                 \* revision that wrote title and body; revision 0: no row
  history,       \* memory_revisions
  trail,         \* audit_events: revisions that have one
  links,         \* memory_provenance: the tool calls that are recorded
  call,          \* what each client is doing
  seen           \* the sensitivities the row had during a client's read, 0 for none

vars == <<row, history, trail, links, call, seen>>

NoRow == [rev |-> 0, level |-> 0, text |-> 0]
Rows == [rev : 0..MaxRev, level : Levels \cup {0}, text : 0..MaxRev]
NoCall == [step |-> "idle", row |-> NoRow, trail |-> {}]

TypeOK ==
  /\ row \in Rows /\ history \subseteq 1..MaxRev /\ trail \subseteq 1..MaxRev
  /\ links \subseteq Clients
  /\ call \in [Clients ->
       [step : {"idle", "link", "write", "audit", "elevated", "peek", "row", "trail",
                "found", "not_found", "forbidden_visibility"},
        row : Rows, trail : SUBSET (1..MaxRev)]]
  /\ seen \in [Clients -> SUBSET (Levels \cup {0})]

Init ==
  /\ row = NoRow /\ history = {} /\ trail = {} /\ links = {}
  /\ call = [c \in Clients |-> NoCall]
  /\ seen = [c \in Clients |-> {}]

Does(c, new) == call' = [call EXCEPT ![c] = new]
Goes(c, step) == Does(c, [call[c] EXCEPT !.step = step])
Visible(c) == row.rev > 0 /\ row.level <= Ceiling[c]
Reading(c) == call[c].step \in {"elevated", "peek", "row", "trail"}

(* A row is written; whoever is reading meanwhile may have seen both. *)
Write(new) ==
  /\ row' = new
  /\ seen' = [c \in Clients |-> IF Reading(c) THEN seen[c] \cup {new.level} ELSE seen[c]]

(* remember, in a transaction with its event; then the tool call is named as *)
(* the memory's provenance, if it can be read.                               *)
Remember(c, level) ==
  /\ call[c] = NoCall /\ row = NoRow
  /\ Write([rev |-> 1, level |-> level, text |-> 1])
  /\ history' = {1} /\ trail' = {1}
  /\ Goes(c, "link")
  /\ UNCHANGED links

RecordProvenance(c) ==
  /\ call[c].step = "link"
  /\ links' = IF Visible(c) THEN links \cup {c} ELSE links
  /\ Does(c, NoCall)
  /\ UNCHANGED <<row, history, trail, seen>>

(* update_memory and forget_memory: in a transaction with their revision row *)
(* and their event, which fails when the row is there.                       *)
Update(c, level) ==
  LET next == row.rev + 1
  IN  /\ call[c] = NoCall /\ row.rev \in 1..MaxRev - 1 /\ next \notin history
      /\ Write([rev |-> next, level |-> level, text |-> next])
      /\ history' = history \cup {next}
      /\ trail' = trail \cup {next}
      /\ UNCHANGED <<links, call>>

(* confirm_memory_trust: a peek, the gate, and updateEntry, which reads the  *)
(* row before it begins a transaction,                                       *)
StartConfirm(c) ==
  /\ call[c] = NoCall /\ Visible(c) /\ row.rev < MaxRev
  /\ Does(c, [step |-> "write", row |-> row, trail |-> {}])
  /\ UNCHANGED <<row, history, trail, links, seen>>

(* and writes every column of what it read; *)
WriteConfirm(c) ==
  LET new == [call[c].row EXCEPT !.rev = @ + 1]
  IN  /\ call[c].step = "write"
      /\ Write(new)
      /\ Does(c, [call[c] EXCEPT !.step = "audit", !.row = new])
      /\ UNCHANGED <<history, trail, links>>

(* the event comes after the transaction. *)
AuditConfirm(c) ==
  /\ call[c].step = "audit"
  /\ trail' = trail \cup {call[c].row.rev}
  /\ Does(c, NoCall)
  /\ UNCHANGED <<row, history, links, seen>>

(* classifyEntryVisibility: is there a row within the ceiling, *)
Classify(c) ==
  /\ call[c] = NoCall
  /\ Goes(c, IF Visible(c) THEN "peek" ELSE "elevated")
  /\ seen' = [seen EXCEPT ![c] = {row.level}]
  /\ UNCHANGED <<row, history, trail, links>>

(* or one above it? *)
Elevated(c) ==
  /\ call[c].step = "elevated"
  /\ Goes(c, IF row.level > Ceiling[c] THEN "forbidden_visibility" ELSE "not_found")
  /\ UNCHANGED <<row, history, trail, links, seen>>

(* peekEntry asks once more, and then reads the row; *)
Peek(c) ==
  /\ call[c].step = "peek"
  /\ Goes(c, IF Visible(c) THEN "row" ELSE "not_found")
  /\ UNCHANGED <<row, history, trail, links, seen>>

ReadEntry(c) ==
  /\ call[c].step = "row"
  /\ Does(c, [call[c] EXCEPT !.step = "trail", !.row = row])
  /\ UNCHANGED <<row, history, trail, links, seen>>

(* getAuditEvents. *)
ReadTrail(c) ==
  /\ call[c].step = "trail"
  /\ Does(c, [call[c] EXCEPT !.step = "found", !.trail = trail])
  /\ UNCHANGED <<row, history, trail, links, seen>>

(* A call has been answered, or its process died. *)
End(c) ==
  /\ call[c] # NoCall
  /\ Does(c, NoCall) /\ seen' = [seen EXCEPT ![c] = {}]
  /\ UNCHANGED <<row, history, trail, links>>

Next ==
  \E c \in Clients :
    \/ \E level \in Levels : Remember(c, level) \/ Update(c, level)
    \/ RecordProvenance(c) \/ StartConfirm(c) \/ WriteConfirm(c) \/ AuditConfirm(c)
    \/ Classify(c) \/ Elevated(c) \/ Peek(c) \/ ReadEntry(c) \/ ReadTrail(c) \/ End(c)

Spec == Init /\ [][Next]_vars

-----------------------------------------------------------------------------
(* The trail that is shown with a text has the event of its writing, however *)
(* late the text came.                                                       *)
TrailCoversText ==
  \A c \in Clients : call[c].step = "found" => call[c].row.text \in call[c].trail

(* A memory is only said to be missing when it was at some point of the read, *)
(* or when its sensitivity changed under it.                                  *)
MissingWasMissing ==
  \A c \in Clients :
    call[c].step = "not_found" => 0 \in seen[c] \/ Cardinality(seen[c]) > 1

ReadsHold == TrailCoversText /\ MissingWasMissing

(* What the service assumes of an entry it does not find after it found it:  *)
(* "the row was deleted between the two reads".                              *)
MissingWasDeleted == \A c \in Clients : call[c].step = "not_found" => 0 \in seen[c]

(* A confirmation of trust leaves the text as the last update wrote it. *)
UpdatesStand == [][row'.text >= row.text]_vars

(* The next revision of a memory is free: its next update can be written. *)
NextRevisionIsFree == row.rev + 1 \notin history

(* Every revision of a memory has its event once its writer is done. *)
RevisionsAreAudited ==
  (\A c \in Clients : call[c].step \notin {"write", "audit"}) => 1..row.rev \subseteq trail
=============================================================================
