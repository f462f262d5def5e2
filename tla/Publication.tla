----------------------------- MODULE Publication -----------------------------
(* The publication of a scope's export directory by renames                    *)
(* (portability/atomic-publisher.ts, exporter.ts, markdown-exporter.ts,        *)
(* rebuildMarkdownIndex, cli/commands/export.ts). A directory is the export    *)
(* that is in it, "torn" while it is written or removed.                       *)

EXTENDS Naturals

CONSTANTS
  Procs,         \* processes that publish the scope
  Exports,       \* the exports they stage; they bound the publications
  None,
  Torn           \* a directory of which files are missing

VARIABLES
  live,          \* the scope's directory
  backup,        \* .backup-<scope>-<pid>-...: what each process put aside
  staging,       \* .staging/export-*, of each process
  call,          \* what each process is doing
  left,          \* what publications that did not end put aside
  done           \* exports whose publication was audited

vars == <<live, backup, staging, call, left, done>>

Dirs == Exports \cup {None, Torn}
NoCall == [step |-> "idle", export |-> None]

TypeOK ==
  /\ live \in Dirs /\ backup \in [Procs -> Dirs] /\ staging \in [Procs -> Dirs]
  /\ call \in [Procs ->
       [step : {"idle", "write", "publish", "putBack", "swap", "audit", "complete", "rollback", "restore"},
        export : Exports \cup {None}]]
  /\ done \subseteq Exports /\ left \subseteq Dirs

Init ==
  /\ live = None
  /\ backup = [p \in Procs |-> None]
  /\ staging = [p \in Procs |-> None]
  /\ call = [p \in Procs |-> NoCall]
  /\ done = {} /\ left = {}

To(p, step) == call' = [call EXCEPT ![p].step = step]
Ends(p) == call' = [call EXCEPT ![p] = NoCall]

(* stageFiles: a fresh directory, *)
Stage(p, e) ==
  /\ call[p] = NoCall /\ e \notin done
  /\ \A q \in Procs : call[q].export # e
  /\ staging' = [staging EXCEPT ![p] = Torn]
  /\ call' = [call EXCEPT ![p] = [step |-> "write", export |-> e]]
  /\ UNCHANGED <<live, backup, left, done>>

(* the index, a file for each topic, the bundle and the manifest; or a write *)
(* fails and the directory is removed.                                       *)
WriteScopeFiles(p) ==
  /\ call[p].step = "write"
  /\ \/ staging' = [staging EXCEPT ![p] = call[p].export] /\ To(p, "publish")
     \/ staging' = [staging EXCEPT ![p] = None] /\ Ends(p)
  /\ UNCHANGED <<live, backup, left, done>>

(* Mutant: what is there is removed. *)
Removed == None

(* publishStagedFiles: what is there is put aside, *)
PutAside == live

Publish(p) ==
  /\ call[p].step = "publish"
  /\ To(p, "swap")
  /\ backup' = [backup EXCEPT ![p] = PutAside] /\ live' = None
  /\ UNCHANGED <<staging, left, done>>

(* the staged directory renamed into its place, which fails when another     *)
(* process has put its own there, or at any time;                            *)
Swap(p) ==
  /\ call[p].step = "swap"
  /\ \/ /\ live = None
        /\ live' = staging[p] /\ staging' = [staging EXCEPT ![p] = None]
        /\ To(p, "audit")
     \/ UNCHANGED <<live, staging>> /\ To(p, "putBack")
  /\ UNCHANGED <<backup, left, done>>

(* The old export is put back, if there is room for it. *)
PutsBack(p) ==
  /\ IF live = None THEN live' = backup[p] /\ UNCHANGED left
     ELSE left' = (left \cup {backup[p]}) \ {None} /\ UNCHANGED live
  /\ backup' = [backup EXCEPT ![p] = None]

(* then the old one is put back. *)
PutBack(p) ==
  /\ call[p].step = "putBack"
  /\ PutsBack(p)
  /\ staging' = [staging EXCEPT ![p] = None]
  /\ Ends(p)
  /\ UNCHANGED done

(* rebuildMarkdownIndex: the audit rows, or the end of the publication. *)
Audit(p) ==
  /\ call[p].step = "audit"
  /\ \/ done' = done \cup {call[p].export} /\ To(p, "complete")
     \/ UNCHANGED done /\ To(p, "rollback")
  /\ UNCHANGED <<live, backup, left, staging>>

Complete(p) ==
  /\ call[p].step = "complete"
  /\ backup' = [backup EXCEPT ![p] = None]
  /\ Ends(p)
  /\ UNCHANGED <<live, staging, left, done>>

(* The published directory is removed, file by file, whoever's it is now, *)
Rollback(p) ==
  /\ call[p].step = "rollback"
  /\ \/ live # None /\ live' = Torn /\ UNCHANGED call
     \/ live' = None /\ To(p, "restore")
  /\ UNCHANGED <<backup, staging, left, done>>

(* and the old one put back. *)
Restore(p) ==
  /\ call[p].step = "restore"
  /\ PutsBack(p)
  /\ Ends(p)
  /\ UNCHANGED <<staging, done>>

(* What a dead process put aside stays, under a name nobody looks for. *)
Crash(p) ==
  /\ call[p] # NoCall
  /\ left' = (left \cup {backup[p]}) \ {None}
  /\ backup' = [backup EXCEPT ![p] = None]
  /\ Ends(p)
  /\ UNCHANGED <<live, staging, done>>

Next ==
  \E p \in Procs :
    \/ \E e \in Exports : Stage(p, e)
    \/ WriteScopeFiles(p) \/ Publish(p) \/ Swap(p) \/ PutBack(p) \/ Audit(p)
    \/ Complete(p) \/ Rollback(p) \/ Restore(p) \/ Crash(p)

Spec == Init /\ [][Next]_vars

-----------------------------------------------------------------------------
(* Once an export has been published, a whole one is on the disk, live or    *)
(* put aside, wherever a process dies. It holds for one publisher at a time. *)
ExportSurvives ==
  done # {} => live \in Exports \/ \E p \in Procs : backup[p] \in Exports \/ left \cap Exports # {}
=============================================================================
