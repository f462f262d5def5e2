-------------------------------- MODULE Backups --------------------------------
(* Backups of the database and restores from them (backup.ts,                  *)
(* cli/commands/backup.ts, maybeBackup of the maintenance service). A file is  *)
(* the state of the database it holds; backups are named by the time they are  *)
(* taken, and only the newest are kept. The database is in WAL mode: what was  *)
(* committed last is in memory.sqlite-wal until a checkpoint brings it into    *)
(* memory.sqlite.                                                              *)

EXTENDS Naturals, FiniteSets

CONSTANTS
  Procs,         \* processes that take backups and restore them
  MaxStates,     \* bound on the states the database goes through
  MaxFiles,      \* bound on the backups taken
  Keep           \* --keep; 14 for a backup nobody asked for

VARIABLES
  main,          \* memory.sqlite
  log,           \* the state memory.sqlite-wal brings it to
  served,        \* whether a server has the database open
  files,         \* backups/: the state in each name that is taken
  retired,       \* states in the files memory.sqlite.pre-restore.*
  call,          \* what each process is doing
  states,        \* states committed so far
  taken,         \* backups so far
  tips,          \* the committed states that no later one was made from
  disturbed      \* whether a restore was not alone with the database

vars == <<main, log, served, files, retired, call, states, taken, tips, disturbed>>

Empty == 0       \* a database that is just created
TornFile == 0 - 1    \* a file that is partly written, or mixed with another's log
NoFile == 0 - 2    \* no file
Whole == Empty..MaxStates
Names == 1..MaxFiles
NoName == 0
NoCall == [step |-> "idle", from |-> NoName]

TypeOK ==
  /\ main \in Whole \cup {TornFile, NoFile} /\ log \in Whole \cup {NoFile}
  /\ served \in BOOLEAN /\ disturbed \in BOOLEAN
  /\ files \in [Names -> Whole \cup {TornFile, NoFile}]
  /\ retired \subseteq Whole \cup {TornFile} /\ tips \subseteq Whole
  /\ call \in [Procs -> [step : {"idle", "prune", "backup", "retire", "copy"},
                         from : Names \cup {NoName}]]
  /\ states \in Whole /\ taken \in 0..MaxFiles

Init ==
  /\ main = Empty /\ log = NoFile /\ served = FALSE
  /\ files = [f \in Names |-> NoFile] /\ retired = {}
  /\ call = [p \in Procs |-> NoCall] /\ states = 0 /\ taken = 0
  /\ tips = {} /\ disturbed = FALSE

Taken == {f \in Names : files[f] # NoFile}
To(p, step) == call' = [call EXCEPT ![p].step = step]
Ends(p) == call' = [call EXCEPT ![p] = NoCall]

(* What a connection reads. *)
Content == IF log # NoFile THEN log ELSE main

(* A call has the database open until it closes the store to move the file.  *)
Holds(p) == call[p].step \in {"backup", "prune", "retire"}
Alone(p) == ~served /\ \A q \in Procs \ {p} : ~Holds(q)

(* A server opens the database, creating one that is not there, commits to   *)
(* the log, and closes the database or dies.                                 *)
ServerOpens ==
  /\ ~served /\ main # TornFile /\ served' = TRUE
  /\ main' = (IF main = NoFile THEN Empty ELSE main)
  /\ UNCHANGED <<log, files, retired, call, states, taken, tips, disturbed>>

ServerCommits ==
  /\ served /\ states < MaxStates
  /\ states' = states + 1 /\ log' = states + 1
  /\ tips' = (tips \ {Content}) \cup {states + 1}
  /\ UNCHANGED <<main, served, files, retired, call, taken, disturbed>>

ServerEnds ==
  /\ served /\ served' = FALSE
  /\ UNCHANGED <<main, log, files, retired, call, states, taken, tips, disturbed>>

(* SQLite's: after so many pages, or as the last connection closes. *)
Checkpoint ==
  /\ log # NoFile /\ main' = log /\ log' = NoFile
  /\ UNCHANGED <<served, files, retired, call, states, taken, tips, disturbed>>

(* runBackup: VACUUM INTO a new file copies one state of the database, or a  *)
(* part of it if the process dies;                                           *)
Vacuum(p) ==
  /\ call[p].step \in {"idle", "backup"} /\ Content \in Whole /\ taken < MaxFiles
  /\ taken' = taken + 1
  /\ \/ files' = [files EXCEPT ![taken + 1] = Content] /\ To(p, "prune")
     \/ files' = [files EXCEPT ![taken + 1] = TornFile] /\ Ends(p)
  /\ UNCHANGED <<main, log, served, retired, states, tips, disturbed>>

(* pruneBackups: all but the newest go, the one to restore from among them. *)
Prune(p) ==
  /\ call[p].step = "prune"
  /\ files' = [f \in Names |->
       IF Cardinality({g \in Taken : g >= f}) > Keep THEN NoFile ELSE files[f]]
  /\ IF call[p].from = NoName THEN Ends(p) ELSE To(p, "retire")
  /\ UNCHANGED <<main, log, served, retired, states, taken, tips, disturbed>>

(* restoreCommand: the backup is verified, then a backup taken of what is    *)
(* live,                                                                     *)
Restore(p, f) ==
  /\ call[p] = NoCall /\ files[f] \in Whole
  /\ call' = [call EXCEPT ![p] = [step |-> "backup", from |-> f]]
  /\ UNCHANGED <<main, log, served, files, retired, states, taken, tips, disturbed>>

(* Mutant: the file is renamed before the store is closed. *)
ClosedAfterwards(p) == main

(* The store is closed, which brings the log into the file if no one else    *)
(* has the database open;                                                    *)
Closed(p) == IF Alone(p) THEN Content ELSE main

(* memory.sqlite is moved away, and it alone: the log of another process     *)
(* keeps its name, and what that process commits from now on is followed no  *)
(* further;                                                                  *)
Retire(p) ==
  /\ call[p].step = "retire" /\ main # NoFile
  /\ retired' = retired \cup {Closed(p)}
  /\ main' = NoFile /\ log' = NoFile /\ served' = FALSE
  /\ disturbed' = (disturbed \/ ~Alone(p))
  /\ To(p, "copy")
  /\ UNCHANGED <<files, states, taken, tips>>

(* and the backup is copied to its place, over one that was created          *)
(* meanwhile: all of it, a part if the process dies or the disk is full,     *)
(* nothing if the backup is gone.                                            *)
Copy(p) ==
  /\ call[p].step = "copy"
  /\ IF files[call[p].from] = NoFile THEN UNCHANGED <<main, log, served, disturbed>>
     ELSE /\ main' \in {files[call[p].from], TornFile} /\ log' = NoFile /\ served' = FALSE
          /\ disturbed' = (disturbed \/ main # NoFile)
  /\ Ends(p)
  /\ UNCHANGED <<files, retired, states, taken, tips>>

Crash(p) ==
  /\ call[p] # NoCall
  /\ Ends(p)
  /\ UNCHANGED <<main, log, served, files, retired, states, taken, tips, disturbed>>

Next ==
  \/ ServerOpens \/ ServerCommits \/ ServerEnds \/ Checkpoint
  \/ \E p \in Procs :
       \/ Vacuum(p) \/ Prune(p) \/ Retire(p) \/ Copy(p) \/ Crash(p)
       \/ \E f \in Names : Restore(p, f)

Spec == Init /\ [][Next]_vars

-----------------------------------------------------------------------------
(* Restores that are alone with the database lose no commit: whatever is     *)
(* backed up, pruned, checkpointed or cut short, each is in the database, or *)
(* in a state a later commit was made from, or in a file that was moved away.*)
CommitsSurvive == ~disturbed => tips \subseteq {Content} \cup retired

(* The code does not keep this of a restore beside another process: what     *)
(* that one commits after the pre-restore backup is in its log, and what it  *)
(* commits to a database of its own before the copy is overwritten.          *)
RestoreIsReversible == tips \subseteq {Content} \cup retired \cup {files[f] : f \in Taken}

(* While nobody restores, there is a database. *)
DatabaseIsThere == (\A p \in Procs : call[p] = NoCall) => main # NoFile
=============================================================================
