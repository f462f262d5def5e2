---------------------------- MODULE MemorySweeps ----------------------------
(* maintain_memories beside other writers                                     *)
(* (services/memory-maintenance-service.ts). A sweep lists rows, makes a       *)
(* backup, and writes in a transaction what it listed; a merge looks at the    *)
(* memories of a group again, one by one, and then collapses it in a           *)
(* transaction of its own. Other processes write in between, with the write    *)
(* service; confirm_memory_trust is in EntryReads.                             *)

EXTENDS Naturals, FiniteSets, FiniteSetsExt

CONSTANTS
  Memories,      \* ids, ordered as the code orders them: a set of numbers
  Sweepers,      \* processes that run maintain_memories
  Strategies,    \* what their merges keep
  BatchSize,     \* of find_duplicates
  None,
  MaxWrites      \* bound on the writes of other processes

Texts == {1, 2}  \* equal texts are duplicates; 0 is a cleared one

Actions == {"merge_duplicates", "expire_due", "archive_low_value"}

VARIABLES
  row,           \* memory_entries
  task,          \* each sweeper's call
  writes,        \* made by other processes so far
  overlapped     \* whether two merges have been under way at once

vars == <<row, task, writes, overlapped>>

Row == [status : {"active", "archived", "superseded", "forgotten"}, text : Texts \cup {0},
        due : BOOLEAN, rev : Nat, by : Memories \cup {None}]
NoTask == [step |-> "idle", action |-> None, strategy |-> None, left |-> {}, live |-> {}, groups |-> {}]

TypeOK ==
  /\ row \in [Memories -> Row]
  /\ task \in [Sweepers ->
       [step : {"idle", "backup", "peek", "commit"}, action : Actions \cup {None},
        strategy : Strategies \cup {None}, left : SUBSET Memories, live : SUBSET Memories,
        groups : SUBSET SUBSET Memories]]
  /\ writes \in Nat /\ overlapped \in BOOLEAN

(* What is not due to expire has low value: importance and confidence small, *)
(* never accessed, not the user's own.                                       *)
Init ==
  /\ \E due \in SUBSET Memories, text \in [Memories -> Texts] :
       row = [m \in Memories |-> [status |-> "active", text |-> text[m], due |-> m \in due,
                                  rev |-> 1, by |-> None]]
  /\ task = [s \in Sweepers |-> NoTask]
  /\ writes = 0 /\ overlapped = FALSE

Active == {m \in Memories : row[m].status = "active"}

(* duplicateGroupsFor: two or more memories with one title and one body. All *)
(* titles are one here, so cleared bodies are alike too. What has only one    *)
(* of the two alike, or is similar, is only ever reported and is left out.   *)
Groups(S) == {G \in {{m \in S : row[m].text = t} : t \in Texts \cup {0}} : Cardinality(G) > 1}

(* findDuplicatesChunked groups the entries of each batch by themselves.     *)
Batch(S, m) == (Cardinality({n \in S : n < m})) \div BatchSize
FoundIn(S) == UNION {Groups({m \in S : Batch(S, m) = b}) : b \in {Batch(S, m) : m \in S}}

Does(s, new) == task' = [task EXCEPT ![s] = new]

(* What expire_due and archive_low_value pick from the rows they read. *)
Picked(action) ==
  IF action = "expire_due" THEN {m \in Active : row[m].due} ELSE {m \in Active : ~row[m].due}

(* The rows are listed outside the transaction. *)
List(s, action) ==
  /\ task[s] = NoTask /\ action # "merge_duplicates" /\ Picked(action) # {}
  /\ Does(s, [NoTask EXCEPT !.step = "backup", !.action = action, !.left = Picked(action)])
  /\ UNCHANGED <<row, writes, overlapped>>

ListGroups(s, strategy) ==
  /\ task[s] = NoTask /\ Groups(Active) # {}
  /\ Does(s, [NoTask EXCEPT !.step = "peek", !.action = "merge_duplicates", !.strategy = strategy,
                            !.groups = Groups(Active), !.left = CHOOSE G \in Groups(Active) : TRUE])
  /\ overlapped' = (overlapped \/ \E r \in Sweepers : task[r].action = "merge_duplicates")
  /\ UNCHANGED <<row, writes>>

(* runBackup and verifyBackup, which may throw. *)
Backup(s) ==
  /\ task[s].step = "backup"
  /\ \/ Does(s, [task[s] EXCEPT !.step = "commit"])
     \/ Does(s, NoTask)
  /\ UNCHANGED <<row, writes, overlapped>>

(* Mutant: the rows that were listed are written back as they were read. *)
ArchivedAsListed(m) ==
  [row[m] EXCEPT !.status = "archived", !.text = Max({row[m].text, 1}),
                  !.rev = row[m].rev + 1]

(* updateEntry merges the patch into the row as it is now, whatever its      *)
(* status has become, and writes no revision row.                            *)
Expired(m) == [row[m] EXCEPT !.status = "forgotten", !.text = 0, !.rev = row[m].rev + 1]
Archived(m) == [row[m] EXCEPT !.status = "archived", !.rev = row[m].rev + 1]

CommitSweep(s) ==
  /\ task[s].step = "commit" /\ task[s].action # "merge_duplicates"
  /\ row' = [m \in Memories |->
       IF m \notin task[s].left THEN row[m]
       ELSE IF task[s].action = "expire_due" THEN Expired(m) ELSE Archived(m)]
  /\ Does(s, NoTask)
  /\ UNCHANGED <<writes, overlapped>>

(* mergeDuplicates: a peek for each memory of the group, *)
PeekMember(s) ==
  /\ task[s].step = "peek" /\ task[s].left # {}
  /\ LET m == Min(task[s].left)
     IN  Does(s, [task[s] EXCEPT !.left = @ \ {m},
                                 !.live = IF row[m].status = "active" THEN @ \cup {m} ELSE @])
  /\ UNCHANGED <<row, writes, overlapped>>

(* pickKeepTarget; the greater id stands for the later created_at. *)
KeepTarget(strategy, live) == IF strategy = "keep_newest" THEN Max(live) ELSE Min(live)

(* Mutant: the kept one is not taken out of the group. *)
SupersededWithKept(live, keep) == live

(* supersededIds. *)
Superseded(live, keep) == live \ {keep}

NextGroup(s, groups) ==
  Does(s, IF groups = {} THEN NoTask
          ELSE [task[s] EXCEPT !.step = "peek", !.groups = groups, !.live = {},
                               !.left = CHOOSE G \in groups : TRUE])

Rest(s) == task[s].groups \ {CHOOSE G \in task[s].groups : TRUE}

(* a backup, and the collapse of what was active when it was peeked at. A    *)
(* group of which less than two are left is passed over; a dry run or a      *)
(* failing backup writes nothing.                                            *)
Collapse(s) ==
  /\ task[s].step = "peek" /\ task[s].left = {} /\ UNCHANGED <<writes, overlapped>>
  /\ \/ /\ Cardinality(task[s].live) >= 2
        /\ LET keep == KeepTarget(task[s].strategy, task[s].live)
           IN  row' = [m \in Memories |->
                 IF m \in Superseded(task[s].live, keep)
                 THEN [row[m] EXCEPT !.status = "superseded", !.by = keep, !.rev = row[m].rev + 1]
                 ELSE row[m]]
        /\ NextGroup(s, Rest(s))
     \/ NextGroup(s, Rest(s)) /\ UNCHANGED row
     \/ Does(s, NoTask) /\ UNCHANGED row

(* The write service of another process. *)
OtherForget(m) ==
  /\ writes < MaxWrites /\ writes' = writes + 1 /\ row[m].status # "forgotten"
  /\ row' = [row EXCEPT ![m] = [@ EXCEPT !.status = "forgotten", !.text = 0, !.rev = row[m].rev + 1]]
  /\ UNCHANGED <<task, overlapped>>

(* update_memory stores the body and the status it is given, of an archived  *)
(* memory too, which may have been forgotten before it was archived.         *)
OtherUpdate(m, text, status) ==
  /\ writes < MaxWrites /\ writes' = writes + 1 /\ row[m].status \in {"active", "archived"}
  /\ row' = [row EXCEPT ![m] = [@ EXCEPT !.status = status, !.text = text, !.rev = row[m].rev + 1]]
  /\ UNCHANGED <<task, overlapped>>

Next ==
  \/ \E s \in Sweepers :
       \/ \E action \in Actions : List(s, action)
       \/ \E strategy \in Strategies : ListGroups(s, strategy)
       \/ Backup(s) \/ CommitSweep(s) \/ PeekMember(s) \/ Collapse(s)
  \/ \E m \in Memories :
       \/ OtherForget(m)
       \/ \E text \in Texts \cup {row[m].text}, status \in {"active", "archived"} :
            OtherUpdate(m, text, status)

Spec == Init /\ [][Next]_vars

-----------------------------------------------------------------------------
(* As long as no two merges were under way at once, following superseded_by   *)
(* from a superseded memory leads to one that is not, whichever rules the    *)
(* merges kept by and whatever was swept, forgotten, archived and brought    *)
(* back in between: of every group something is left.                        *)
Collapsed == {m \in Memories : row[m].status = "superseded"}
LeadsOut(S) == \E m \in S : row[m].by \notin S
ChainsEnd == ~overlapped => \A S \in SUBSET Collapsed : S # {} => LeadsOut(S)

(* The code does not keep this of merges that overlap: a merge that keeps    *)
(* the first and one that keeps the newest supersede two memories by each    *)
(* other, and the text of the group is left in none that is active.          *)
ChainsAlwaysEnd == \A S \in SUBSET Collapsed : S # {} => LeadsOut(S)

(* A sweep writes over rows that changed since it listed them, but it only   *)
(* ever retires: it brings back no text that was cleared meanwhile and no    *)
(* older text, makes no memory active, and leaves a trace in the revision of *)
(* what it changed.                                                          *)
Retires(m) ==
  /\ row'[m].text \in {row[m].text, 0}
  /\ row'[m].status = "active" => row[m].status = "active"
  /\ row'[m].rev = row[m].rev + (IF row'[m] = row[m] THEN 0 ELSE 1)
OnlyRetires == task' # task => \A m \in Memories : Retires(m)
SweepsOnlyRetire == [][OnlyRetires]_vars

(* find_duplicates reports every pair of active memories with one text.      *)
EveryPairReported ==
  \A m, n \in Active : m # n /\ row[m].text = row[n].text
    => \E G \in FoundIn(Active) : {m, n} \subseteq G
=============================================================================
