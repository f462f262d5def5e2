---------------------------- MODULE SessionsProofs ----------------------------
(* What holds of the sweeps, of session ingest, of distillation and of        *)
(* bootstrap plans in Services for every value of its constants.              *)

EXTENDS Services, Sequences, SumTheorems, TLAPS

-----------------------------------------------------------------------------
(* Maintenance sweeps: MS in Services. *)

(* The set operators of the instance are those of this module. *)
LEMMA SweepSame ==
  /\ \A S : MS!Min(S) = Min(S)
  /\ \A S : MS!Max(S) = Max(S)
  /\ \A S : MS!Cardinality(S) = Cardinality(S)
<1>1. \A S : MS!Min(S) = Min(S)
  BY DEF MS!Min, Min
<1>2. \A S : MS!Max(S) = Max(S)
  BY DEF MS!Max, Max
<1>3. \A S : MS!Cardinality(S) = Cardinality(S)
  BY DEF MS!Cardinality, Cardinality
<1> QED BY <1>1, <1>2, <1>3

(* The steps and the records of the sweeps. *)
SweepSteps == {"idle", "backup", "peek", "commit"}
SweepTask == [step : SweepSteps, action : MS!Actions \cup {None}, strategy : Strategies \cup {None},
         left : SUBSET Memories, live : SUBSET Memories, groups : SUBSET SUBSET Memories]

(* The assumption: ids are numbers up to some bound, NULL is none of them. *)
SweepBounds == None \notin Memories /\ \E n \in Nat : Memories \subseteq 0 .. n

(* A merge in progress keeps what one of the strategies keeps. *)
SweepMerging(t) == t.step = "peek" => t.strategy \in Strategies /\ t.action = "merge_duplicates"

(* As long as merges did not overlap there is one at most, it has seen no      *)
(* memory that is superseded, and what is superseded leads to what is not.     *)
SweepOneMerge == \A r, s \in Sweepers : task[r].step = "peek" /\ task[s].step = "peek" => r = s
SweepLiveStands == \A s \in Sweepers : task[s].step = "peek" => task[s].live \cap MS!Collapsed = {}
SweepAlone == ~overlapped => SweepOneMerge /\ SweepLiveStands /\ MS!ChainsAlwaysEnd

(* The inductive invariant. *)
SweepInv == MS!TypeOK /\ (\A s \in Sweepers : SweepMerging(task[s])) /\ SweepAlone

(* A set of memories has an oldest one. *)
LEMMA SweepOldestExists ==
  ASSUME NEW S, S \subseteq Nat, S # {}
  PROVE  Min(S) \in S /\ \A i \in S : Min(S) <= i
<1> DEFINE R == OpToRel(<, Nat)
<1>1. IsWellFoundedOn(R, Nat)
  BY NatLessThanWellFounded
<1>2. \A x, y \in Nat : y < x => <<y, x>> \in R
  BY DEF OpToRel
<1> HIDE DEF R
<1>3. PICK x \in S : \A y \in S : ~ (<<y, x>> \in R)
  BY <1>1, WFMin
<1>4. \A y \in S : ~(y < x)
  BY <1>2, <1>3
<1>5. \A y \in S : x <= y
  BY <1>4
<1> QED BY <1>5 DEF Min

(* And a newest one, if ids are bounded. *)
LEMMA SweepNewestExists ==
  ASSUME NEW n \in Nat, NEW S, S \subseteq 0 .. n, S # {}
  PROVE  Max(S) \in S /\ \A i \in S : i <= Max(S)
<1> DEFINE U == {k \in Nat : \A i \in S : i <= k}
<1>1. n \in U /\ U \subseteq Nat /\ S \subseteq Nat
  OBVIOUS
<1>2. PICK u \in U : \A k \in U : u <= k
  BY <1>1, SweepOldestExists
<1>3. u \in S
  <2>1. SUFFICES ASSUME u \notin S PROVE FALSE
    OBVIOUS
  <2>2. PICK i \in S : i \in Nat /\ i <= u /\ i # u
    <3>1. PICK i \in S : i \in Nat /\ i <= u
      BY <1>1, <1>2
    <3> QED BY <2>1, <3>1
  <2>3. u - 1 \in Nat /\ \A j \in S : j <= u - 1
    BY <1>1, <1>2, <2>1, <2>2
  <2>4. u - 1 \in U
    BY <2>3
  <2> QED BY <1>2, <2>3, <2>4
<1>4. \A i \in S : i <= u
  BY <1>2
<1> HIDE DEF U
<1> QED BY <1>3, <1>4 DEF Max

(* No sweep has begun at first. *)
LEMMA SweepInitInv == MS!Init => SweepInv
<1> SUFFICES ASSUME MS!Init PROVE SweepInv
  OBVIOUS
<1>1. PICK due \in SUBSET Memories, text \in [Memories -> MS!Texts] :
        sweepRow = [m \in Memories |-> [status |-> "active", text |-> text[m], due |-> m \in due,
                                   rev |-> 1, by |-> None]]
  BY DEF MS!Init
<1>2. sweepRow \in [Memories -> MS!Row] /\ \A m \in Memories : sweepRow[m].status = "active"
  BY <1>1 DEF MS!Row, MS!Texts
<1>3. MS!NoTask \in SweepTask /\ SweepMerging(MS!NoTask) /\ MS!NoTask.step # "peek"
  BY DEF MS!NoTask, SweepTask, SweepSteps, SweepMerging
<1>4. task \in [Sweepers -> SweepTask] /\ \A s \in Sweepers : task[s] = MS!NoTask
  BY <1>3 DEF MS!Init
<1>5. MS!TypeOK /\ \A s \in Sweepers : SweepMerging(task[s])
  BY <1>2, <1>3, <1>4 DEF MS!Init, MS!TypeOK, SweepTask, SweepSteps
<1>6. MS!Collapsed = {}
  BY <1>2 DEF MS!Collapsed
<1>7. SweepAlone
  BY <1>3, <1>4, <1>6 DEF SweepAlone, SweepOneMerge, SweepLiveStands, MS!ChainsAlwaysEnd
<1> QED BY <1>5, <1>7 DEF SweepInv

(* A step of one sweeper keeps the types. *)
LEMMA SweepTaskTypes ==
  ASSUME SweepInv, NEW s \in Sweepers, NEW t \in SweepTask, SweepMerging(t), task' = [task EXCEPT ![s] = t],
         sweepRow' \in [Memories -> MS!Row], writes' \in Nat, overlapped' \in BOOLEAN
  PROVE  /\ MS!TypeOK' /\ \A r \in Sweepers : SweepMerging(task[r])'
         /\ \A r \in Sweepers : task'[r] = IF r = s THEN t ELSE task[r]
<1>1. \A r \in Sweepers : task'[r] = IF r = s THEN t ELSE task[r]
  BY DEF SweepInv, MS!TypeOK
<1>2. \A r \in Sweepers : SweepMerging(task[r])'
  BY <1>1 DEF SweepInv, SweepMerging
<1>3. task' \in [Sweepers -> SweepTask]
  BY DEF SweepInv, MS!TypeOK, SweepTask, SweepSteps
<1> QED BY <1>1, <1>2, <1>3 DEF MS!TypeOK, SweepTask, SweepSteps

(* A row that a step does not supersede. *)
SweepNotMerged(m) ==
  sweepRow'[m].status = "superseded" => sweepRow[m].status = "superseded" /\ sweepRow'[m].by = sweepRow[m].by

(* What is superseded leads out as before, if a step supersedes nothing and    *)
(* merges see only what stands.                                                *)
LEMMA SweepAloneKept ==
  ASSUME SweepInv, overlapped' = overlapped, \A m \in Memories : SweepNotMerged(m),
         \A r \in Sweepers : task'[r].step = "peek" =>
           /\ task[r].step = "peek"
           /\ \A m \in task'[r].live : m \in task[r].live \/ sweepRow[m].status # "superseded"
  PROVE  SweepAlone'
<1> SUFFICES ASSUME ~overlapped PROVE SweepOneMerge' /\ SweepLiveStands' /\ MS!ChainsAlwaysEnd'
  BY DEF SweepAlone
<1>1. SweepOneMerge /\ SweepLiveStands /\ MS!ChainsAlwaysEnd
  BY DEF SweepInv, SweepAlone
<1>2. MS!Collapsed' \subseteq MS!Collapsed
  BY DEF MS!Collapsed, SweepNotMerged
<1>3. SweepOneMerge'
  BY <1>1 DEF SweepOneMerge
<1>4. SweepLiveStands'
  <2>1. SUFFICES ASSUME NEW r \in Sweepers, task'[r].step = "peek", NEW m \in task'[r].live, m \in MS!Collapsed'
                 PROVE  FALSE
    BY DEF SweepLiveStands
  <2>2. m \in MS!Collapsed /\ sweepRow[m].status = "superseded"
    BY <1>2, <2>1 DEF MS!Collapsed
  <2>3. task[r].step = "peek" /\ m \in task[r].live
    BY <2>1, <2>2
  <2> QED BY <1>1, <2>2, <2>3 DEF SweepLiveStands
<1>5. MS!ChainsAlwaysEnd'
  <2>1. SUFFICES ASSUME NEW S \in SUBSET MS!Collapsed', S # {} PROVE \E m \in S : sweepRow'[m].by \notin S
    BY DEF MS!ChainsAlwaysEnd, MS!LeadsOut
  <2>2. PICK m \in S : sweepRow[m].by \notin S
    BY <1>1, <1>2, <2>1 DEF MS!ChainsAlwaysEnd, MS!LeadsOut
  <2>3. m \in Memories /\ sweepRow'[m].status = "superseded"
    BY DEF MS!Collapsed
  <2>4. sweepRow'[m].by = sweepRow[m].by
    BY <2>3 DEF SweepNotMerged
  <2> QED BY <2>2, <2>4
<1> QED BY <1>3, <1>4, <1>5

(* What the code sets of a record with the fields of a row. *)
LEMMA SweepFields ==
  ASSUME NEW S, NEW T, NEW D, NEW R, NEW B,
         NEW e \in [status : S, text : T, due : D, rev : R, by : B],
         NEW status \in S, NEW text \in T, NEW rev \in R, NEW by \in B
  PROVE  /\ [e EXCEPT !.status = status, !.text = text, !.rev = rev]
              \in [status : S, text : T, due : D, rev : R, by : B]
         /\ [e EXCEPT !.status = status, !.rev = rev]
              \in [status : S, text : T, due : D, rev : R, by : B]
         /\ [e EXCEPT !.status = status, !.by = by, !.rev = rev]
              \in [status : S, text : T, due : D, rev : R, by : B]
OBVIOUS

(* A row that is written: forgotten or expired, or updated, *)
SweepWrites == {"active", "archived", "forgotten"}

LEMMA SweepWritten ==
  ASSUME NEW e \in MS!Row, NEW text \in MS!Texts \cup {0}, NEW status \in SweepWrites
  PROVE  [e EXCEPT !.status = status, !.text = text, !.rev = e.rev + 1] \in MS!Row
<1>1. e.rev \in Nat /\ e.rev + 1 \in Nat
  BY DEF MS!Row
<1>2. status \in {"active", "archived", "superseded", "forgotten"}
  BY DEF SweepWrites
<1> QED BY <1>1, <1>2, SweepFields, Zenon DEF MS!Row

(* that is archived by a sweep, *)
LEMMA SweepWrittenArchived ==
  ASSUME NEW e \in MS!Row
  PROVE  LET new == [e EXCEPT !.status = "archived", !.rev = e.rev + 1]
         IN  new \in MS!Row /\ new.status = "archived" /\ new.text = e.text /\ new.rev = e.rev + 1
<1> DEFINE new == [e EXCEPT !.status = "archived", !.rev = e.rev + 1]
<1>1. e.rev \in Nat /\ e.rev + 1 \in Nat
  BY DEF MS!Row
<1>2. new \in MS!Row
  BY <1>1, SweepFields, Zenon DEF MS!Row
<1>3. new.status = "archived" /\ new.text = e.text /\ new.rev = e.rev + 1
  BY DEF MS!Row
<1> QED BY <1>2, <1>3, Zenon

(* and that is merged. *)
LEMMA SweepWrittenMerged ==
  ASSUME NEW e \in MS!Row, NEW k \in Memories
  PROVE  LET new == [e EXCEPT !.status = "superseded", !.by = k, !.rev = e.rev + 1]
         IN  new \in MS!Row /\ new.status = "superseded" /\ new.text = e.text /\ new.by = k /\ new.rev = e.rev + 1
<1> DEFINE new == [e EXCEPT !.status = "superseded", !.by = k, !.rev = e.rev + 1]
<1>1. e.rev \in Nat /\ e.rev + 1 \in Nat
  BY DEF MS!Row
<1>2. new \in MS!Row
  BY <1>1, SweepFields, Zenon DEF MS!Row
<1>3. new.status = "superseded" /\ new.text = e.text /\ new.by = k /\ new.rev = e.rev + 1
  BY DEF MS!Row
<1> QED BY <1>2, <1>3, Zenon

(* A sweeper's row stays or is retired. *)
SweepRetired(e, new) ==
  new = e \/ (new.text \in {e.text, 0} /\ new.status # "active" /\ new.rev = e.rev + 1)

LEMMA SweepRetires ==
  ASSUME MS!TypeOK, NEW m \in Memories, SweepRetired(sweepRow[m], sweepRow'[m])
  PROVE  MS!Retires(m)
<1>1. sweepRow[m].rev \in Nat
  BY DEF MS!TypeOK, MS!Row
<1>2. CASE sweepRow'[m] = sweepRow[m]
  BY <1>1, <1>2 DEF MS!Retires
<1>3. CASE sweepRow'[m] # sweepRow[m]
  BY <1>1, <1>3 DEF MS!Retires, SweepRetired
<1> QED BY <1>2, <1>3

(* What a merge keeps was peeked at. *)
LEMMA SweepKeepIsLive ==
  ASSUME SweepBounds, NEW strategy \in Strategies, NEW live \in SUBSET Memories, live # {}
  PROVE  MS!KeepTarget(strategy, live) \in live
<1>1. PICK n \in Nat : live \subseteq 0 .. n /\ live \subseteq Nat
  <2>1. PICK n \in Nat : Memories \subseteq 0 .. n
    BY DEF SweepBounds
  <2>2. live \subseteq 0 .. n
    BY <2>1
  <2>3. 0 .. n \subseteq Nat
    OBVIOUS
  <2> QED BY <2>2, <2>3
<1>2. Min(live) \in live
  BY <1>1, SweepOldestExists
<1>3. Max(live) \in live
  BY <1>1, SweepNewestExists
<1> QED BY SweepSame, <1>2, <1>3 DEF MS!KeepTarget

(* The task a merge goes on with, or none. *)
LEMMA SweepNextTask ==
  ASSUME SweepInv, NEW s \in Sweepers, task[s].step = "peek",
         MS!NextGroup(s, MS!Rest(s)) \/ MS!Does(s, MS!NoTask)
  PROVE  \E t \in SweepTask : /\ SweepMerging(t) /\ task' = [task EXCEPT ![s] = t]
                              /\ t.step = "peek" => t.live = {}
<1>1. task[s] \in SweepTask /\ task[s].strategy \in Strategies /\ task[s].action = "merge_duplicates"
  BY DEF SweepInv, MS!TypeOK, SweepMerging, SweepTask, SweepSteps
<1>2. PICK groups : groups = MS!Rest(s) /\ groups \in SUBSET SUBSET Memories
  BY <1>1 DEF MS!Rest, SweepTask
<1>3. CASE groups = {} \/ MS!Does(s, MS!NoTask)
  <2>1. task' = [task EXCEPT ![s] = MS!NoTask]
    BY <1>2, <1>3 DEF MS!NextGroup, MS!Does
  <2>2. MS!NoTask \in SweepTask /\ SweepMerging(MS!NoTask) /\ MS!NoTask.step # "peek"
    BY DEF MS!NoTask, SweepTask, SweepSteps, SweepMerging
  <2> QED BY <2>1, <2>2
<1>4. CASE groups # {} /\ ~MS!Does(s, MS!NoTask)
  <2>1. PICK G \in groups : G = CHOOSE H \in groups : TRUE
    BY <1>4
  <2> DEFINE t == [task[s] EXCEPT !.step = "peek", !.groups = groups, !.live = {}, !.left = G]
  <2>2. task' = [task EXCEPT ![s] = t]
    BY <1>2, <1>4, <2>1 DEF MS!NextGroup, MS!Does
  <2>3. t \in SweepTask /\ SweepMerging(t) /\ t.live = {}
    BY <1>1, <1>2 DEF SweepTask, SweepSteps, SweepMerging
  <2> HIDE DEF t
  <2> QED BY <2>2, <2>3
<1> QED BY <1>3, <1>4

(* A merge, which goes by what it peeked at however long ago. *)
LEMMA SweepCollapseKeeps ==
  ASSUME SweepBounds, SweepInv, NEW s \in Sweepers, MS!Collapse(s)
  PROVE  SweepInv' /\ MS!OnlyRetires
<1>1. PICK live \in SUBSET Memories, strategy \in Strategies :
        live = task[s].live /\ strategy = task[s].strategy /\ task[s].step = "peek"
  BY DEF MS!Collapse, SweepInv, MS!TypeOK, SweepMerging
<1>2. \A m \in Memories : sweepRow[m] \in MS!Row
  BY DEF SweepInv, MS!TypeOK
<1>3. PICK t \in SweepTask : /\ SweepMerging(t) /\ task' = [task EXCEPT ![s] = t]
                             /\ t.step = "peek" => t.live = {}
  <2>1. MS!NextGroup(s, MS!Rest(s)) \/ MS!Does(s, MS!NoTask)
    BY DEF MS!Collapse
  <2> QED BY <1>1, <2>1, SweepNextTask
<1>4. writes' = writes /\ overlapped' = overlapped /\ writes \in Nat /\ overlapped \in BOOLEAN
  BY DEF MS!Collapse, SweepInv, MS!TypeOK
<1>5. ASSUME sweepRow' \in [Memories -> MS!Row]
      PROVE  /\ MS!TypeOK' /\ \A r \in Sweepers : SweepMerging(task[r])'
             /\ \A r \in Sweepers : task'[r] = IF r = s THEN t ELSE task[r]
  <2>1. SweepMerging(t) /\ task' = [task EXCEPT ![s] = t] /\ writes' \in Nat /\ overlapped' \in BOOLEAN
    BY <1>3, <1>4
  <2> QED BY <1>5, <2>1, SweepTaskTypes
<1>6. CASE UNCHANGED sweepRow
  <2>1. sweepRow' \in [Memories -> MS!Row]
    BY <1>6 DEF SweepInv, MS!TypeOK
  <2>2. SweepAlone'
    <3>1. \A r \in Sweepers : task'[r].step = "peek" =>
             task[r].step = "peek" /\ \A m \in task'[r].live : m \in task[r].live
      BY <1>1, <1>3, <1>5, <2>1
    <3> QED BY <1>4, <1>6, <3>1, SweepAloneKept DEF SweepNotMerged
  <2>3. MS!OnlyRetires
    BY <1>6, SweepRetires DEF MS!OnlyRetires, SweepRetired, SweepInv
  <2> QED BY <1>5, <2>1, <2>2, <2>3 DEF SweepInv
<1>7. CASE ~UNCHANGED sweepRow
  <2>1. PICK k : k = MS!KeepTarget(strategy, live)
    OBVIOUS
  <2>2. sweepRow' = [m \in Memories |-> IF m \in live \ {k}
                    THEN [sweepRow[m] EXCEPT !.status = "superseded", !.by = k, !.rev = sweepRow[m].rev + 1]
                    ELSE sweepRow[m]]
    BY <1>1, <1>7, <2>1 DEF MS!Collapse, MS!Superseded
  <2>3. live # {}
    <3>1. ASSUME live = {} PROVE FALSE
      <4>1. sweepRow' = [m \in Memories |-> sweepRow[m]]
        BY <2>2, <3>1
      <4> QED BY <1>7, <4>1 DEF SweepInv, MS!TypeOK
    <3> QED BY <3>1
  <2>4. k \in live /\ k \in Memories
    BY <2>1, <2>3, SweepKeepIsLive
  <2>5. ASSUME NEW m \in live \ {k}
        PROVE  /\ sweepRow'[m] \in MS!Row /\ sweepRow'[m].status = "superseded" /\ sweepRow'[m].by = k
               /\ SweepRetired(sweepRow[m], sweepRow'[m])
    <3> DEFINE new == [sweepRow[m] EXCEPT !.status = "superseded", !.by = k, !.rev = sweepRow[m].rev + 1]
    <3>1. m \in Memories /\ sweepRow[m] \in MS!Row /\ k \in Memories
      BY <1>2, <2>4
    <3>2. /\ new \in MS!Row /\ new.status = "superseded" /\ new.text = sweepRow[m].text
          /\ new.by = k /\ new.rev = sweepRow[m].rev + 1
      BY <3>1, SweepWrittenMerged, Zenon
    <3>3. sweepRow'[m] = new
      BY <2>2, <3>1
    <3> HIDE DEF new
    <3> QED BY <3>2, <3>3 DEF SweepRetired
  <2>6. \A m \in Memories \ (live \ {k}) : sweepRow'[m] = sweepRow[m]
    BY <2>2
  <2>7. sweepRow' \in [Memories -> MS!Row]
    <3>1. \A m \in Memories : sweepRow'[m] \in MS!Row
      BY <1>2, <2>5, <2>6
    <3> QED BY <2>2, <3>1
  <2>8. /\ MS!TypeOK' /\ \A r \in Sweepers : SweepMerging(task[r])'
        /\ \A r \in Sweepers : task'[r] = IF r = s THEN t ELSE task[r]
    BY <1>5, <2>7
  <2>9. SweepAlone'
    <3> SUFFICES ASSUME ~overlapped PROVE SweepOneMerge' /\ SweepLiveStands' /\ MS!ChainsAlwaysEnd'
      BY <1>4 DEF SweepAlone
    <3>1. SweepOneMerge /\ SweepLiveStands /\ MS!ChainsAlwaysEnd
      BY DEF SweepInv, SweepAlone
    <3>2. SweepOneMerge'
      BY <1>1, <2>8, <3>1 DEF SweepOneMerge
    <3>3. SweepLiveStands'
      <4>1. ASSUME NEW r \in Sweepers, task'[r].step = "peek" PROVE task'[r].live = {}
        BY <1>1, <1>3, <2>8, <3>1, <4>1 DEF SweepOneMerge
      <4> QED BY <4>1 DEF SweepLiveStands
    <3>4. sweepRow'[k].status # "superseded"
      BY <1>1, <2>4, <2>6, <3>1 DEF SweepLiveStands, MS!Collapsed
    <3>5. SUFFICES ASSUME NEW S \in SUBSET MS!Collapsed', S # {} PROVE \E m \in S : sweepRow'[m].by \notin S
      BY <3>2, <3>3 DEF MS!ChainsAlwaysEnd, MS!LeadsOut
    <3>6. k \notin S
      BY <3>4 DEF MS!Collapsed
    <3>7. CASE S \cap (live \ {k}) # {}
      BY <2>5, <3>6, <3>7
    <3>8. CASE S \cap (live \ {k}) = {}
      <4>1. \A m \in S : m \in Memories /\ sweepRow'[m].status = "superseded" /\ sweepRow'[m] = sweepRow[m]
        BY <2>6, <3>8 DEF MS!Collapsed
      <4>2. S \subseteq MS!Collapsed
        BY <4>1 DEF MS!Collapsed
      <4>3. PICK m \in S : sweepRow[m].by \notin S
        BY <3>1, <3>5, <4>2 DEF MS!ChainsAlwaysEnd, MS!LeadsOut
      <4> QED BY <4>1, <4>3
    <3> QED BY <3>7, <3>8
  <2>10. \A m \in Memories : SweepRetired(sweepRow[m], sweepRow'[m])
    BY <2>5, <2>6 DEF SweepRetired
  <2>11. MS!OnlyRetires
    BY <2>10, SweepRetires DEF MS!OnlyRetires, SweepInv
  <2> QED BY <2>8, <2>9, <2>11 DEF SweepInv
<1> QED BY <1>6, <1>7

(* A step that leaves the rows alone and takes no merge further than what      *)
(* stands.                                                                     *)
LEMMA SweepRowsStay ==
  ASSUME SweepInv, UNCHANGED <<sweepRow, writes, overlapped>>,
         NEW s \in Sweepers, NEW t \in SweepTask, SweepMerging(t),
         task' = [task EXCEPT ![s] = t],
         t.step = "peek" =>
           /\ task[s].step = "peek"
           /\ \A m \in t.live : m \in task[s].live \/ sweepRow[m].status # "superseded"
  PROVE  SweepInv' /\ MS!OnlyRetires
<1>1. /\ MS!TypeOK' /\ \A r \in Sweepers : SweepMerging(task[r])'
      /\ \A r \in Sweepers : task'[r] = IF r = s THEN t ELSE task[r]
  BY SweepTaskTypes DEF SweepInv, MS!TypeOK
<1>2. SweepAlone'
  BY <1>1, SweepAloneKept DEF SweepNotMerged
<1>3. MS!OnlyRetires
  BY SweepRetires DEF MS!OnlyRetires, SweepRetired, SweepInv
<1> QED BY <1>1, <1>2, <1>3 DEF SweepInv

(* The begin of a merge, after which there is one or they have overlapped. *)
LEMMA SweepListGroupsKeeps ==
  ASSUME SweepInv, NEW s \in Sweepers, NEW strategy \in Strategies, MS!ListGroups(s, strategy)
  PROVE  SweepInv' /\ MS!OnlyRetires
<1>1. PICK G \in MS!Groups(MS!Active) : G = CHOOSE H \in MS!Groups(MS!Active) : TRUE
  BY DEF MS!ListGroups
<1>2. MS!Groups(MS!Active) \in SUBSET SUBSET Memories
  BY DEF MS!Groups, MS!Active
<1> DEFINE t == [MS!NoTask EXCEPT !.step = "peek", !.action = "merge_duplicates", !.strategy = strategy,
                                  !.groups = MS!Groups(MS!Active), !.left = G]
<1>3. t \in SweepTask /\ SweepMerging(t) /\ t.live = {}
  BY <1>2 DEF MS!NoTask, SweepTask, SweepSteps, SweepMerging, MS!Actions
<1>4. task' = [task EXCEPT ![s] = t] /\ UNCHANGED <<sweepRow, writes>>
  BY <1>1 DEF MS!ListGroups, MS!Does
<1> HIDE DEF t
<1>5. /\ overlapped' \in BOOLEAN
      /\ ~overlapped' => ~overlapped /\ \A r \in Sweepers : task[r].step # "peek"
  BY DEF MS!ListGroups, SweepInv, MS!TypeOK, SweepMerging
<1>6. /\ MS!TypeOK' /\ \A r \in Sweepers : SweepMerging(task[r])'
      /\ \A r \in Sweepers : task'[r] = IF r = s THEN t ELSE task[r]
  BY <1>3, <1>4, <1>5, SweepTaskTypes DEF SweepInv, MS!TypeOK
<1>7. SweepAlone'
  <2> SUFFICES ASSUME ~overlapped' PROVE SweepOneMerge' /\ SweepLiveStands' /\ MS!ChainsAlwaysEnd'
    BY DEF SweepAlone
  <2>1. MS!ChainsAlwaysEnd'
    <3>1. MS!ChainsAlwaysEnd
      BY <1>5 DEF SweepInv, SweepAlone
    <3> QED BY <1>4, <3>1 DEF MS!ChainsAlwaysEnd, MS!LeadsOut, MS!Collapsed
  <2>2. SweepOneMerge'
    BY <1>5, <1>6 DEF SweepOneMerge
  <2>3. SweepLiveStands'
    BY <1>3, <1>5, <1>6 DEF SweepLiveStands
  <2> QED BY <2>1, <2>2, <2>3
<1>8. MS!OnlyRetires
  BY <1>4, SweepRetires DEF MS!OnlyRetires, SweepRetired, SweepInv
<1> QED BY <1>6, <1>7, <1>8 DEF SweepInv

(* The other steps before a commit. *)
LEMMA SweepReadingKeeps ==
  ASSUME SweepBounds, SweepInv, NEW s \in Sweepers,
         (\E action \in MS!Actions : MS!List(s, action)) \/ MS!Backup(s) \/ MS!PeekMember(s)
  PROVE  SweepInv' /\ MS!OnlyRetires
<1>1. task[s] \in SweepTask /\ SweepMerging(task[s])
  BY DEF SweepInv, MS!TypeOK, SweepTask, SweepSteps
<1>2. ASSUME NEW action \in MS!Actions, MS!List(s, action)
      PROVE  SweepInv' /\ MS!OnlyRetires
  <2> DEFINE t == [MS!NoTask EXCEPT !.step = "backup", !.action = action, !.left = MS!Picked(action)]
  <2>1. MS!Picked(action) \subseteq Memories
    BY DEF MS!Picked, MS!Active
  <2>2. t \in SweepTask /\ SweepMerging(t) /\ t.step # "peek"
    BY <2>1 DEF MS!NoTask, SweepTask, SweepSteps, SweepMerging
  <2>3. task' = [task EXCEPT ![s] = t] /\ UNCHANGED <<sweepRow, writes, overlapped>>
    BY <1>2 DEF MS!List, MS!Does
  <2> HIDE DEF t
  <2> QED BY <2>2, <2>3, SweepRowsStay
<1>3. CASE MS!Backup(s)
  <2>1. PICK t : task' = [task EXCEPT ![s] = t] /\ (t = MS!NoTask \/ t = [task[s] EXCEPT !.step = "commit"])
    BY <1>3 DEF MS!Backup, MS!Does
  <2>2. t \in SweepTask /\ SweepMerging(t) /\ t.step # "peek"
    BY <1>1, <2>1 DEF MS!NoTask, SweepTask, SweepSteps, SweepMerging
  <2>3. UNCHANGED <<sweepRow, writes, overlapped>>
    BY <1>3 DEF MS!Backup
  <2> QED BY <2>1, <2>2, <2>3, SweepRowsStay
<1>4. CASE MS!PeekMember(s)
  <2>1. task[s].left \subseteq Nat /\ task[s].left # {} /\ task[s].left \subseteq Memories
    BY <1>1, <1>4 DEF MS!PeekMember, SweepTask, SweepBounds
  <2>2. PICK k \in Memories : k = Min(task[s].left)
    BY <2>1, SweepOldestExists
  <2> DEFINE t == [task[s] EXCEPT !.left = @ \ {k},
                                  !.live = IF sweepRow[k].status = "active" THEN @ \cup {k} ELSE @]
  <2>3. t \in SweepTask /\ SweepMerging(t)
    BY <1>1, <2>2 DEF SweepTask, SweepMerging
  <2>4. task' = [task EXCEPT ![s] = t] /\ UNCHANGED <<sweepRow, writes, overlapped>>
    BY SweepSame, <1>4, <2>2 DEF MS!PeekMember, MS!Does
  <2>5. \A m \in t.live : m \in task[s].live \/ sweepRow[m].status # "superseded"
    BY <1>1 DEF SweepTask
  <2>6. task[s].step = "peek"
    BY <1>4 DEF MS!PeekMember
  <2> HIDE DEF t
  <2> QED BY <2>3, <2>4, <2>5, <2>6, SweepRowsStay
<1> QED BY <1>2, <1>3, <1>4

(* What a sweep sets. *)
LEMMA SweepRowTypes ==
  ASSUME MS!TypeOK, NEW m \in Memories
  PROVE  /\ MS!Expired(m) \in MS!Row /\ MS!Expired(m).status = "forgotten" /\ MS!Expired(m).text = 0
         /\ MS!Expired(m).rev = sweepRow[m].rev + 1
         /\ MS!Archived(m) \in MS!Row /\ MS!Archived(m).status = "archived" /\ MS!Archived(m).text = sweepRow[m].text
         /\ MS!Archived(m).rev = sweepRow[m].rev + 1
<1>0. PICK e, none, status :
        /\ e \in MS!Row /\ none \in MS!Texts \cup {0} /\ status \in SweepWrites
        /\ e = sweepRow[m] /\ none = 0 /\ status = "forgotten"
  BY DEF MS!TypeOK, SweepWrites
<1>1. MS!Expired(m) = [e EXCEPT !.status = status, !.text = none, !.rev = e.rev + 1]
  BY <1>0, Zenon DEF MS!Expired
<1>2. MS!Archived(m) = [e EXCEPT !.status = "archived", !.rev = e.rev + 1]
  BY <1>0, Zenon DEF MS!Archived
<1>3. /\ MS!Expired(m) \in MS!Row /\ MS!Expired(m).status = status /\ MS!Expired(m).text = none
      /\ MS!Expired(m).rev = e.rev + 1
  <2> DEFINE new == [e EXCEPT !.status = status, !.text = none, !.rev = e.rev + 1]
  <2>1. e \in MS!Row /\ none \in MS!Texts \cup {0} /\ status \in SweepWrites
    BY <1>0
  <2>2. new \in MS!Row
    BY <2>1, SweepWritten, Zenon
  <2>3. new.status = status /\ new.text = none /\ new.rev = e.rev + 1
    BY <2>1 DEF MS!Row
  <2> QED BY <1>1, <2>2, <2>3, Zenon
<1>4. /\ MS!Archived(m) \in MS!Row /\ MS!Archived(m).status = "archived" /\ MS!Archived(m).text = e.text
      /\ MS!Archived(m).rev = e.rev + 1
  BY <1>0, <1>2, SweepWrittenArchived, Zenon
<1> QED BY <1>0, <1>3, <1>4, Zenon

(* A sweep, which retires what it listed. *)
LEMMA SweepCommitKeeps ==
  ASSUME SweepInv, NEW s \in Sweepers, MS!CommitSweep(s)
  PROVE  SweepInv' /\ MS!OnlyRetires
<1>1. \A m \in Memories : sweepRow[m] \in MS!Row
  BY DEF SweepInv, MS!TypeOK
<1>2. \A m \in Memories : sweepRow'[m] \in {sweepRow[m], MS!Expired(m), MS!Archived(m)}
  BY DEF MS!CommitSweep
<1>3. ASSUME NEW m \in Memories
      PROVE  sweepRow'[m] \in MS!Row /\ SweepNotMerged(m) /\ SweepRetired(sweepRow[m], sweepRow'[m])
  BY <1>1, <1>2, SweepRowTypes DEF SweepInv, SweepNotMerged, SweepRetired
<1>4. sweepRow' \in [Memories -> MS!Row]
  BY <1>3 DEF MS!CommitSweep
<1>5. /\ MS!NoTask \in SweepTask /\ SweepMerging(MS!NoTask) /\ MS!NoTask.step # "peek"
      /\ task' = [task EXCEPT ![s] = MS!NoTask] /\ UNCHANGED <<writes, overlapped>>
  BY DEF MS!NoTask, SweepTask, SweepSteps, SweepMerging, MS!CommitSweep, MS!Does
<1>6. /\ MS!TypeOK' /\ \A r \in Sweepers : SweepMerging(task[r])'
      /\ \A r \in Sweepers : task'[r] = IF r = s THEN MS!NoTask ELSE task[r]
  BY <1>4, <1>5, SweepTaskTypes DEF SweepInv, MS!TypeOK
<1>7. SweepAlone'
  BY <1>3, <1>5, <1>6, SweepAloneKept
<1>8. MS!OnlyRetires
  BY <1>3, SweepRetires DEF MS!OnlyRetires, SweepInv
<1> QED BY <1>6, <1>7, <1>8 DEF SweepInv

(* The write service of another process. *)
LEMMA SweepOthersKeep ==
  ASSUME SweepInv, NEW m \in Memories,
         \/ MS!OtherForget(m)
         \/ \E text \in MS!Texts \cup {sweepRow[m].text}, status \in {"active", "archived"} :
              MS!OtherUpdate(m, text, status)
  PROVE  SweepInv' /\ MS!OnlyRetires
<1>1. \A k \in Memories : sweepRow[k] \in MS!Row
  BY DEF SweepInv, MS!TypeOK
<1>2. UNCHANGED <<task, overlapped>> /\ writes' = writes + 1
  BY DEF MS!OtherForget, MS!OtherUpdate
<1>3. PICK text \in MS!Texts \cup {0}, status \in SweepWrites :
        sweepRow' = [sweepRow EXCEPT ![m] = [@ EXCEPT !.status = status, !.text = text,
                                                       !.rev = sweepRow[m].rev + 1]]
  <2>1. sweepRow[m].text \in MS!Texts \cup {0}
    BY <1>1 DEF MS!Row
  <2>2. CASE MS!OtherForget(m)
    <3>1. 0 \in MS!Texts \cup {0} /\ "forgotten" \in SweepWrites
      BY DEF SweepWrites
    <3> QED BY <2>2, <3>1, Zenon DEF MS!OtherForget
  <2>3. ASSUME NEW text \in MS!Texts \cup {sweepRow[m].text}, NEW status \in {"active", "archived"},
               MS!OtherUpdate(m, text, status)
        PROVE  \E t \in MS!Texts \cup {0}, u \in SweepWrites :
                 sweepRow' = [sweepRow EXCEPT ![m] = [@ EXCEPT !.status = u, !.text = t,
                                                                !.rev = sweepRow[m].rev + 1]]
    <3>1. text \in MS!Texts \cup {0} /\ status \in SweepWrites
      BY <2>1 DEF SweepWrites
    <3> QED BY <2>3, <3>1, Zenon DEF MS!OtherUpdate
  <2> QED BY <2>2, <2>3
<1>4. PICK new : /\ new \in MS!Row /\ new.status # "superseded"
                 /\ sweepRow' = [sweepRow EXCEPT ![m] = new]
  <2> DEFINE new == [sweepRow[m] EXCEPT !.status = status, !.text = text, !.rev = sweepRow[m].rev + 1]
  <2>1. sweepRow[m] \in MS!Row /\ text \in MS!Texts \cup {0} /\ status \in SweepWrites
    BY <1>1, <1>3
  <2>2. new \in MS!Row
    BY <2>1, SweepWritten, Zenon
  <2>3. sweepRow' = [sweepRow EXCEPT ![m] = new]
    BY <1>3, Zenon
  <2>4. new.status # "superseded"
    <3>1. new.status = status
      BY <2>1 DEF MS!Row
    <3> QED BY <2>1, <3>1 DEF SweepWrites
  <2> HIDE DEF new
  <2> QED BY <2>2, <2>3, <2>4
<1>5. sweepRow' \in [Memories -> MS!Row] /\ \A k \in Memories : SweepNotMerged(k)
  BY <1>1, <1>4 DEF SweepNotMerged, SweepInv, MS!TypeOK
<1>6. MS!TypeOK' /\ \A r \in Sweepers : SweepMerging(task[r])'
  BY <1>2, <1>5 DEF SweepInv, MS!TypeOK, SweepMerging
<1>7. SweepAlone'
  BY <1>2, <1>5, SweepAloneKept
<1> QED BY <1>2, <1>6, <1>7 DEF SweepInv, MS!OnlyRetires

(* Every step keeps the invariant, and what sweepers write they retire. *)
LEMMA SweepNextKeeps ==
  ASSUME SweepBounds PROVE SweepInv /\ [MS!Next]_(MS!vars) => SweepInv' /\ MS!OnlyRetires
<1> SUFFICES ASSUME SweepInv, [MS!Next]_(MS!vars) PROVE SweepInv' /\ MS!OnlyRetires
  OBVIOUS
<1>1. CASE UNCHANGED MS!vars
  <2>1. MS!TypeOK' /\ \A r \in Sweepers : SweepMerging(task[r])'
    BY <1>1 DEF MS!vars, SweepInv, MS!TypeOK, SweepMerging
  <2>2. SweepAlone'
    BY <1>1, SweepAloneKept DEF MS!vars, SweepNotMerged
  <2> QED BY <1>1, <2>1, <2>2 DEF MS!vars, SweepInv, MS!OnlyRetires
<1>2. CASE MS!Next
  BY <1>2, SweepCollapseKeeps, SweepListGroupsKeeps, SweepReadingKeeps, SweepCommitKeeps, SweepOthersKeep
  DEF MS!Next
<1> QED BY <1>1, <1>2

(* The constants are so. *)
LEMMA SweepBoundsHold == SweepBounds
<1>1. CASE Memories = {}
  BY <1>1, AbsentAssumption DEF SweepBounds
<1>2. CASE Memories # {}
  BY <1>2, AbsentAssumption, NumbersAssumption DEF SweepBounds
<1> QED BY <1>1, <1>2

(* A step of the whole is one of this part, if it is its turn. *)
LEMMA SweepTurn ==
  ASSUME [Next]_vars
  PROVE  part' = part /\ (part = "sweeps" => [MS!Next]_(MS!vars))
<1>1. part' = part
  BY DEF Next, vars, Only
<1>2. part = "sweeps" => [MS!Next]_(MS!vars)
  BY DEF Next, vars, Only, MS!vars, sweepsVars
<1> QED BY <1>1, <1>2

(* So the invariant holds whenever this part moves. *)
LEMMA SweepAlways == Spec => [](part = "sweeps" => SweepInv)
<1>1. Init => (part = "sweeps" => SweepInv)
  BY SweepBoundsHold, SweepInitInv DEF Init
<1>2. (part = "sweeps" => SweepInv) /\ [Next]_vars => (part = "sweeps" => SweepInv)'
  BY SweepBoundsHold, SweepNextKeeps, SweepTurn
<1> QED BY <1>1, <1>2, PTL DEF Spec

-----------------------------------------------------------------------------
(* Session ingest: SI in Services. *)

(* The steps and the records of the calls. *)
IngestSteps == {"idle", "insert", "blob", "event"}
IngestCalls == [step : IngestSteps, bundle : SI!Bundles \cup {None}, id : SessionIds \cup {None}, left : SUBSET Events]

(* None stands for nothing that is there, and events are numbered. *)
IngestBounds == None \notin SessionIds /\ None \notin SI!Bundles /\ Events \subseteq Nat

(* An ingest that has its session is storing events of its bundle: what is    *)
(* left of them is not stored, the others are, unless the session was         *)
(* forgotten.                                                                  *)
IngestWorking(k) == k.step \in {"blob", "event"}

(* What is left of the events of a call goes with what is stored. *)
IngestCallOK(k) ==
  /\ k.step # "idle" => k.bundle \in SI!Bundles
  /\ IngestWorking(k) =>
       /\ k.id \in ingestUsed /\ k.left \subseteq k.bundle.events
       /\ session[k.id] # None =>
            session[k.id] = k.bundle /\ SI!EventsOf(k.id) = k.bundle.events \ k.left
  /\ k.step = "event" => k.left # {} /\ SI!Digest(SI!Min(k.left)) \in blob \cup {None}

(* A session has one ingest, and has none any more once it was answered. *)
IngestApart ==
  /\ \A c, d \in Clients :
       IngestWorking(ingestCall[c]) /\ IngestWorking(ingestCall[d]) /\ ingestCall[c].id = ingestCall[d].id => c = d
  /\ \A c \in Clients : \A a \in answered : IngestWorking(ingestCall[c]) /\ ~a.replayed => a.id # ingestCall[c].id

(* An identifier that is stored or answered has been given out. *)
IngestKnown == SI!Stored \subseteq ingestUsed /\ \A a \in answered : a.id \in ingestUsed

(* The inductive invariant. *)
IngestInv ==
  /\ SI!TypeOK
  /\ \A c \in Clients : IngestCallOK(ingestCall[c])
  /\ IngestApart /\ IngestKnown /\ SI!SessionsConsistent

(* A set of numbers has a least one. *)
LEMMA IngestLeast ==
  ASSUME NEW S, S \subseteq Nat, S # {}
  PROVE  SI!Min(S) \in S
<1> DEFINE Less == OpToRel(<, Nat)
<1>1. IsWellFoundedOn(Less, Nat)
  BY NatLessThanWellFounded
<1> HIDE DEF Less
<1>2. PICK i \in S : \A j \in S : <<j, i>> \notin Less
  BY <1>1, WFMin
<1>3. \A j \in S : ~(j < i)
  BY <1>2 DEF Less, OpToRel
<1>4. \A j \in S : i <= j
  BY <1>3
<1> QED BY <1>4 DEF SI!Min

(* It holds at first. *)
LEMMA IngestTypeInit == ASSUME IngestBounds PROVE SI!Init => IngestInv
<1> SUFFICES ASSUME SI!Init PROVE IngestInv
  OBVIOUS
<1>1. SI!Stored = {} /\ \A c \in Clients : ingestCall[c] = SI!NoCall
  BY DEF SI!Init, SI!Stored
<1>2. SI!TypeOK
  BY DEF SI!Init, SI!TypeOK, SI!NoCall
<1>3. \A c \in Clients : IngestCallOK(ingestCall[c])
  BY <1>1 DEF IngestCallOK, IngestWorking, SI!NoCall
<1>4. IngestApart /\ IngestKnown
  BY <1>1 DEF IngestApart, IngestKnown, IngestWorking, SI!NoCall, SI!Init
<1>5. SI!SessionsConsistent
  BY <1>1 DEF SI!SessionsConsistent, SI!OneSessionPerSource, SI!EventsOfTheBundle, SI!BodiesStored, SI!FreshIsWhole, SI!Init
<1> QED BY <1>2, <1>3, <1>4, <1>5 DEF IngestInv

(* The types again, each call apart. *)
LEMMA IngestTypesOf ==
  ASSUME SI!TypeOK PROVE ingestCall \in [Clients -> IngestCalls]
BY DEF SI!TypeOK, IngestCalls, IngestSteps

(* The types of the variables after a step. *)
LEMMA IngestTypesNext ==
  ASSUME session' \in [SessionIds -> SI!Bundles \cup {None}], ingestEvent' \in [Events -> SessionIds \cup {None}],
         blob' \subseteq {"text"}, ingestUsed' \subseteq SessionIds, ingestCall' \in [Clients -> IngestCalls],
         answered' \subseteq [id : SessionIds, replayed : BOOLEAN]
  PROVE  SI!TypeOK'
BY DEF SI!TypeOK, IngestCalls, IngestSteps

(* What a call that is not idle holds. *)
LEMMA IngestCallTypes ==
  ASSUME IngestInv, NEW c \in Clients
  PROVE  ingestCall[c] \in IngestCalls /\ IngestCallOK(ingestCall[c])
BY DEF IngestInv, SI!TypeOK, IngestCalls, IngestSteps

(* A call that is over. *)
LEMMA IngestNoCallOK == SI!NoCall \in IngestCalls /\ SI!NoCall.step = "idle" /\ IngestCallOK(SI!NoCall) /\ ~IngestWorking(SI!NoCall)
BY DEF SI!NoCall, IngestCalls, IngestSteps, IngestCallOK, IngestWorking

(* A call that a step leaves alone stands as long as its session does. *)
LEMMA IngestStaysOK ==
  ASSUME NEW k, IngestCallOK(k), blob \subseteq blob', ingestUsed \subseteq ingestUsed',
         IngestWorking(k) => session'[k.id] \in {session[k.id], None}
                       /\ (session'[k.id] # None => SI!EventsOf(k.id)' = SI!EventsOf(k.id))
  PROVE  IngestCallOK(k)'
<1>1. k.step # "idle" => k.bundle \in SI!Bundles
  BY DEF IngestCallOK
<1>2. IngestWorking(k) => /\ k.id \in ingestUsed' /\ k.left \subseteq k.bundle.events
                          /\ session'[k.id] # None =>
                               session'[k.id] = k.bundle /\ SI!EventsOf(k.id)' = k.bundle.events \ k.left
  BY DEF IngestCallOK
<1>3. k.step = "event" => k.left # {} /\ SI!Digest(SI!Min(k.left)) \in blob' \cup {None}
  BY DEF IngestCallOK
<1> QED BY <1>1, <1>2, <1>3 DEF IngestCallOK, IngestWorking

(* A step that moves one call, and at most adds a body. *)
LEMMA IngestMove ==
  ASSUME IngestInv, NEW c \in Clients, NEW k \in IngestCalls, ingestCall' = [ingestCall EXCEPT ![c] = k],
         UNCHANGED <<session, ingestEvent, ingestUsed, answered>>, blob \subseteq blob', blob' \subseteq {"text"},
         IngestCallOK(k)', IngestWorking(k) => IngestWorking(ingestCall[c]) /\ k.id = ingestCall[c].id
  PROVE  IngestInv'
<1>1. \A d \in Clients : ingestCall'[d] = IF d = c THEN k ELSE ingestCall[d]
  BY DEF IngestInv, SI!TypeOK
<1>2. SI!TypeOK'
  <2>1. ingestCall' \in [Clients -> IngestCalls]
    BY IngestTypesOf DEF IngestInv
  <2> QED BY <2>1, IngestTypesNext DEF IngestInv, SI!TypeOK
<1>3. \A d \in Clients : IngestCallOK(ingestCall[d])'
  <2> SUFFICES ASSUME NEW d \in Clients, d # c PROVE IngestCallOK(ingestCall[d])'
    BY <1>1
  <2>1. IngestCallOK(ingestCall[d]) /\ ingestCall'[d] = ingestCall[d]
    BY <1>1 DEF IngestInv
  <2>2. \A j : SI!EventsOf(j)' = SI!EventsOf(j)
    BY DEF SI!EventsOf
  <2> QED BY <2>1, <2>2, IngestStaysOK
<1>4. IngestApart'
  BY <1>1 DEF IngestInv, IngestApart, IngestWorking
<1>5. IngestKnown' /\ SI!SessionsConsistent'
  BY DEF IngestInv, IngestKnown, SI!Stored, SI!SessionsConsistent, SI!OneSessionPerSource, SI!EventsOfTheBundle, SI!BodiesStored,
     SI!FreshIsWhole, SI!EventsOf
<1> QED BY <1>2, <1>3, <1>4, <1>5 DEF IngestInv

(* A call that throws or dies leaves what it stored. *)
LEMMA IngestThrowsKeeps ==
  ASSUME IngestInv, NEW c \in Clients, SI!Throws(c) PROVE IngestInv'
<1>1. IngestCallOK(SI!NoCall)'
  BY DEF SI!NoCall, IngestCallOK, IngestWorking
<1> QED BY <1>1, IngestNoCallOK, IngestMove DEF SI!Throws, SI!Does, IngestInv, SI!TypeOK

(* An ingest looks its source up. *)
LEMMA IngestLookupKeeps ==
  ASSUME IngestBounds, IngestInv, NEW c \in Clients, NEW b \in SI!Bundles, SI!Lookup(c, b) PROVE IngestInv'
<1>1. CASE SI!Replay(c, b)
  <2>1. PICK i \in SI!Stored : answered' = answered \cup {[id |-> i, replayed |-> TRUE]}
    BY <1>1 DEF SI!Replay
  <2>2. UNCHANGED <<session, ingestEvent, blob, ingestUsed, ingestCall>>
    BY <1>1 DEF SI!Replay
  <2>3. i \in ingestUsed /\ i \in SessionIds
    BY DEF IngestInv, IngestKnown, SI!Stored
  <2>4. \A a \in answered' : ~a.replayed => a \in answered
    BY <2>1
  <2>5. SI!TypeOK'
    <3>1. [id |-> i, replayed |-> TRUE] \in [id : SessionIds, replayed : BOOLEAN]
      BY <2>3, Zenon
    <3>2. answered' \subseteq [id : SessionIds, replayed : BOOLEAN]
      BY <2>1, <3>1 DEF IngestInv, SI!TypeOK
    <3> QED BY <2>2, <3>2 DEF IngestInv, SI!TypeOK
  <2>6. (\A d \in Clients : IngestCallOK(ingestCall[d])') /\ IngestApart' /\ IngestKnown'
    BY <2>1, <2>2, <2>3, <2>4 DEF IngestInv, IngestCallOK, IngestApart, IngestWorking, IngestKnown, SI!EventsOf, SI!Stored
  <2>7. SI!SessionsConsistent'
    BY <2>2, <2>4 DEF IngestInv, SI!SessionsConsistent, SI!OneSessionPerSource, SI!EventsOfTheBundle, SI!BodiesStored,
       SI!FreshIsWhole, SI!EventsOf, SI!Stored
  <2> QED BY <2>5, <2>6, <2>7 DEF IngestInv
<1>2. CASE ~SI!Replay(c, b)
  <2> PICK k : k = [SI!NoCall EXCEPT !.step = "insert", !.bundle = b]
    OBVIOUS
  <2>1. k \in IngestCalls /\ k.step = "insert" /\ k.bundle = b
    BY DEF SI!NoCall, IngestCalls, IngestSteps
  <2>2. ingestCall' = [ingestCall EXCEPT ![c] = k] /\ UNCHANGED <<session, ingestEvent, blob, ingestUsed, answered>>
    BY <1>2 DEF SI!Lookup, SI!Does
  <2>3. IngestCallOK(k)' /\ ~IngestWorking(k)
    BY <2>1 DEF IngestCallOK, IngestWorking
  <2> QED BY <2>1, <2>2, <2>3, IngestMove DEF IngestInv, SI!TypeOK
<1> QED BY <1>1, <1>2

(* An ingest inserts its session. *)
LEMMA IngestInsertKeeps ==
  ASSUME IngestBounds, IngestInv, NEW c \in Clients, SI!InsertSession(c) PROVE IngestInv'
<1>1. CASE SI!Throws(c)
  BY <1>1, IngestThrowsKeeps
<1>2. CASE ~SI!Throws(c)
  <2> PICK b : b = ingestCall[c].bundle
    OBVIOUS
  <2>1. PICK i \in SessionIds \ ingestUsed :
          /\ session' = [session EXCEPT ![i] = b] /\ ingestUsed' = ingestUsed \cup {i}
          /\ ingestCall' = [ingestCall EXCEPT ![c] = [ingestCall[c] EXCEPT !.step = "blob", !.id = i, !.left = b.events]]
    BY <1>2 DEF SI!InsertSession, SI!Insert, SI!Does
  <2>2. SI!NotSeen(b) /\ UNCHANGED <<ingestEvent, blob, answered>>
    BY <1>2 DEF SI!InsertSession, SI!Insert
  <2>3. ingestCall[c] \in IngestCalls /\ b \in SI!Bundles /\ b # None
    BY IngestCallTypes DEF SI!InsertSession, IngestCallOK, IngestBounds
  <2>4. b.events \in SUBSET Events
    BY <2>3 DEF SI!Bundles
  <2> PICK k : k = [ingestCall[c] EXCEPT !.step = "blob", !.id = i, !.left = b.events]
    OBVIOUS
  <2>5. k \in IngestCalls /\ k.step = "blob" /\ k.id = i /\ k.left = b.events /\ k.bundle = b
    BY <2>3, <2>4 DEF IngestCalls, IngestSteps
  <2>6. ingestCall' = [ingestCall EXCEPT ![c] = k]
    BY <2>1
  <2>7. session[i] = None /\ SI!Stored' = SI!Stored \cup {i} /\ i \notin SI!Stored
        /\ session'[i] = b /\ \A j \in SessionIds : j # i => session'[j] = session[j]
    BY <2>1, <2>3 DEF IngestInv, SI!TypeOK, IngestKnown, SI!Stored
  <2>8. \A e \in Events : ingestEvent[e] # i
    BY <2>1, <2>7, IngestBounds DEF IngestInv, SI!SessionsConsistent, SI!EventsOfTheBundle, IngestBounds
  <2>9. \A d \in Clients : ingestCall'[d] = IF d = c THEN k ELSE ingestCall[d]
    BY <2>6 DEF IngestInv, SI!TypeOK
  <2>10. SI!TypeOK'
    BY <2>1, <2>2, <2>3, <2>5, <2>6 DEF IngestInv, SI!TypeOK, IngestCalls, IngestSteps
  <2>11. \A d \in Clients : IngestCallOK(ingestCall[d])'
    <3> SUFFICES ASSUME NEW d \in Clients PROVE IngestCallOK(ingestCall[d])'
      OBVIOUS
    <3>1. CASE d = c
      <4>1. SI!EventsOf(i)' = {}
        BY <2>2, <2>8 DEF SI!EventsOf
      <4>2. SI!EventsOf(k.id)' = k.bundle.events \ k.left /\ k.id \in ingestUsed' /\ session'[k.id] = k.bundle
            /\ k.left \subseteq k.bundle.events
        BY <2>1, <2>5, <2>7, <4>1
      <4>3. IngestCallOK(k)'
        BY <2>3, <2>5, <4>2 DEF IngestCallOK, IngestWorking
      <4> QED BY <2>9, <3>1, <4>3
    <3>2. CASE d # c
      <4>1. IngestCallOK(ingestCall[d]) /\ ingestCall'[d] = ingestCall[d] /\ ingestCall[d] \in IngestCalls
        BY <2>9, <3>2, IngestCallTypes
      <4>2. IngestWorking(ingestCall[d]) => ingestCall[d].id \in ingestUsed /\ ingestCall[d].id \in SessionIds /\ ingestCall[d].id # i
        BY <2>1, <4>1 DEF IngestCallOK, IngestInv, SI!TypeOK
      <4>3. IngestWorking(ingestCall[d]) => session'[ingestCall[d].id] = session[ingestCall[d].id]
        BY <2>7, <4>2
      <4>4. (\A j : SI!EventsOf(j)' = SI!EventsOf(j)) /\ ingestUsed \subseteq ingestUsed'
        BY <2>1, <2>2 DEF SI!EventsOf
      <4> QED BY <2>2, <4>1, <4>3, <4>4, IngestStaysOK
    <3> QED BY <3>1, <3>2
  <2>12. IngestApart'
    <3>1. \A d \in Clients : d # c /\ IngestWorking(ingestCall[d]) => ingestCall[d].id \in ingestUsed
      BY IngestCallTypes DEF IngestCallOK
    <3>2. \A a \in answered : a.id \in ingestUsed
      BY DEF IngestInv, IngestKnown
    <3> QED BY <2>1, <2>2, <2>5, <2>9, <3>1, <3>2 DEF IngestInv, IngestApart, IngestWorking
  <2>13. IngestKnown'
    BY <2>1, <2>2, <2>7 DEF IngestInv, IngestKnown
  <2>14. SI!OneSessionPerSource'
    BY <2>2, <2>7 DEF IngestInv, SI!SessionsConsistent, SI!OneSessionPerSource, SI!NotSeen, SI!Stored
  <2>15. SI!EventsOfTheBundle' /\ SI!BodiesStored'
    BY <2>2, <2>7, <2>8 DEF IngestInv, SI!SessionsConsistent, SI!EventsOfTheBundle, SI!BodiesStored, SI!Stored
  <2>16. SI!FreshIsWhole'
    <3>1. \A a \in answered : a.id \in ingestUsed /\ a.id \in SessionIds /\ a.id # i
      BY <2>1 DEF IngestInv, IngestKnown, SI!TypeOK
    <3> QED BY <2>2, <2>7, <3>1 DEF IngestInv, SI!SessionsConsistent, SI!FreshIsWhole, SI!EventsOf
  <2> QED BY <2>10, <2>11, <2>12, <2>13, <2>14, <2>15, <2>16 DEF IngestInv, SI!SessionsConsistent
<1> QED BY <1>1, <1>2

(* A body is stored. *)
LEMMA IngestPutBlobKeeps ==
  ASSUME IngestBounds, IngestInv, NEW c \in Clients, SI!PutBlob(c) PROVE IngestInv'
<1> PICK k : k = [ingestCall[c] EXCEPT !.step = "event"]
  OBVIOUS
<1>1. ingestCall[c] \in IngestCalls /\ IngestCallOK(ingestCall[c]) /\ ingestCall[c].step = "blob" /\ ingestCall[c].left # {}
  BY IngestCallTypes DEF SI!PutBlob
<1>2. k \in IngestCalls /\ k.step = "event" /\ k.left = ingestCall[c].left /\ k.id = ingestCall[c].id /\ k.bundle = ingestCall[c].bundle
  BY <1>1 DEF IngestCalls, IngestSteps
<1>3. ingestCall' = [ingestCall EXCEPT ![c] = k] /\ UNCHANGED <<session, ingestEvent, ingestUsed, answered>>
      /\ blob' = blob \cup ({SI!Digest(SI!Min(ingestCall[c].left))} \ {None})
  BY DEF SI!PutBlob, SI!Does
<1>4. SI!Digest(SI!Min(ingestCall[c].left)) \in {None, "text"}
  BY DEF SI!Digest
<1>5. IngestCallOK(k)'
  <2>1. \A j : SI!EventsOf(j)' = SI!EventsOf(j)
    BY <1>3 DEF SI!EventsOf
  <2>2. IngestCallOK(ingestCall[c]) /\ IngestWorking(ingestCall[c])
    BY <1>1 DEF IngestWorking
  <2>3. k.bundle \in SI!Bundles /\ k.id \in ingestUsed /\ k.left \subseteq k.bundle.events
        /\ (session[k.id] # None => session[k.id] = k.bundle /\ SI!EventsOf(k.id) = k.bundle.events \ k.left)
    BY <1>1, <1>2, <2>2 DEF IngestCallOK
  <2>4. k.left # {} /\ SI!Digest(SI!Min(k.left)) \in blob' \cup {None}
    BY <1>1, <1>2, <1>3
  <2> QED BY <1>2, <1>3, <2>1, <2>3, <2>4 DEF IngestCallOK, IngestWorking
<1>6. blob' \subseteq {"text"}
  BY <1>3, <1>4 DEF IngestInv, SI!TypeOK
<1>7. blob \subseteq blob' /\ (IngestWorking(k) => IngestWorking(ingestCall[c]) /\ k.id = ingestCall[c].id)
  BY <1>1, <1>2, <1>3 DEF IngestWorking
<1> QED BY <1>2, <1>3, <1>5, <1>6, <1>7, IngestMove

(* An event is stored. *)
LEMMA IngestPutEventKeeps ==
  ASSUME IngestBounds, IngestInv, NEW c \in Clients, SI!PutEvent(c) PROVE IngestInv'
<1> PICK e : e = SI!Min(ingestCall[c].left)
  OBVIOUS
<1> PICK i : i = ingestCall[c].id
  OBVIOUS
<1> PICK k : k = [ingestCall[c] EXCEPT !.step = "blob", !.left = ingestCall[c].left \ {e}]
  OBVIOUS
<1>1. CASE SI!Throws(c)
  BY <1>1, IngestThrowsKeeps
<1>2. CASE ~SI!Throws(c)
  <2>1. ingestCall[c] \in IngestCalls /\ IngestCallOK(ingestCall[c]) /\ ingestCall[c].step = "event"
    BY IngestCallTypes DEF SI!PutEvent
  <2>2. ingestEvent[e] = None /\ session[i] # None /\ ingestEvent' = [ingestEvent EXCEPT ![e] = i]
        /\ ingestCall' = [ingestCall EXCEPT ![c] = k] /\ UNCHANGED <<session, blob, ingestUsed, answered>>
    BY <1>2, <2>1 DEF SI!PutEvent, SI!Does, IngestCalls
  <2>3. k \in IngestCalls /\ k.step = "blob" /\ k.left = ingestCall[c].left \ {e} /\ k.id = i /\ k.bundle = ingestCall[c].bundle
    BY <2>1 DEF IngestCalls, IngestSteps
  <2>4. ingestCall[c].left \subseteq Events /\ ingestCall[c].left # {} /\ i \in ingestUsed /\ i \in SessionIds
        /\ session[i] = ingestCall[c].bundle /\ SI!EventsOf(i) = ingestCall[c].bundle.events \ ingestCall[c].left
        /\ ingestCall[c].left \subseteq ingestCall[c].bundle.events /\ SI!Digest(e) \in blob \cup {None}
    BY <2>1, <2>2 DEF IngestCallOK, IngestCalls, IngestWorking, IngestInv, SI!TypeOK
  <2>5. e \in ingestCall[c].left /\ e \in Events /\ i # None
    BY <2>4, IngestLeast DEF IngestBounds
  <2>6. ingestEvent'[e] = i /\ \A f \in Events : f # e => ingestEvent'[f] = ingestEvent[f]
    BY <2>2, <2>5 DEF IngestInv, SI!TypeOK
  <2>7. SI!EventsOf(i)' = SI!EventsOf(i) \cup {e} /\ \A j \in SessionIds : j # i => SI!EventsOf(j)' = SI!EventsOf(j)
    <3>1. {f \in Events : ingestEvent'[f] = i} = {f \in Events : ingestEvent[f] = i} \cup {e}
      BY <2>5, <2>6
    <3>2. \A j \in SessionIds : j # i => {f \in Events : ingestEvent'[f] = j} = {f \in Events : ingestEvent[f] = j}
      BY <2>2, <2>5, <2>6 DEF IngestBounds
    <3>3. ingestEvent[e] = None /\ SI!EventsOf(i) = {f \in Events : ingestEvent[f] = i}
      BY <2>2 DEF SI!EventsOf
    <3> QED BY <3>1, <3>2, <3>3 DEF SI!EventsOf
  <2>8. \A d \in Clients : ingestCall'[d] = IF d = c THEN k ELSE ingestCall[d]
    BY <2>2 DEF IngestInv, SI!TypeOK
  <2>9. SI!TypeOK'
    BY <2>2, <2>3, <2>4, <2>5 DEF IngestInv, SI!TypeOK, IngestCalls, IngestSteps
  <2>10. \A d \in Clients : IngestCallOK(ingestCall[d])'
    <3> SUFFICES ASSUME NEW d \in Clients PROVE IngestCallOK(ingestCall[d])'
      OBVIOUS
    <3>1. CASE d = c
      <4>1. SI!EventsOf(k.id)' = k.bundle.events \ k.left
        BY <2>3, <2>4, <2>5, <2>7
      <4>2. IngestCallOK(k)'
        BY <2>1, <2>2, <2>3, <2>4, <4>1 DEF IngestCallOK, IngestWorking
      <4> QED BY <2>8, <3>1, <4>2
    <3>2. CASE d # c
      <4>1. IngestCallOK(ingestCall[d]) /\ ingestCall'[d] = ingestCall[d] /\ ingestCall[d] \in IngestCalls
        BY <2>8, <3>2, IngestCallTypes
      <4>2. IngestWorking(ingestCall[d]) => ingestCall[d].id # i
        BY <2>1, <3>2 DEF IngestInv, IngestApart, IngestWorking
      <4>3. IngestWorking(ingestCall[d]) => ingestCall[d].id \in SessionIds
        BY <4>1 DEF IngestCallOK, IngestInv, SI!TypeOK
      <4> QED BY <2>2, <2>7, <4>1, <4>2, <4>3, IngestStaysOK
    <3> QED BY <3>1, <3>2
  <2>11. IngestApart' /\ IngestKnown'
    BY <2>1, <2>2, <2>3, <2>8 DEF IngestInv, IngestApart, IngestWorking, IngestKnown, SI!Stored
  <2>12. SI!OneSessionPerSource' /\ SI!EventsOfTheBundle' /\ SI!BodiesStored'
    BY <2>2, <2>4, <2>5, <2>6 DEF IngestInv, SI!SessionsConsistent, SI!OneSessionPerSource, SI!EventsOfTheBundle, SI!BodiesStored, SI!Stored
  <2>13. SI!FreshIsWhole'
    <3>1. \A a \in answered : ~a.replayed => a.id # i /\ a.id \in SessionIds
      BY <2>1 DEF IngestInv, IngestApart, IngestWorking, SI!TypeOK
    <3> QED BY <2>2, <2>7, <3>1 DEF IngestInv, SI!SessionsConsistent, SI!FreshIsWhole, SI!Stored
  <2> QED BY <2>9, <2>10, <2>11, <2>12, <2>13 DEF IngestInv, SI!SessionsConsistent
<1> QED BY <1>1, <1>2

(* An ingest answers. *)
LEMMA IngestAnswerKeeps ==
  ASSUME IngestBounds, IngestInv, NEW c \in Clients, SI!Answer(c) PROVE IngestInv'
<1> PICK i : i = ingestCall[c].id
  OBVIOUS
<1>1. ingestCall[c] \in IngestCalls /\ IngestCallOK(ingestCall[c]) /\ ingestCall[c].step = "blob" /\ ingestCall[c].left = {}
  BY IngestCallTypes DEF SI!Answer
<1>2. answered' = answered \cup {[id |-> i, replayed |-> FALSE]}
      /\ ingestCall' = [ingestCall EXCEPT ![c] = SI!NoCall] /\ UNCHANGED <<session, ingestEvent, blob, ingestUsed>>
  BY DEF SI!Answer, SI!Does
<1>3. i \in ingestUsed /\ i \in SessionIds /\ (session[i] # None => SI!EventsOf(i) = session[i].events)
  BY <1>1 DEF IngestCallOK, IngestWorking, IngestInv, SI!TypeOK
<1>4. \A d \in Clients : ingestCall'[d] = IF d = c THEN SI!NoCall ELSE ingestCall[d]
  BY <1>2 DEF IngestInv, SI!TypeOK
<1>5. SI!TypeOK'
  <2>1. [id |-> i, replayed |-> FALSE] \in [id : SessionIds, replayed : BOOLEAN]
    BY <1>3, Zenon
  <2>2. answered' \subseteq [id : SessionIds, replayed : BOOLEAN]
    BY <1>2, <2>1 DEF IngestInv, SI!TypeOK
  <2>3. ingestCall' \in [Clients -> IngestCalls]
    BY <1>2, IngestNoCallOK, IngestTypesOf DEF IngestInv
  <2> QED BY <1>2, <2>2, <2>3, IngestTypesNext DEF IngestInv, SI!TypeOK
<1>6. \A d \in Clients : IngestCallOK(ingestCall[d])'
  <2>1. \A d \in Clients : d # c => IngestCallOK(ingestCall[d])
    BY IngestCallTypes
  <2> QED BY <1>2, <1>4, <2>1, IngestNoCallOK DEF IngestCallOK, SI!EventsOf, IngestWorking
<1>7. IngestApart'
  <2>1. \A d \in Clients : d # c /\ IngestWorking(ingestCall[d]) => ingestCall[d].id # i
    BY <1>1 DEF IngestInv, IngestApart, IngestWorking
  <2> QED BY <1>2, <1>4, <2>1, IngestNoCallOK DEF IngestInv, IngestApart
<1>8. IngestKnown' /\ SI!OneSessionPerSource' /\ SI!EventsOfTheBundle' /\ SI!BodiesStored'
  BY <1>2, <1>3 DEF IngestInv, IngestKnown, SI!Stored, SI!SessionsConsistent, SI!OneSessionPerSource, SI!EventsOfTheBundle, SI!BodiesStored
<1>9. SI!FreshIsWhole'
  BY <1>2, <1>3 DEF IngestInv, SI!SessionsConsistent, SI!FreshIsWhole, SI!EventsOf, SI!Stored
<1> QED BY <1>5, <1>6, <1>7, <1>8, <1>9 DEF IngestInv, SI!SessionsConsistent

(* A session is forgotten. *)
LEMMA IngestForgetKeeps ==
  ASSUME IngestBounds, IngestInv, NEW i \in SessionIds, SI!Forget(i) PROVE IngestInv'
<1>1. session' = [session EXCEPT ![i] = None] /\ ingestEvent' = SI!EventsLeft(i) /\ UNCHANGED <<blob, ingestUsed, ingestCall, answered>>
  BY DEF SI!Forget
<1>2. SI!Stored' = SI!Stored \ {i} /\ session'[i] = None /\ \A j \in SessionIds : j # i => session'[j] = session[j]
  BY <1>1 DEF IngestInv, SI!TypeOK, SI!Stored
<1>3. \A e \in Events : ingestEvent'[e] = IF ingestEvent[e] = i THEN None ELSE ingestEvent[e]
  BY <1>1 DEF SI!EventsLeft
<1>4. \A j \in SessionIds : j # i => SI!EventsOf(j)' = SI!EventsOf(j)
  BY <1>3 DEF SI!EventsOf, IngestBounds
<1>5. SI!TypeOK'
  BY <1>1 DEF IngestInv, SI!TypeOK, SI!EventsLeft
<1>6. \A d \in Clients : IngestCallOK(ingestCall[d])'
  <2> SUFFICES ASSUME NEW d \in Clients PROVE IngestCallOK(ingestCall[d])'
    OBVIOUS
  <2>1. IngestCallOK(ingestCall[d]) /\ ingestCall'[d] = ingestCall[d]
    BY <1>1, IngestCallTypes
  <2>2. IngestWorking(ingestCall[d]) => ingestCall[d].id \in SessionIds
    BY <2>1 DEF IngestCallOK, IngestInv, SI!TypeOK
  <2> QED BY <1>1, <1>2, <1>4, <2>1, <2>2 DEF IngestCallOK, IngestWorking
<1>7. IngestApart' /\ IngestKnown'
  BY <1>1, <1>2 DEF IngestInv, IngestApart, IngestKnown, IngestWorking
<1>8. SI!OneSessionPerSource' /\ SI!EventsOfTheBundle' /\ SI!BodiesStored'
  BY <1>1, <1>2, <1>3 DEF IngestInv, SI!SessionsConsistent, SI!OneSessionPerSource, SI!EventsOfTheBundle, SI!BodiesStored, SI!Stored
<1>9. SI!FreshIsWhole'
  BY <1>1, <1>2, <1>4 DEF IngestInv, SI!SessionsConsistent, SI!FreshIsWhole, SI!Stored
<1> QED BY <1>5, <1>6, <1>7, <1>8, <1>9 DEF IngestInv, SI!SessionsConsistent

(* So every step keeps the invariant. *)
LEMMA IngestTypeStep == ASSUME IngestBounds PROVE IngestInv /\ [SI!Next]_(SI!vars) => IngestInv'
<1> SUFFICES ASSUME IngestInv, [SI!Next]_(SI!vars) PROVE IngestInv'
  OBVIOUS
<1>1. CASE UNCHANGED SI!vars
  BY <1>1 DEF SI!vars, IngestInv, SI!TypeOK, IngestCallOK, IngestWorking, IngestApart, IngestKnown, SI!Stored, SI!EventsOf, SI!SessionsConsistent,
     SI!OneSessionPerSource, SI!EventsOfTheBundle, SI!BodiesStored, SI!FreshIsWhole
<1>2. CASE SI!Next
  BY <1>2, IngestLookupKeeps, IngestInsertKeeps, IngestPutBlobKeeps, IngestPutEventKeeps, IngestAnswerKeeps, IngestThrowsKeeps, IngestForgetKeeps
     DEF SI!Next, SI!Crash
<1> QED BY <1>1, <1>2

(* The constants are so. *)
LEMMA IngestBoundsHold == IngestBounds
BY AbsentAssumption, NumbersAssumption DEF IngestBounds

(* A step of the whole is one of this part, if it is its turn. *)
LEMMA IngestTurn ==
  ASSUME [Next]_vars
  PROVE  part' = part /\ (part = "sessions" => [SI!Next]_(SI!vars))
<1>1. part' = part
  BY DEF Next, vars, Only
<1>2. part = "sessions" => [SI!Next]_(SI!vars)
  BY DEF Next, vars, Only, SI!vars, sessionsVars
<1> QED BY <1>1, <1>2

(* So the invariant holds whenever this part moves. *)
LEMMA IngestAlways == Spec => [](part = "sessions" => IngestInv)
<1>1. Init => (part = "sessions" => IngestInv)
  BY IngestBoundsHold, IngestTypeInit DEF Init
<1>2. (part = "sessions" => IngestInv) /\ [Next]_vars => (part = "sessions" => IngestInv)'
  BY IngestBoundsHold, IngestTypeStep, IngestTurn
<1> QED BY <1>1, <1>2, PTL DEF Spec

-----------------------------------------------------------------------------
(* Distillation: DI in Services. *)

(* The set operators of the instance are those of this module. *)
LEMMA DistilSame ==
  /\ \A S : DI!Cardinality(S) = Cardinality(S)
<1>1. \A S : DI!Cardinality(S) = Cardinality(S)
  BY DEF DI!Cardinality, Cardinality
<1> QED BY <1>1

(* What the proof takes of the constants. *)
DistilBounds == (\E n \in Nat : Decisions = 1..n) /\ MaxReviews \in Nat /\ None \notin Decisions /\ None \notin Reviewers

(* The records of the tables and of the calls. *)
DistilCandRows == [state : DI!States, about : Decisions \cup {None}, evidence : BOOLEAN, action : BOOLEAN]
DistilWorks == [step : {"idle", "candidate", "evidence", "action"}, at : Nat]
DistilReviewRows == [of : DI!Candidates \cup {None}, to : {"accepted", "rejected", None}]

(* A worker inserts evidence and action of a candidate that is there, the      *)
(* evidence first; a review has a candidate; a memory holds the slot of its    *)
(* candidate.                                                                  *)
DistilAtWork(w) ==
  /\ work[w].step # "idle" => work[w].at >= 1
  /\ work[w].step \in {"evidence", "action"} => work[w].at \in DI!Candidates
  /\ work[w].step = "action" => cand[work[w].at].evidence

(* A review that goes on has a candidate and a decision. *)
DistilReviewed(r) ==
  review[r] = DI!NoReview \/ (review[r].of \in DI!Candidates /\ review[r].to \in {"accepted", "rejected"})

(* A candidate has at most one memory, drawn with its evidence from its slot. *)
DistilDrawn(c) ==
  /\ cand[c].action => cand[c].evidence
  /\ memories[c] <= 1
  /\ memories[c] > 0 => cand[c].evidence /\ slot[c] # None

(* The inductive invariant. *)
DistilInv ==
  /\ DI!TypeOK
  /\ \A w \in Workers : DistilAtWork(w)
  /\ \A r \in Reviewers : DistilReviewed(r)
  /\ \A c \in DI!Candidates : DistilDrawn(c)

(* A set of numbers has an element with any number of them up to it. *)
DistilUpto(S, x) == {e \in S : e <= x}

(* Of n numbers one has i of them up to it. *)
LEMMA DistilNthExists ==
  ASSUME NEW n \in Nat, NEW S, S \subseteq 1..n, NEW i \in 1..Cardinality(S)
  PROVE  \E d \in S : Cardinality(DistilUpto(S, d)) = i
<1> DEFINE X == {x \in Nat : Cardinality(DistilUpto(S, x)) >= i}
<1>0. \A e \in S : e \in Nat /\ 1 <= e /\ e <= n
  OBVIOUS
<1>1. IsFiniteSet(S) /\ Cardinality(S) \in Nat
  <2>1. S \in SUBSET (1..n) /\ IsFiniteSet(1..n)
    BY FS_Interval
  <2> QED BY <2>1, FS_Subset, FS_CardinalityType
<1>2. \A x : IsFiniteSet(DistilUpto(S, x)) /\ Cardinality(DistilUpto(S, x)) \in Nat
  <2> SUFFICES ASSUME NEW x PROVE IsFiniteSet(DistilUpto(S, x)) /\ Cardinality(DistilUpto(S, x)) \in Nat
    OBVIOUS
  <2>1. DistilUpto(S, x) \in SUBSET S
    BY DEF DistilUpto
  <2> QED BY <1>1, <2>1, FS_Subset, FS_CardinalityType
<1>3. n \in X
  <2>1. DistilUpto(S, n) = S
    BY <1>0 DEF DistilUpto
  <2> QED BY <1>1, <2>1
<1>4. PICK d \in X : \A x \in X : d <= x
  <2>1. X \in SUBSET Nat /\ X # {}
    BY <1>3
  <2> HIDE DEF X
  <2> QED BY <2>1, Least
<1>5. Cardinality(DistilUpto(S, 0)) = 0
  <2>1. \A e \in S : ~(e <= 0)
    BY <1>0
  <2>2. DistilUpto(S, 0) = {}
    BY <2>1 DEF DistilUpto
  <2> QED BY <2>2, FS_EmptySet
<1>6. d \in Nat /\ Cardinality(DistilUpto(S, d)) >= i /\ \A x \in Nat : Cardinality(DistilUpto(S, x)) >= i => d <= x
  BY <1>4
<1>7. d # 0 /\ i \in Nat
  BY <1>1, <1>5, <1>6
<1> PICK c : c = d - 1
  OBVIOUS
<1>8. c \in Nat /\ d = c + 1 /\ ~(d <= c)
  BY <1>6, <1>7
<1> HIDE DEF X
<1>9. Cardinality(DistilUpto(S, c)) < i
  BY <1>2, <1>6, <1>7, <1>8
<1>10. CASE d \in S
  <2>1. DistilUpto(S, d) = DistilUpto(S, c) \cup {d} /\ d \notin DistilUpto(S, c)
    <3>1. (\A e \in S : e <= d <=> e <= c \/ e = d) /\ ~(d <= c) /\ d <= d
      BY <1>0, <1>8
    <3> QED BY <1>10, <3>1 DEF DistilUpto
  <2>2. Cardinality(DistilUpto(S, d)) = Cardinality(DistilUpto(S, c)) + 1
    BY <1>2, <2>1, FS_AddElement
  <2>3. Cardinality(DistilUpto(S, d)) = i
    BY <1>2, <1>6, <1>7, <1>9, <2>2
  <2> QED BY <1>10, <2>3
<1>11. CASE d \notin S
  <2>1. DistilUpto(S, d) = DistilUpto(S, c)
    <3>1. \A e \in S : e # d
      BY <1>11
    <3>2. \A e \in S : e <= d <=> e <= c
      BY <1>0, <1>8, <3>1
    <3> QED BY <3>2 DEF DistilUpto
  <2> QED BY <1>2, <1>6, <1>7, <1>9, <2>1
<1> QED BY <1>10, <1>11

(* A proposal is about a decision that passed. *)
LEMMA DistilAboutDecision ==
  ASSUME DistilBounds, passed \subseteq Decisions, NEW i \in Nat, 1 <= i, i <= DI!Proposals
  PROVE  DI!About(i) \in Decisions /\ i \in DI!Candidates
<1> PICK n \in Nat : Decisions = 1..n
  BY DEF DistilBounds
<1> DEFINE S == Decisions \ passed
<1>1. S \in SUBSET (1..n) /\ IsFiniteSet(1..n) /\ Cardinality(1..n) = n
  BY FS_Interval
<1>2. Cardinality(S) \in Nat /\ Cardinality(S) <= n
  BY <1>1, FS_Subset, FS_CardinalityType
<1>3. i \in 1..Cardinality(S)
  BY DistilSame, <1>2 DEF DI!Proposals
<1>4. \E d \in S : Cardinality(DistilUpto(S, d)) = i
  <2> HIDE DEF S
  <2>1. S \subseteq 1..n
    BY <1>1
  <2> QED BY <1>3, <2>1, DistilNthExists
<1>5. DI!About(i) \in S
  BY DistilSame, <1>4 DEF DI!About, DistilUpto
<1> QED BY <1>2, <1>3, <1>5 DEF DI!Candidates


(* The types of the variables, one by one. *)
LEMMA DistilTypesOf ==
  ASSUME DI!TypeOK
  PROVE  cand \in [DI!Candidates -> DistilCandRows] /\ work \in [Workers -> DistilWorks] /\ review \in [Reviewers -> DistilReviewRows]
BY DEF DI!TypeOK, DistilCandRows, DistilWorks, DistilReviewRows

(* The types of the variables after a step. *)
LEMMA DistilTypesNext ==
  ASSUME passed' \subseteq Decisions, cand' \in [DI!Candidates -> DistilCandRows], memories' \in [DI!Candidates -> Nat],
         slot' \in [DI!Candidates -> Reviewers \cup {None}], work' \in [Workers -> DistilWorks],
         review' \in [Reviewers -> DistilReviewRows], reviews' \in 0..MaxReviews
  PROVE  DI!TypeOK'
BY DEF DI!TypeOK, DistilCandRows, DistilWorks, DistilReviewRows

(* It holds at first. *)
LEMMA DistilTypeInit == ASSUME DistilBounds PROVE DI!Init => DistilInv
<1> SUFFICES ASSUME DI!Init PROVE DistilInv
  OBVIOUS
<1>1. DI!NotAtWork \in DistilWorks /\ DI!NotAtWork.step = "idle"
  BY DEF DI!NotAtWork, DistilWorks
<1>2. DI!NoReview \in DistilReviewRows
  BY DEF DI!NoReview, DistilReviewRows
<1>3. DI!NoCandidate \in DistilCandRows /\ ~DI!NoCandidate.action
  <2>1. FALSE \in BOOLEAN /\ "absent" \in DI!States
    BY DEF DI!States
  <2>2. [state |-> "absent", about |-> None, evidence |-> FALSE, action |-> FALSE] \in DistilCandRows
    BY <2>1, Zenon DEF DistilCandRows
  <2> QED BY <2>2 DEF DI!NoCandidate
<1>4. DI!TypeOK
  BY <1>1, <1>2, <1>3 DEF DI!Init, DI!TypeOK, DistilBounds, DistilCandRows, DistilWorks, DistilReviewRows
<1>5. \A w \in Workers : work[w].step = "idle"
  BY <1>1 DEF DI!Init
<1>6. \A c \in DI!Candidates : cand[c] = DI!NoCandidate /\ memories[c] = 0
  BY DEF DI!Init
<1>7. \A r \in Reviewers : review[r] = DI!NoReview
  BY DEF DI!Init
<1>8. \A w \in Workers : DistilAtWork(w)
  BY <1>5 DEF DistilAtWork
<1>9. \A c \in DI!Candidates : DistilDrawn(c)
  BY <1>3, <1>6 DEF DistilDrawn
<1> QED BY <1>4, <1>7, <1>8, <1>9 DEF DistilInv, DistilReviewed

(* One candidate's row changes, and does not lose its evidence. *)
LEMMA DistilRowKeeps ==
  ASSUME DistilBounds, DistilInv, NEW c \in DI!Candidates, NEW k \in DistilCandRows, cand' = [cand EXCEPT ![c] = k],
         cand[c].evidence => k.evidence, k.action => k.evidence, UNCHANGED <<memories, slot>>
  PROVE  /\ cand' \in [DI!Candidates -> DistilCandRows] /\ cand'[c] = k
         /\ \A d \in DI!Candidates : DistilDrawn(d)'
         /\ \A d \in DI!Candidates : cand[d].evidence => cand'[d].evidence
<1>1. cand \in [DI!Candidates -> DistilCandRows]
  BY DistilTypesOf DEF DistilInv
<1>2. cand' \in [DI!Candidates -> DistilCandRows] /\ \A d \in DI!Candidates : cand'[d] = IF d = c THEN k ELSE cand[d]
  BY <1>1
<1>3. \A d \in DI!Candidates : cand[d].evidence => cand'[d].evidence
  BY <1>2
<1>4. \A d \in DI!Candidates : DistilDrawn(d)'
  BY <1>2, <1>3 DEF DistilInv, DistilDrawn
<1> QED BY <1>2, <1>3, <1>4

(* A worker goes on, while evidence stays. *)
LEMMA DistilWorkKeeps ==
  ASSUME DistilBounds, DistilInv, NEW w \in Workers, NEW k \in DistilWorks, work' = [work EXCEPT ![w] = k],
         k.step # "idle" => k.at >= 1,
         k.step \in {"evidence", "action"} => k.at \in DI!Candidates,
         k.step = "action" => cand'[k.at].evidence,
         cand' \in [DI!Candidates -> DistilCandRows], \A d \in DI!Candidates : DistilDrawn(d)',
         \A d \in DI!Candidates : cand[d].evidence => cand'[d].evidence,
         UNCHANGED <<passed, memories, slot, review, reviews>>
  PROVE  DistilInv'
<1>1. work \in [Workers -> DistilWorks] /\ review \in [Reviewers -> DistilReviewRows]
  BY DistilTypesOf DEF DistilInv
<1>2. work' \in [Workers -> DistilWorks] /\ \A v \in Workers : work'[v] = IF v = w THEN k ELSE work[v]
  BY <1>1
<1>3. DI!TypeOK'
  BY <1>1, <1>2, DistilTypesNext DEF DistilInv, DI!TypeOK
<1>4. ASSUME NEW v \in Workers PROVE DistilAtWork(v)'
  <2>1. CASE v = w
    BY <1>2, <2>1 DEF DistilAtWork
  <2>2. CASE v # w
    BY <1>2, <2>2 DEF DistilInv, DistilAtWork
  <2> QED BY <2>1, <2>2
<1>5. \A r \in Reviewers : DistilReviewed(r)'
  BY DEF DistilInv, DistilReviewed
<1> QED BY <1>3, <1>4, <1>5 DEF DistilInv

(* A step that moves one worker and leaves the tables. *)
LEMMA DistilWorkOnly ==
  ASSUME DistilBounds, DistilInv, NEW w \in Workers, NEW k \in DistilWorks, work' = [work EXCEPT ![w] = k],
         k.step \in {"idle", "candidate"}, k.step # "idle" => k.at >= 1,
         UNCHANGED <<passed, cand, memories, slot, review, reviews>>
  PROVE  DistilInv'
<1>1. cand' \in [DI!Candidates -> DistilCandRows]
  BY DistilTypesOf DEF DistilInv
<1>2. \A d \in DI!Candidates : DistilDrawn(d)'
  BY DEF DistilInv, DistilDrawn
<1> QED BY <1>1, <1>2, DistilWorkKeeps

(* The steps of an extraction. *)
LEMMA DistilWorkerKeeps ==
  ASSUME DistilBounds, DistilInv, NEW w \in Workers, DI!Extract(w) \/ DI!InsertCandidate(w) \/ DI!InsertDetail(w) \/ DI!Crash(w)
  PROVE  DistilInv'
<1>0. /\ cand \in [DI!Candidates -> DistilCandRows] /\ work \in [Workers -> DistilWorks] /\ work[w] \in DistilWorks
      /\ DistilAtWork(w) /\ work[w].at \in Nat /\ passed \subseteq Decisions
  BY DistilTypesOf DEF DistilInv, DistilWorks, DI!TypeOK
<1>a. DI!NotAtWork \in DistilWorks /\ DI!NotAtWork.step = "idle"
  BY DEF DI!NotAtWork, DistilWorks
<1>b. ASSUME NEW s \in {"candidate", "evidence", "action"}, NEW i \in Nat
      PROVE  [step |-> s, at |-> i] \in DistilWorks
  BY DEF DistilWorks
<1>1. CASE DI!Extract(w)
  <2> PICK k : k = [step |-> "candidate", at |-> 1]
    OBVIOUS
  <2>1. k \in DistilWorks /\ k.step = "candidate" /\ k.at >= 1
    BY <1>b
  <2>2. work' = [work EXCEPT ![w] = k] /\ UNCHANGED <<passed, cand, memories, slot, review, reviews>>
    BY <1>1 DEF DI!Extract, DI!Works
  <2> QED BY <2>1, <2>2, DistilWorkOnly
<1>2. CASE DI!InsertCandidate(w)
  <2> PICK i : i = work[w].at
    OBVIOUS
  <2>0. i \in Nat /\ i >= 1 /\ UNCHANGED <<passed, memories, slot, review, reviews>>
    BY <1>0, <1>2 DEF DI!InsertCandidate, DistilAtWork
  <2>1. CASE i > DI!Proposals
    BY <1>2, <1>a, <2>0, <2>1, DistilWorkOnly DEF DI!InsertCandidate, DI!Works
  <2>2. CASE ~(i > DI!Proposals) /\ cand[i].state # "absent"
    <3> PICK k : k = [step |-> "candidate", at |-> i + 1]
      OBVIOUS
    <3>1. k \in DistilWorks /\ k.step = "candidate" /\ k.at >= 1
      BY <1>b, <2>0
    <3>2. work' = [work EXCEPT ![w] = k] /\ cand' = cand
      BY <1>2, <2>2 DEF DI!InsertCandidate, DI!Works, DI!Named
    <3> QED BY <2>0, <3>1, <3>2, DistilWorkOnly
  <2>3. CASE ~(i > DI!Proposals) /\ cand[i].state = "absent"
    <3>0. DI!Proposals \in Nat
      <4>1. IsFiniteSet(Decisions) /\ Decisions \ passed \in SUBSET Decisions
        BY FS_Interval DEF DistilBounds
      <4> QED BY DistilSame, <4>1, FS_Subset, FS_CardinalityType DEF DI!Proposals
    <3>1. DI!About(i) \in Decisions /\ i \in DI!Candidates
      BY <1>0, <2>0, <2>3, <3>0, DistilAboutDecision
    <3>2. cand[i] \in DistilCandRows
      BY <1>0, <3>1
    <3> PICK k : k = [cand[i] EXCEPT !.state = "proposed", !.about = DI!About(i)]
      OBVIOUS
    <3>3. k = [state |-> "proposed", about |-> DI!About(i), evidence |-> cand[i].evidence, action |-> cand[i].action]
          /\ cand[i].evidence \in BOOLEAN /\ cand[i].action \in BOOLEAN
      BY <3>2 DEF DistilCandRows
    <3>4. k \in DistilCandRows
      <4>1. "proposed" \in DI!States
        BY DEF DI!States
      <4> QED BY <3>1, <3>3, <4>1, Zenon DEF DistilCandRows
    <3>5. k.evidence = cand[i].evidence /\ k.action = cand[i].action
      BY <3>3
    <3>6. cand' = [cand EXCEPT ![i] = k]
      BY <1>2, <2>3 DEF DI!InsertCandidate, DI!Named
    <3> PICK j : j = [step |-> "evidence", at |-> i]
      OBVIOUS
    <3>7. j \in DistilWorks /\ j.step = "evidence" /\ j.at = i /\ work' = [work EXCEPT ![w] = j]
      BY <1>b, <1>2, <2>0, <2>3 DEF DI!InsertCandidate, DI!Works, DI!Named
    <3>8. cand[i].action => cand[i].evidence
      BY <3>1 DEF DistilInv, DistilDrawn
    <3>9. /\ cand' \in [DI!Candidates -> DistilCandRows] /\ \A d \in DI!Candidates : DistilDrawn(d)'
          /\ \A d \in DI!Candidates : cand[d].evidence => cand'[d].evidence
      BY <2>0, <3>1, <3>4, <3>5, <3>6, <3>8, DistilRowKeeps
    <3> QED BY <2>0, <3>1, <3>7, <3>9, DistilWorkKeeps
  <2> QED BY <2>1, <2>2, <2>3
<1>3. CASE DI!InsertDetail(w)
  <2> PICK i : i = work[w].at
    OBVIOUS
  <2>0. i \in DI!Candidates /\ i \in Nat /\ i >= 1 /\ UNCHANGED <<passed, memories, slot, review, reviews>> /\ cand[i] \in DistilCandRows
        /\ cand[i].evidence \in BOOLEAN /\ cand[i].action \in BOOLEAN
        /\ cand[i].state \in DI!States /\ cand[i].about \in Decisions \cup {None}
    BY <1>0, <1>3 DEF DI!InsertDetail, DistilAtWork, DistilCandRows
  <2>1. CASE work[w].step = "evidence"
    <3> PICK k : k = [cand[i] EXCEPT !.evidence = TRUE]
      OBVIOUS
    <3>1. k = [state |-> cand[i].state, about |-> cand[i].about, evidence |-> TRUE, action |-> cand[i].action]
      BY <2>0 DEF DistilCandRows
    <3>2. k \in DistilCandRows
      <4>1. TRUE \in BOOLEAN
        OBVIOUS
      <4> QED BY <2>0, <3>1, <4>1, Zenon DEF DistilCandRows
    <3>3. k.evidence
      BY <3>1
    <3>4. cand' = [cand EXCEPT ![i] = k]
      BY <1>3, <2>1 DEF DI!InsertDetail, DI!Named
    <3>5. /\ cand' \in [DI!Candidates -> DistilCandRows] /\ cand'[i] = k /\ \A d \in DI!Candidates : DistilDrawn(d)'
          /\ \A d \in DI!Candidates : cand[d].evidence => cand'[d].evidence
      BY <2>0, <3>2, <3>3, <3>4, DistilRowKeeps
    <3> PICK j : j = [work[w] EXCEPT !.step = "action"]
      OBVIOUS
    <3>6. j \in DistilWorks /\ j.step = "action" /\ j.at = i /\ work' = [work EXCEPT ![w] = j]
      BY <1>0, <1>3, <2>1 DEF DI!InsertDetail, DI!Works, DistilWorks
    <3>7. cand'[j.at].evidence
      BY <3>3, <3>5, <3>6
    <3> QED BY <2>0, <3>5, <3>6, <3>7, DistilWorkKeeps
  <2>2. CASE work[w].step = "action"
    <3> PICK k : k = [cand[i] EXCEPT !.action = TRUE]
      OBVIOUS
    <3>1. k = [state |-> cand[i].state, about |-> cand[i].about, evidence |-> cand[i].evidence, action |-> TRUE]
      BY <2>0 DEF DistilCandRows
    <3>2. k \in DistilCandRows
      <4>1. TRUE \in BOOLEAN
        OBVIOUS
      <4> QED BY <2>0, <3>1, <4>1, Zenon DEF DistilCandRows
    <3>3. k.evidence = cand[i].evidence /\ cand[i].evidence
      BY <1>0, <2>2, <3>1 DEF DistilAtWork
    <3>4. cand' = [cand EXCEPT ![i] = k]
      BY <1>3, <2>2 DEF DI!InsertDetail, DI!Named
    <3>5. /\ cand' \in [DI!Candidates -> DistilCandRows] /\ \A d \in DI!Candidates : DistilDrawn(d)'
          /\ \A d \in DI!Candidates : cand[d].evidence => cand'[d].evidence
      BY <2>0, <3>2, <3>3, <3>4, DistilRowKeeps
    <3> PICK j : j = [step |-> "candidate", at |-> i + 1]
      OBVIOUS
    <3>6. j \in DistilWorks /\ j.step = "candidate" /\ j.at >= 1 /\ work' = [work EXCEPT ![w] = j]
      BY <1>b, <1>3, <2>0, <2>2 DEF DI!InsertDetail, DI!Works
    <3> QED BY <2>0, <3>5, <3>6, DistilWorkKeeps
  <2> QED BY <1>3, <2>1, <2>2 DEF DI!InsertDetail
<1>4. CASE DI!Crash(w)
  BY <1>a, <1>4, DistilWorkOnly DEF DI!Crash, DI!Works
<1> QED BY <1>1, <1>2, <1>3, <1>4

(* The steps of a review. *)
LEMMA DistilReviewKeeps ==
  ASSUME DistilBounds, DistilInv, NEW r \in Reviewers,
         DI!EndReview(r) \/ \E c \in DI!Candidates, to \in {"accepted", "rejected"} : DI!StartReview(r, c, to)
  PROVE  DistilInv'
<1>0. cand \in [DI!Candidates -> DistilCandRows] /\ review \in [Reviewers -> DistilReviewRows] /\ work \in [Workers -> DistilWorks]
  BY DistilTypesOf DEF DistilInv
<1>a. ASSUME NEW k \in DistilReviewRows, k = DI!NoReview \/ (k.of \in DI!Candidates /\ k.to \in {"accepted", "rejected"}),
             review' = [review EXCEPT ![r] = k]
      PROVE  review' \in [Reviewers -> DistilReviewRows] /\ \A q \in Reviewers : DistilReviewed(q)'
  <2>1. review' \in [Reviewers -> DistilReviewRows] /\ \A q \in Reviewers : review'[q] = IF q = r THEN k ELSE review[q]
    BY <1>0, <1>a
  <2>2. ASSUME NEW q \in Reviewers PROVE DistilReviewed(q)'
    <3>1. CASE q = r
      BY <1>a, <2>1, <3>1 DEF DistilReviewed
    <3>2. CASE q # r
      BY <2>1, <3>2 DEF DistilInv, DistilReviewed
    <3> QED BY <3>1, <3>2
  <2> QED BY <2>1, <2>2
<1>1. ASSUME NEW c \in DI!Candidates, NEW to \in {"accepted", "rejected"}, DI!StartReview(r, c, to) PROVE DistilInv'
  <2> PICK k : k = [of |-> c, to |-> to]
    OBVIOUS
  <2>1. k \in DistilReviewRows /\ k.of \in DI!Candidates /\ k.to \in {"accepted", "rejected"}
    BY DEF DistilReviewRows
  <2>2. review' = [review EXCEPT ![r] = k] /\ reviews' \in 0..MaxReviews /\ UNCHANGED <<passed, cand, memories, slot, work>>
    BY <1>1 DEF DI!StartReview, DistilInv, DI!TypeOK, DistilBounds
  <2>3. review' \in [Reviewers -> DistilReviewRows] /\ \A q \in Reviewers : DistilReviewed(q)'
    BY <1>a, <2>1, <2>2
  <2>4. DI!TypeOK'
    BY <1>0, <2>2, <2>3, DistilTypesNext DEF DistilInv, DI!TypeOK
  <2> QED BY <2>2, <2>3, <2>4 DEF DistilInv, DistilAtWork, DistilDrawn
<1>2. CASE DI!EndReview(r)
  <2>0. review[r].of \in DI!Candidates /\ review[r] \in DistilReviewRows
    BY <1>0, <1>2 DEF DI!EndReview, DistilInv, DistilReviewed
  <2> PICK c \in DI!Candidates : c = review[r].of
    BY <2>0
  <2>1. cand[c] \in DistilCandRows /\ cand[c].evidence \in BOOLEAN /\ cand[c].action \in BOOLEAN /\ cand[c].about \in Decisions \cup {None}
    BY <1>0 DEF DistilCandRows
  <2>2. review[r].to \in DI!States
    BY <1>2 DEF DI!States, DI!EndReview, DistilInv, DistilReviewed
  <2> PICK k : k = [cand[c] EXCEPT !.state = review[r].to]
    OBVIOUS
  <2>3. k = [state |-> review[r].to, about |-> cand[c].about, evidence |-> cand[c].evidence, action |-> cand[c].action]
    BY <2>1 DEF DistilCandRows
  <2>4. k \in DistilCandRows
    BY <2>1, <2>2, <2>3, Zenon DEF DistilCandRows
  <2>5. cand' = [cand EXCEPT ![c] = k] /\ review' = [review EXCEPT ![r] = DI!NoReview]
        /\ UNCHANGED <<passed, memories, slot, work, reviews>>
    BY <1>2 DEF DI!EndReview
  <2>6. k.evidence = cand[c].evidence /\ k.action = cand[c].action /\ (cand[c].action => cand[c].evidence)
    BY <2>3 DEF DistilInv, DistilDrawn
  <2>7. /\ cand' \in [DI!Candidates -> DistilCandRows] /\ \A d \in DI!Candidates : DistilDrawn(d)'
        /\ \A d \in DI!Candidates : cand[d].evidence => cand'[d].evidence
    BY <2>4, <2>5, <2>6, DistilRowKeeps
  <2>8. DI!NoReview \in DistilReviewRows
    BY DEF DI!NoReview, DistilReviewRows
  <2>9. review' \in [Reviewers -> DistilReviewRows] /\ \A q \in Reviewers : DistilReviewed(q)'
    BY <1>a, <2>5, <2>8
  <2>10. DI!TypeOK'
    BY <1>0, <2>5, <2>7, <2>9, DistilTypesNext DEF DistilInv, DI!TypeOK
  <2>11. \A w \in Workers : DistilAtWork(w)'
    BY <2>5, <2>7 DEF DistilInv, DistilAtWork
  <2> QED BY <2>7, <2>9, <2>10, <2>11 DEF DistilInv
<1> QED BY <1>1, <1>2

(* The steps of an apply. *)
LEMMA DistilApplyKeeps ==
  ASSUME DistilBounds, DistilInv, NEW r \in Reviewers, NEW S \in SUBSET DI!Candidates, DI!Apply(r, S) PROVE DistilInv'
<1>0. cand \in [DI!Candidates -> DistilCandRows] /\ review \in [Reviewers -> DistilReviewRows] /\ work \in [Workers -> DistilWorks]
      /\ memories \in [DI!Candidates -> Nat] /\ slot \in [DI!Candidates -> Reviewers \cup {None}] /\ r # None
  BY DistilTypesOf DEF DistilInv, DI!TypeOK, DistilBounds
<1>1. /\ cand' = [c \in DI!Candidates |-> IF c \in S THEN [cand[c] EXCEPT !.state = "applied"] ELSE cand[c]]
      /\ memories' = [c \in DI!Candidates |-> IF c \in S /\ slot[c] = None THEN memories[c] + 1 ELSE memories[c]]
      /\ slot' = [c \in DI!Candidates |-> IF c \in S THEN r ELSE slot[c]]
      /\ UNCHANGED <<passed, work, review, reviews>>
      /\ \A c \in S : cand[c].action
  BY DEF DI!Apply, DI!Remembered
<1>2. ASSUME NEW c \in DI!Candidates
      PROVE  cand'[c] \in DistilCandRows /\ cand'[c].evidence = cand[c].evidence /\ cand'[c].action = cand[c].action
  <2>1. CASE c \notin S
    BY <1>0, <1>1, <2>1
  <2>2. CASE c \in S
    <3> PICK k : k = [cand[c] EXCEPT !.state = "applied"]
      OBVIOUS
    <3>1. k = [state |-> "applied", about |-> cand[c].about, evidence |-> cand[c].evidence, action |-> cand[c].action]
          /\ cand[c].evidence \in BOOLEAN /\ cand[c].action \in BOOLEAN /\ cand[c].about \in Decisions \cup {None}
      BY <1>0 DEF DistilCandRows
    <3>2. k \in DistilCandRows
      <4>1. "applied" \in DI!States
        BY DEF DI!States
      <4> QED BY <3>1, <4>1, Zenon DEF DistilCandRows
    <3>3. cand'[c] = k
      BY <1>1, <2>2
    <3> QED BY <3>1, <3>2, <3>3
  <2> QED BY <2>1, <2>2
<1>3. cand' \in [DI!Candidates -> DistilCandRows]
  BY <1>1, <1>2
<1>4. memories' \in [DI!Candidates -> Nat] /\ slot' \in [DI!Candidates -> Reviewers \cup {None}]
  BY <1>0, <1>1
<1>5. DI!TypeOK'
  BY <1>0, <1>1, <1>3, <1>4, DistilTypesNext DEF DistilInv, DI!TypeOK
<1>6. ASSUME NEW c \in DI!Candidates PROVE DistilDrawn(c)'
  <2>1. DistilDrawn(c) /\ memories[c] \in Nat
    BY <1>0 DEF DistilInv
  <2>2. memories'[c] = (IF c \in S /\ slot[c] = None THEN memories[c] + 1 ELSE memories[c])
        /\ slot'[c] = IF c \in S THEN r ELSE slot[c]
    BY <1>1
  <2>3. cand'[c].evidence = cand[c].evidence /\ cand'[c].action = cand[c].action
    BY <1>2
  <2>4. c \in S => cand[c].action
    BY <1>1
  <2>5. slot[c] = None => memories[c] = 0
    BY <2>1 DEF DistilDrawn
  <2> QED BY <1>0, <2>1, <2>2, <2>3, <2>4, <2>5 DEF DistilDrawn
<1>7. \A w \in Workers : DistilAtWork(w)'
  BY <1>1, <1>2 DEF DistilInv, DistilAtWork
<1>8. \A q \in Reviewers : DistilReviewed(q)'
  BY <1>1 DEF DistilInv, DistilReviewed
<1> QED BY <1>5, <1>6, <1>7, <1>8 DEF DistilInv

(* So every step keeps the invariant. *)
LEMMA DistilTypeStep == ASSUME DistilBounds PROVE DistilInv /\ [DI!Next]_(DI!vars) => DistilInv'
<1> SUFFICES ASSUME DistilInv, [DI!Next]_(DI!vars) PROVE DistilInv'
  OBVIOUS
<1>1. CASE UNCHANGED DI!vars
  BY <1>1 DEF DI!vars, DistilInv, DI!TypeOK, DistilAtWork, DistilReviewed, DistilDrawn, DI!Candidates
<1>2. CASE DI!Next
  BY <1>2, DistilWorkerKeeps, DistilReviewKeeps, DistilApplyKeeps DEF DI!Next
<1> QED BY <1>1, <1>2

(* What the run checks follows. *)
LEMMA DistilOneEach == DistilInv => DI!Distilled
BY DEF DistilInv, DistilDrawn, DI!Distilled, DI!DistilledOnce, DI!MemoriesHaveEvidence

(* The constants are so. *)
LEMMA DistilBoundsHold == DistilBounds
<1>1. Cardinality(Decisions) \in Nat
  BY NumbersAssumption, FS_CardinalityType
<1> QED BY <1>1, AbsentAssumption, BoundsAssumption, NumbersAssumption DEF DistilBounds

(* A step of the whole is one of this part, if it is its turn. *)
LEMMA DistilTurn ==
  ASSUME [Next]_vars
  PROVE  part' = part /\ (part = "distillation" => [DI!Next]_(DI!vars))
<1>1. part' = part
  BY DEF Next, vars, Only
<1>2. part = "distillation" => [DI!Next]_(DI!vars)
  BY DEF Next, vars, Only, DI!vars, distillationVars
<1> QED BY <1>1, <1>2

(* So the invariant holds whenever this part moves. *)
LEMMA DistilAlways == Spec => [](part = "distillation" => DistilInv)
<1>1. Init => (part = "distillation" => DistilInv)
  BY DistilBoundsHold, DistilTypeInit DEF Init
<1>2. (part = "distillation" => DistilInv) /\ [Next]_vars => (part = "distillation" => DistilInv)'
  BY DistilBoundsHold, DistilTypeStep, DistilTurn
<1> QED BY <1>1, <1>2, PTL DEF Spec

-----------------------------------------------------------------------------
(* Bootstrap plans: BP in Services. *)

(* The groups of steps and states. *)
BootScanning == {"scan", "promote"}
BootApplying == {"apply", "items", "finish"}
BootEnding == {"cancelled", "expired"}
BootOpen == {"scanning", "plan_ready", "applying"}

(* The records of the calls. *)
BootCalls == [step : {"idle"} \cup BootScanning \cup BootApplying \cup BootEnding,
          plan : Plans \cup {None}, saw : BP!States \cup {None}]

(* The types of the variables but for the bound on the applies. *)
BootTypes ==
  /\ plan \in [Plans -> BP!States]
  /\ bootstrapItems \in [Plans -> [ConfiguredSources -> BP!Proposals]]
  /\ written \in [Plans -> [ConfiguredSources -> Nat]]
  /\ bootstrapCall \in [Procs -> BootCalls]

(* Nothing is written for a plan. *)
BootUntouched(p) == \A s \in ConfiguredSources : written[p][s] = 0

(* All that a plan proposes is written. *)
BootComplete(p) == \A s \in BP!ToWrite(p) : written[p][s] > 0

(* What a call knows of its plan. *)
BootCallOK(k) ==
  k.step # "idle" =>
    /\ k.plan \in Plans /\ plan[k.plan] # "absent"
    /\ k.step \in BootScanning => plan[k.plan] \in {"scanning"} \cup BootEnding /\ BootUntouched(k.plan)
    /\ k.step \in BootApplying => plan[k.plan] # "scanning"
    /\ k.step = "apply" => BP!Applicable(k.saw)
    /\ k.step \in BootEnding => k.saw \in BootOpen
    /\ k.step = "finish" => BootComplete(k.plan)

(* A plan is scanned by one process, and applied by none meanwhile. *)
BootAlone(c, d) ==
  bootstrapCall[c].step \in BootScanning /\ bootstrapCall[d].step \in BootScanning \cup BootApplying
    /\ bootstrapCall[c].plan = bootstrapCall[d].plan => c = d

(* The writes of a plan go with its state, and together. *)
BootPlanOK(p) ==
  /\ plan[p] \in {"absent", "scanning"} => BootUntouched(p)
  /\ plan[p] = "applied" => BootComplete(p)
  /\ \A s, t \in BP!ToWrite(p) : written[p][s] = written[p][t]

(* The inductive part of the invariant. *)
BootCore ==
  /\ BootTypes
  /\ \A c \in Procs : BootCallOK(bootstrapCall[c])
  /\ \A c, d \in Procs : BootAlone(c, d)
  /\ \A p \in Plans : BootPlanOK(p)

(* No plan is there at first. *)
LEMMA BootInitInv == BP!Init => BootCore
BY DEF BP!Init, BootCore, BootTypes, BP!States, BP!Terminal, BP!Proposals, BootCalls, BootScanning, BootApplying, BootEnding, BP!NoCall,
       BootCallOK, BootAlone, BootPlanOK, BootUntouched, BootComplete, BP!ToWrite

(* A call that goes on by itself, or is left: its plan and all others stay.    *)
LEMMA BootCallStep ==
  ASSUME BootCore, UNCHANGED <<plan, bootstrapItems, written>>, NEW c \in Procs, NEW k \in BootCalls,
         bootstrapCall' = [bootstrapCall EXCEPT ![c] = k], BootCallOK(k),
         k.step \in BootScanning =>
           bootstrapCall[c].step \in BootScanning /\ bootstrapCall[c].plan = k.plan,
         k.step \in BootApplying =>
           plan[k.plan] \notin {"scanning"} \cup BootEnding \/
             (bootstrapCall[c].step \in BootApplying /\ bootstrapCall[c].plan = k.plan)
  PROVE  BootCore' /\ BP!KeepsEnd
<1>1. BootTypes' /\ \A d \in Procs : bootstrapCall'[d] = IF d = c THEN k ELSE bootstrapCall[d]
  BY DEF BootCore, BootTypes
<1>2. \A d \in Procs : BootCallOK(bootstrapCall[d])'
  BY <1>1 DEF BootCore, BootCallOK, BootUntouched, BootComplete, BP!ToWrite
<1>3. ASSUME NEW d \in Procs, NEW e \in Procs PROVE BootAlone(d, e)'
  <2>1. BootAlone(d, e) /\ BootCallOK(bootstrapCall[d]) /\ BootCallOK(bootstrapCall[e]) /\ BootAlone(c, e) /\ BootAlone(d, c)
    BY DEF BootCore
  <2>2. bootstrapCall'[d] = (IF d = c THEN k ELSE bootstrapCall[d]) /\ bootstrapCall'[e] = (IF e = c THEN k ELSE bootstrapCall[e])
    BY <1>1
  <2> QED BY <2>1, <2>2 DEF BootAlone, BootCallOK, BootScanning, BootApplying
<1>4. \A p \in Plans : BootPlanOK(p)'
  BY DEF BootCore, BootPlanOK, BootUntouched, BootComplete, BP!ToWrite
<1> QED BY <1>1, <1>2, <1>3, <1>4 DEF BootCore, BP!KeepsEnd

(* A move of the state of a plan, by a call that then has another step, or     *)
(* none.                                                                       *)
LEMMA BootMoveStep ==
  ASSUME BootCore, UNCHANGED <<bootstrapItems, written>>, NEW c \in Procs, NEW k \in BootCalls,
         NEW p \in Plans, NEW new \in BP!States,
         bootstrapCall' = [bootstrapCall EXCEPT ![c] = k], plan' = [plan EXCEPT ![p] = new],
         k.step \in {"idle", "items"}, k.step = "items" => k.plan = p /\ new # "scanning",
         new \notin {"absent", "scanning"}, plan[p] \notin BP!Terminal,
         new \in BootEnding \/ \A d \in Procs \ {c} : bootstrapCall[d].step \in BootScanning => bootstrapCall[d].plan # p,
         new = "applied" => BootComplete(p),
         k.step = "items" => \A d \in Procs \ {c} : bootstrapCall[d].step \in BootScanning => bootstrapCall[d].plan # p
  PROVE  BootCore' /\ BP!KeepsEnd
<1>1. BootTypes' /\ \A d \in Procs : bootstrapCall'[d] = IF d = c THEN k ELSE bootstrapCall[d]
  BY DEF BootCore, BootTypes
<1>2. \A q \in Plans : plan'[q] = IF q = p THEN new ELSE plan[q]
  BY DEF BootCore, BootTypes
<1>3. ASSUME NEW d \in Procs PROVE BootCallOK(bootstrapCall[d])'
  <2>1. CASE d = c
    BY <1>1, <1>2, <2>1 DEF BootCallOK, BootScanning, BootApplying, BootEnding, BootTypes
  <2>2. CASE d # c
    <3>1. BootCallOK(bootstrapCall[d]) /\ bootstrapCall'[d] = bootstrapCall[d]
      BY <1>1, <2>2 DEF BootCore
    <3> QED BY <1>2, <2>2, <3>1 DEF BootCallOK, BootUntouched, BootComplete, BP!ToWrite
  <2> QED BY <2>1, <2>2
<1>4. ASSUME NEW d \in Procs, NEW e \in Procs PROVE BootAlone(d, e)'
  <2>1. BootAlone(d, e)
    BY DEF BootCore
  <2>2. bootstrapCall'[d] = (IF d = c THEN k ELSE bootstrapCall[d]) /\ bootstrapCall'[e] = (IF e = c THEN k ELSE bootstrapCall[e])
    BY <1>1
  <2> QED BY <2>1, <2>2 DEF BootAlone, BootScanning, BootApplying
<1>5. \A q \in Plans : BootPlanOK(q)'
  BY <1>2 DEF BootCore, BootPlanOK, BootUntouched, BootComplete, BP!ToWrite
<1>6. BP!KeepsEnd
  BY <1>2 DEF BP!KeepsEnd
<1> QED BY <1>1, <1>3, <1>4, <1>5, <1>6 DEF BootCore

(* What is left of a call that is through. *)
LEMMA BootIdle == BP!NoCall \in BootCalls /\ BP!NoCall.step = "idle" /\ BootCallOK(BP!NoCall)
BY DEF BP!NoCall, BootCalls, BootCallOK

(* A call, its plan, and what it knows of it. *)
LEMMA BootCallTypes ==
  ASSUME BootCore, NEW c \in Procs, bootstrapCall[c].step # "idle"
  PROVE  /\ bootstrapCall[c] \in BootCalls /\ bootstrapCall[c].plan \in Plans /\ BootCallOK(bootstrapCall[c])
         /\ plan[bootstrapCall[c].plan] \in BP!States
BY DEF BootCore, BootTypes, BootCallOK

(* The scan of a new plan: nobody has a call on it yet. *)
LEMMA BootStartScanKeeps ==
  ASSUME BootCore, NEW c \in Procs, NEW p \in Plans, BP!StartScan(c, p) PROVE BootCore' /\ BP!KeepsEnd
<1>1. PICK k \in BootCalls : k.step = "scan" /\ k.plan = p /\ bootstrapCall' = [bootstrapCall EXCEPT ![c] = k]
  BY DEF BP!StartScan, BP!Does, BP!NoCall, BootCalls, BootScanning
<1>2. plan[p] = "absent" /\ plan' = [plan EXCEPT ![p] = "scanning"] /\ UNCHANGED <<bootstrapItems, written>>
  BY DEF BP!StartScan
<1>3. BootTypes' /\ \A d \in Procs : bootstrapCall'[d] = IF d = c THEN k ELSE bootstrapCall[d]
  BY <1>1, <1>2 DEF BootCore, BootTypes, BP!States
<1>4. \A q \in Plans : plan'[q] = IF q = p THEN "scanning" ELSE plan[q]
  BY <1>2 DEF BootCore, BootTypes
<1>5. \A d \in Procs : bootstrapCall[d].step # "idle" => bootstrapCall[d].plan # p
  BY <1>2 DEF BootCore, BootCallOK
<1>6. BootUntouched(p)
  BY <1>2 DEF BootCore, BootPlanOK
<1>7. ASSUME NEW d \in Procs PROVE BootCallOK(bootstrapCall[d])'
  <2>1. BootCallOK(bootstrapCall[d])
    BY DEF BootCore
  <2> QED BY <1>1, <1>2, <1>3, <1>4, <1>5, <1>6, <2>1
          DEF BootCallOK, BootUntouched, BootComplete, BP!ToWrite, BootScanning, BootApplying, BootEnding
<1>8. ASSUME NEW d \in Procs, NEW e \in Procs PROVE BootAlone(d, e)'
  <2>1. BootAlone(d, e)
    BY DEF BootCore
  <2> QED BY <1>1, <1>3, <1>5, <2>1 DEF BootAlone, BootScanning, BootApplying
<1>9. \A q \in Plans : BootPlanOK(q)'
  BY <1>2, <1>4, <1>6 DEF BootCore, BootPlanOK, BootUntouched, BootComplete, BP!ToWrite
<1> QED BY <1>2, <1>3, <1>4, <1>7, <1>8, <1>9 DEF BootCore, BP!KeepsEnd, BP!Terminal

(* What a scan finds: nothing is written of the plan, nor applied.             *)
LEMMA BootScanSourcesKeeps ==
  ASSUME BootCore, NEW c \in Procs, NEW found \in [ConfiguredSources -> BP!Proposals], BP!ScanSources(c, found)
  PROVE  BootCore' /\ BP!KeepsEnd
<1>1. PICK p \in Plans : p = bootstrapCall[c].plan /\ BootUntouched(p) /\ plan[p] \in {"scanning"} \cup BootEnding
  BY BootCallTypes DEF BP!ScanSources, BootCallOK, BootScanning
<1>2. PICK k \in BootCalls : k.step = "promote" /\ k.plan = p /\ bootstrapCall' = [bootstrapCall EXCEPT ![c] = k]
  BY <1>1, BootCallTypes DEF BP!ScanSources, BP!Does, BootCalls, BootScanning
<1>3. bootstrapItems' = [bootstrapItems EXCEPT ![p] = found] /\ UNCHANGED <<plan, written>> /\ bootstrapCall[c].step = "scan"
  BY <1>1 DEF BP!ScanSources
<1>4. BootTypes' /\ \A d \in Procs : bootstrapCall'[d] = IF d = c THEN k ELSE bootstrapCall[d]
  BY <1>2, <1>3 DEF BootCore, BootTypes
<1>5. \A q \in Plans : q # p => bootstrapItems'[q] = bootstrapItems[q]
  BY <1>3 DEF BootCore, BootTypes
<1>6. ASSUME NEW d \in Procs PROVE BootCallOK(bootstrapCall[d])'
  <2>1. BootCallOK(bootstrapCall[d]) /\ BootAlone(c, d)
    BY DEF BootCore
  <2> QED BY <1>1, <1>2, <1>3, <1>4, <1>5, <2>1
          DEF BootCallOK, BootAlone, BootUntouched, BootComplete, BP!ToWrite, BootScanning, BootApplying, BootEnding
<1>7. ASSUME NEW d \in Procs, NEW e \in Procs PROVE BootAlone(d, e)'
  <2>1. BootAlone(d, e) /\ bootstrapCall'[d] = (IF d = c THEN k ELSE bootstrapCall[d])
        /\ bootstrapCall'[e] = (IF e = c THEN k ELSE bootstrapCall[e])
    BY <1>4 DEF BootCore
  <2> QED BY <1>1, <1>2, <1>3, <2>1 DEF BootAlone, BootScanning, BootApplying
<1>8. ASSUME NEW q \in Plans PROVE BootPlanOK(q)'
  <2>1. BootPlanOK(q)
    BY DEF BootCore
  <2>2. CASE q = p
    BY <1>1, <1>3, <2>1, <2>2 DEF BootPlanOK, BootUntouched, BootComplete, BP!ToWrite, BootEnding
  <2>3. CASE q # p
    BY <1>3, <1>5, <2>1, <2>3 DEF BootPlanOK, BootUntouched, BootComplete, BP!ToWrite
  <2> QED BY <2>2, <2>3
<1> QED BY <1>3, <1>4, <1>6, <1>7, <1>8 DEF BootCore, BP!KeepsEnd

(* The items of an apply: all of them, or none.                                *)
LEMMA BootApplyItemsKeeps ==
  ASSUME BootCore, NEW c \in Procs, BP!ApplyItems(c) PROVE BootCore' /\ BP!KeepsEnd
<1>1. PICK p \in Plans : p = bootstrapCall[c].plan /\ bootstrapCall[c] \in BootCalls /\ BootCallOK(bootstrapCall[c]) /\ bootstrapCall[c].step = "items"
  BY BootCallTypes DEF BP!ApplyItems
<1>2. CASE UNCHANGED written
  <2>1. PICK k \in BootCalls : bootstrapCall' = [bootstrapCall EXCEPT ![c] = k]
                           /\ (k = BP!NoCall \/ (k = [bootstrapCall[c] EXCEPT !.step = "finish"] /\ BP!ToWrite(p) = {}))
    <3>1. CASE BP!Does(c, BP!NoCall)
      BY <3>1, BootIdle DEF BP!Does
    <3>2. CASE ~BP!Does(c, BP!NoCall)
      <4>1. /\ bootstrapCall' = [bootstrapCall EXCEPT ![c] = [bootstrapCall[c] EXCEPT !.step = "finish"]]
            /\ written' = [written EXCEPT ![p] = [s \in ConfiguredSources |->
                 IF s \in BP!ToWrite(p) THEN written[p][s] + 1 ELSE written[p][s]]]
        BY <1>1, <3>2 DEF BP!ApplyItems, BP!Does
      <4>2. BP!ToWrite(p) = {}
        <5> SUFFICES ASSUME NEW s \in BP!ToWrite(p) PROVE FALSE
          OBVIOUS
        <5>1. written'[p][s] = written[p][s] + 1 /\ written[p][s] \in Nat
          BY <4>1 DEF BP!ToWrite, BootCore, BootTypes
        <5> QED BY <1>2, <5>1
      <4>3. [bootstrapCall[c] EXCEPT !.step = "finish"] \in BootCalls
        BY <1>1 DEF BootCalls, BootApplying
      <4> QED BY <4>1, <4>2, <4>3
    <3> QED BY <3>1, <3>2
  <2>2. BootCallOK(k) /\ k.step \notin BootScanning /\ (k.step \in BootApplying => k.plan = p)
    BY <1>1, <2>1, BootIdle DEF BootCallOK, BootComplete, BootCalls, BootScanning, BootApplying, BootEnding, BP!NoCall
  <2> QED BY <1>1, <1>2, <2>1, <2>2, BootCallStep DEF BP!ApplyItems, BootApplying
<1>3. CASE ~UNCHANGED written
  <2>1. /\ bootstrapCall' = [bootstrapCall EXCEPT ![c] = [bootstrapCall[c] EXCEPT !.step = "finish"]]
        /\ written' = [written EXCEPT ![p] = [s \in ConfiguredSources |->
             IF s \in BP!ToWrite(p) THEN written[p][s] + 1 ELSE written[p][s]]]
        /\ UNCHANGED <<plan, bootstrapItems>>
    <3>1. [written EXCEPT ![p] = written[p]] = written
      BY DEF BootCore, BootTypes
    <3> QED BY <1>1, <1>3, <3>1 DEF BP!ApplyItems, BP!Does, BP!RolledBack
  <2>2. PICK k \in BootCalls : k.step = "finish" /\ k.plan = p /\ bootstrapCall' = [bootstrapCall EXCEPT ![c] = k]
    BY <1>1, <2>1 DEF BootCalls, BootApplying
  <2>3. BootTypes' /\ \A d \in Procs : bootstrapCall'[d] = IF d = c THEN k ELSE bootstrapCall[d]
    <3>1. \A s \in ConfiguredSources : written[p][s] \in Nat /\ written[p][s] + 1 \in Nat
      BY DEF BootCore, BootTypes
    <3> QED BY <2>1, <2>2, <3>1 DEF BootCore, BootTypes
  <2>4. /\ \A q \in Plans : q # p => written'[q] = written[q]
        /\ \A s \in BP!ToWrite(p) : written'[p][s] = written[p][s] + 1 /\ written[p][s] \in Nat
                                 /\ written'[p][s] > 0
    BY <2>1 DEF BootCore, BootTypes, BP!ToWrite
  <2>5. ASSUME NEW d \in Procs PROVE BootCallOK(bootstrapCall[d])'
    <3>1. BootCallOK(bootstrapCall[d]) /\ BootAlone(d, c)
      BY DEF BootCore
    <3>2. CASE d = c
      <4>1. BootComplete(p)'
        BY <2>1, <2>4 DEF BootComplete, BP!ToWrite
      <4> QED BY <1>1, <2>1, <2>2, <2>3, <3>2, <4>1 DEF BootCallOK, BootScanning, BootApplying, BootEnding
    <3>3. CASE d # c /\ bootstrapCall[d].plan # p
      BY <2>1, <2>3, <2>4, <3>1, <3>3 DEF BootCallOK, BootUntouched, BootComplete, BP!ToWrite
    <3>4. CASE d # c /\ bootstrapCall[d].plan = p
      <4>1. bootstrapCall[d].step \notin BootScanning /\ bootstrapCall'[d] = bootstrapCall[d]
        BY <1>1, <2>3, <3>1, <3>4 DEF BootAlone, BootApplying
      <4>2. BootComplete(p)'
        BY <2>1, <2>4 DEF BootComplete, BP!ToWrite
      <4> QED BY <2>1, <3>1, <3>4, <4>1, <4>2 DEF BootCallOK
    <3> QED BY <3>2, <3>3, <3>4
  <2>6. ASSUME NEW d \in Procs, NEW e \in Procs PROVE BootAlone(d, e)'
    <3>1. BootAlone(d, e) /\ bootstrapCall'[d] = (IF d = c THEN k ELSE bootstrapCall[d])
          /\ bootstrapCall'[e] = (IF e = c THEN k ELSE bootstrapCall[e])
      BY <2>3 DEF BootCore
    <3> QED BY <1>1, <2>2, <3>1 DEF BootAlone, BootScanning, BootApplying
  <2>7. ASSUME NEW q \in Plans PROVE BootPlanOK(q)'
    <3>1. BootPlanOK(q)
      BY DEF BootCore
    <3>2. CASE q = p
      <4>1. plan[p] \notin {"absent", "scanning"}
        BY <1>1 DEF BootCallOK, BootApplying
      <4> QED BY <2>1, <2>4, <3>1, <3>2, <4>1 DEF BootPlanOK, BootUntouched, BootComplete, BP!ToWrite
    <3>3. CASE q # p
      BY <2>1, <2>4, <3>1, <3>3 DEF BootPlanOK, BootUntouched, BootComplete, BP!ToWrite
    <3> QED BY <3>2, <3>3
  <2> QED BY <2>1, <2>3, <2>5, <2>6, <2>7 DEF BootCore, BP!KeepsEnd
<1> QED BY <1>2, <1>3

(* The reads, and the moves by compare-and-set.                                *)
LEMMA BootMovesKeep ==
  ASSUME BootCore, NEW c \in Procs,
         \/ BP!Promote(c) \/ BP!End(c) \/ BP!StartApply(c) \/ BP!Finish(c) \/ BP!Crash(c)
         \/ \E p \in Plans, step \in {"apply", "cancelled", "expired"} : BP!Look(c, p, step)
  PROVE  BootCore' /\ BP!KeepsEnd
<1>1. CASE BP!Crash(c)
  BY <1>1, BootIdle, BootCallStep DEF BP!Crash, BP!Does, BootScanning, BootApplying
<1>2. ASSUME NEW p \in Plans, NEW step \in {"apply", "cancelled", "expired"}, BP!Look(c, p, step)
      PROVE  BootCore' /\ BP!KeepsEnd
  <2>1. PICK k \in BootCalls : /\ bootstrapCall' = [bootstrapCall EXCEPT ![c] = k]
                               /\ k.step = step /\ k.plan = p /\ k.saw = plan[p]
    <3> DEFINE k == [step |-> step, plan |-> p, saw |-> plan[p]]
    <3>1. plan[p] \in BP!States /\ step \in BootApplying \cup BootEnding
      BY DEF BootCore, BootTypes, BootApplying, BootEnding
    <3>2. k \in BootCalls
      BY <3>1 DEF BootCalls
    <3>3. bootstrapCall' = [bootstrapCall EXCEPT ![c] = k]
      BY <1>2 DEF BP!Look, BP!Does
    <3> QED BY <3>2, <3>3
  <2>2. plan[p] \in BP!States /\ UNCHANGED <<plan, bootstrapItems, written>>
    BY <1>2 DEF BP!Look, BootCore, BootTypes
  <2>3. /\ step = "apply" => plan[p] \in {"plan_ready", "applying"}
        /\ step # "apply" => plan[p] \in BootOpen
    BY <1>2, <2>2 DEF BP!Look, BP!Applicable, BP!States, BP!Terminal, BootOpen
  <2>4. BootCallOK(k) /\ k.step \notin BootScanning
    BY <2>1, <2>3 DEF BootCallOK, BP!Applicable, BootScanning, BootApplying, BootEnding, BootOpen
  <2> QED BY <2>1, <2>2, <2>3, <2>4, BootCallStep DEF BootApplying, BootEnding
<1>3. CASE bootstrapCall[c].step # "idle" /\ UNCHANGED <<plan, bootstrapItems, written>> /\ BP!Does(c, BP!NoCall)
  BY <1>3, BootIdle, BootCallStep DEF BP!Does, BootScanning, BootApplying
<1>4. CASE BP!Promote(c) \/ BP!End(c) \/ BP!StartApply(c) \/ BP!Finish(c)
  <2>1. bootstrapCall[c].step # "idle"
    BY <1>4 DEF BP!Promote, BP!End, BP!StartApply, BP!Finish
  <2>2. PICK p \in Plans : p = bootstrapCall[c].plan /\ bootstrapCall[c] \in BootCalls /\ BootCallOK(bootstrapCall[c])
    BY <2>1, BootCallTypes
  <2>3. \A d \in Procs : BootCallOK(bootstrapCall[d]) /\ BootAlone(c, d) /\ BootAlone(d, c)
    BY DEF BootCore
  <2>4. \/ UNCHANGED <<plan, bootstrapItems, written>> /\ BP!Does(c, BP!NoCall)
        \/ BP!Promote(c) /\ BP!Sets(p, "scanning", "plan_ready")
        \/ BP!End(c) /\ BP!Sets(p, bootstrapCall[c].saw, bootstrapCall[c].step)
        \/ BP!StartApply(c) /\ BP!Sets(p, bootstrapCall[c].saw, "applying") /\ BP!Does(c, [bootstrapCall[c] EXCEPT !.step = "items"])
        \/ BP!Finish(c) /\ BP!Sets(p, "applying", "applied")
    BY <1>4, <2>2 DEF BP!Promote, BP!End, BP!StartApply, BP!Finish, BP!Mismatch
  <2>5. CASE BP!Promote(c) /\ BP!Sets(p, "scanning", "plan_ready")
    <3>1. \A d \in Procs \ {c} : bootstrapCall[d].step \in BootScanning => bootstrapCall[d].plan # p
      BY <2>2, <2>3, <2>5 DEF BP!Promote, BootAlone, BootScanning
    <3>2. /\ plan' = [plan EXCEPT ![p] = "plan_ready"] /\ bootstrapCall' = [bootstrapCall EXCEPT ![c] = BP!NoCall]
          /\ UNCHANGED <<bootstrapItems, written>> /\ plan[p] \notin BP!Terminal
      BY <2>5 DEF BP!Promote, BP!Sets, BP!Does, BP!Terminal
    <3>3. "plan_ready" \in BP!States /\ "plan_ready" \notin {"absent", "scanning", "applied"}
      BY DEF BP!States
    <3> QED BY <3>1, <3>2, <3>3, BootIdle, BootMoveStep
  <2>6. CASE BP!End(c) /\ BP!Sets(p, bootstrapCall[c].saw, bootstrapCall[c].step)
    <3>1. bootstrapCall[c].step \in BootEnding /\ bootstrapCall[c].saw \in BootOpen
      BY <2>2, <2>6 DEF BP!End, BootCallOK, BootEnding
    <3>2. /\ bootstrapCall[c].step \in BP!States /\ bootstrapCall[c].step \notin {"absent", "scanning", "applied"}
          /\ plan[p] \notin BP!Terminal
      BY <2>6, <3>1 DEF BP!Sets, BootEnding, BootOpen, BP!States, BP!Terminal
    <3> QED BY <2>6, <3>1, <3>2, BootIdle, BootMoveStep DEF BP!End, BP!Sets, BP!Does
  <2>7. CASE BP!StartApply(c) /\ BP!Sets(p, bootstrapCall[c].saw, "applying") /\ BP!Does(c, [bootstrapCall[c] EXCEPT !.step = "items"])
    <3>1. PICK k \in BootCalls : k.step = "items" /\ k.plan = p /\ bootstrapCall' = [bootstrapCall EXCEPT ![c] = k]
      BY <2>2, <2>7 DEF BootCalls, BootApplying, BP!Does
    <3>2. \A d \in Procs \ {c} : bootstrapCall[d].step \in BootScanning => bootstrapCall[d].plan # p
      BY <2>2, <2>3, <2>7 DEF BP!StartApply, BootAlone, BootApplying
    <3>3. plan[p] \notin BP!Terminal
      BY <2>2, <2>7 DEF BP!StartApply, BP!Sets, BootCallOK, BP!Applicable, BP!Terminal
    <3>4. /\ plan' = [plan EXCEPT ![p] = "applying"] /\ UNCHANGED <<bootstrapItems, written>>
      BY <2>7 DEF BP!StartApply, BP!Sets
    <3>5. "applying" \in BP!States /\ "applying" \notin {"absent", "scanning", "applied"}
      BY DEF BP!States
    <3> QED BY <3>1, <3>2, <3>3, <3>4, <3>5, BootMoveStep
  <2>8. CASE BP!Finish(c) /\ BP!Sets(p, "applying", "applied")
    <3>1. BootComplete(p)
      BY <2>2, <2>8 DEF BP!Finish, BootCallOK
    <3>2. \A d \in Procs \ {c} : bootstrapCall[d].step \in BootScanning => bootstrapCall[d].plan # p
      BY <2>2, <2>3, <2>8 DEF BP!Finish, BootAlone, BootApplying
    <3>3. /\ plan' = [plan EXCEPT ![p] = "applied"] /\ bootstrapCall' = [bootstrapCall EXCEPT ![c] = BP!NoCall]
          /\ UNCHANGED <<bootstrapItems, written>> /\ plan[p] \notin BP!Terminal
      BY <2>8 DEF BP!Finish, BP!Sets, BP!Does, BP!Terminal
    <3>4. "applied" \in BP!States /\ "applied" \notin {"absent", "scanning"}
      BY DEF BP!States, BP!Terminal
    <3> QED BY <3>1, <3>2, <3>3, <3>4, BootIdle, BootMoveStep
  <2> QED BY <1>3, <2>1, <2>4, <2>5, <2>6, <2>7, <2>8
<1> QED BY <1>1, <1>2, <1>4

(* Every step keeps the invariant, and every end.                              *)
LEMMA BootNextKeeps == BootCore /\ [BP!Next]_(BP!vars) => BootCore' /\ [BP!KeepsEnd]_(BP!vars)
<1> SUFFICES ASSUME BootCore, [BP!Next]_(BP!vars) PROVE BootCore' /\ BP!KeepsEnd
  OBVIOUS
<1>1. CASE UNCHANGED BP!vars
  BY <1>1 DEF BP!vars, BootCore, BootTypes, BootCallOK, BootAlone, BootPlanOK, BootUntouched, BootComplete, BP!ToWrite, BP!KeepsEnd
<1> QED BY <1>1, BootStartScanKeeps, BootScanSourcesKeeps, BootApplyItemsKeeps, BootMovesKeep DEF BP!Next

(* Every variable keeps its type.                                              *)
BootInv == BP!TypeOK /\ BootCore

(* It holds at first. *)
LEMMA BootTypeInit == ASSUME MaxApplies \in Nat PROVE BP!Init => BootInv
BY BootInitInv DEF BP!Init, BootInv, BP!TypeOK, BootCore, BootTypes, BP!NoCall

(* So every step keeps the invariant. *)
LEMMA BootTypeStep == ASSUME MaxApplies \in Nat PROVE BootInv /\ [BP!Next]_(BP!vars) => BootInv'
<1> SUFFICES ASSUME BootInv, [BP!Next]_(BP!vars) PROVE BP!TypeOK' /\ BootCore'
  BY DEF BootInv
<1>1. BootCore'
  BY BootNextKeeps DEF BootInv
<1>2. applies' \in 0 .. MaxApplies
  <2>1. applies' = applies \/ (applies < MaxApplies /\ applies' = applies + 1)
    BY DEF BP!Next, BP!vars, BP!StartScan, BP!ScanSources, BP!Promote, BP!End, BP!StartApply, BP!ApplyItems, BP!Finish, BP!Crash, BP!Look
  <2> QED BY <2>1 DEF BootInv, BP!TypeOK
<1>3. broken' \subseteq Plans
  <2>1. CASE UNCHANGED broken
    BY <2>1 DEF BootInv, BP!TypeOK
  <2>2. ASSUME NEW c \in Procs, BP!ApplyItems(c)
        PROVE  broken' \subseteq Plans
    <3>1. bootstrapCall[c].plan \in Plans
      BY <2>2, BootCallTypes DEF BP!ApplyItems, BootInv
    <3> QED BY <2>2, <3>1 DEF BP!ApplyItems, BootInv, BP!TypeOK
  <2> QED BY <2>1, <2>2 DEF BP!Next, BP!vars, BP!StartScan, BP!ScanSources, BP!Promote, BP!End, BP!StartApply, BP!Finish, BP!Crash, BP!Look
<1>4. bootstrapCall' \in [Procs ->
       [step : {"idle", "scan", "promote", "apply", "items", "finish", "cancelled", "expired"},
        plan : Plans \cup {None}, saw : BP!States \cup {None}]]
  <2>1. {"idle"} \cup BootScanning \cup BootApplying \cup BootEnding
        = {"idle", "scan", "promote", "apply", "items", "finish", "cancelled", "expired"}
    BY DEF BootScanning, BootApplying, BootEnding
  <2> QED BY <1>1, <2>1 DEF BootCore, BootTypes, BootCalls
<1> QED BY <1>1, <1>2, <1>3, <1>4 DEF BP!TypeOK, BootCore, BootTypes

(* What the run checks follows.                                                *)
LEMMA BootWhole == BootCore => BP!PlansAreWhole
BY DEF BootCore, BootPlanOK, BootComplete, BP!PlansAreWhole, BP!AllTogether, BP!AppliedIsWritten

(* A step of the whole is one of this part, if it is its turn. *)
LEMMA BootTurn ==
  ASSUME [Next]_vars
  PROVE  part' = part /\ (part = "bootstrap" => [BP!Next]_(BP!vars))
<1>1. part' = part
  BY DEF Next, vars, Only
<1>2. part = "bootstrap" => [BP!Next]_(BP!vars)
  BY DEF Next, vars, Only, BP!vars, bootstrapVars
<1> QED BY <1>1, <1>2

(* So the invariant holds whenever this part moves. *)
LEMMA BootAlways == Spec => [](part = "bootstrap" => BootInv)
<1>1. Init => (part = "bootstrap" => BootInv)
  BY BoundsAssumption, BootTypeInit DEF Init
<1>2. (part = "bootstrap" => BootInv) /\ [Next]_vars => (part = "bootstrap" => BootInv)'
  BY BoundsAssumption, BootTypeStep, BootTurn
<1> QED BY <1>1, <1>2, PTL DEF Spec

-----------------------------------------------------------------------------
(* memory-maintenance-service.ts: as long as no two merges are under way at   *)
(* once, what a merge supersedes leads to a memory that is not superseded,    *)
(* for any memories, sweepers and rules and however others write in between.  *)
THEOREM ChainsEndAlways == Spec => []ChainsEnd
<1>1. (part = "sweeps" => SweepInv) => ChainsEnd
  BY DEF ChainsEnd, SweepInv, SweepAlone, MS!ChainsEnd, MS!ChainsAlwaysEnd
<1> QED BY <1>1, SweepAlways, PTL

(* memory-maintenance-service.ts: no sweep brings back a text that was        *)
(* cleared after the sweep listed its memory or makes a memory active, and    *)
(* what it changes it numbers, though others write between its listing and    *)
(* its commit.                                                                *)
THEOREM SweepsRetireOnly == Spec => SweepsOnlyRetire
<1>1. (part = "sweeps" => SweepInv) /\ [Next]_vars => (part = "sweeps" => MS!OnlyRetires)
  BY SweepBoundsHold, SweepNextKeeps, SweepTurn
<1>2. Spec => [][part = "sweeps" => MS!OnlyRetires]_vars
  BY <1>1, SweepAlways, PTL DEF Spec
<1> QED BY <1>2 DEF SweepsOnlyRetire

(* sessions/service.ts: one session for a source, events of its bundle only,  *)
(* each with its body, and an ingest that was answered in full, for any       *)
(* clients, sources and events.                                               *)
THEOREM SessionsStayConsistent == Spec => []SessionsConsistent
<1>1. (part = "sessions" => IngestInv) => SessionsConsistent
  BY DEF IngestInv, SessionsConsistent
<1> QED BY <1>1, IngestAlways, PTL

(* distillation/service.ts: a candidate becomes one memory at most, and one   *)
(* that has its evidence, for any decisions, workers and reviewers.           *)
THEOREM DistilledOneEach == Spec => []Distilled
<1>1. (part = "distillation" => DistilInv) => Distilled
  BY DistilOneEach DEF Distilled
<1> QED BY <1>1, DistilAlways, PTL
=============================================================================
