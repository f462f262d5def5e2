--------------------------- MODULE MemoryWritesProofs ---------------------------
(***************************************************************************)
(* Theorems about MemoryWrites, for every set of memories, processes, keys *)
(* and calls.                                                              *)
(*                                                                         *)
(* TypeOK is not inductive: a transaction adds one to the revision of rows *)
(* it found with peekEntry some steps ago, and only the fact that rows are *)
(* never deleted makes them rows still.  Sound says so of every call.      *)
(*                                                                         *)
(* What the checks before the transaction promise (the statuses, the       *)
(* budget, char_count) holds in one process only, hypothesis Alone below.  *)
(***************************************************************************)
EXTENDS MemoryWrites, SumTheorems, TLAPS

\* What a call in progress may rely on: the memories it peeked exist, and from
\* the budget on it has peeked all the memories it names.
Sound(c) ==
    /\ c.pc # "idle" => c.req \in Requests
    /\ c.pc \in {"budget", "commit"} => \A i \in c.req.ids : c.seen[i] # None
    /\ \A i \in Ids : c.seen[i] # None => entries[i] # None
    /\ c.pc = "reply" => c.ans # None

SoundCalls == \A p \in Procs : Sound(call[p])

IInv == TypeOK /\ SoundCalls

--------------------------------------------------------------------------------
(* Rows, patches and calls have the shapes they should *)

\* None is no value of any column, call or slot.
LEMMA NoneIsOutside ==
    /\ None \notin Ids /\ None \notin Tiers /\ None \notin Nat /\ None \notin Statuses
    /\ None \notin Requests /\ None \notin Entry /\ None \notin Answer /\ None \notin SlotRow
BY NoneAssumption, NoneIsNoStatus, NoneIsNoRow, NoneIsNoAnswer, BoundsAssumption

\* A patched row is a row, at the next revision, whichever UPDATE stores it.
LEMMA PatchedType ==
    ASSUME NEW e \in Entry, NEW q \in Patch
    PROVE  /\ Patched(e, q) \in Entry /\ Patched(e, q).rev = e.rev + 1
           /\ UpdatedRow(e, q) \in Entry /\ UpdatedRow(e, q).rev = e.rev + 1
           /\ CasUpdatedRow(e, q) \in Entry /\ CasUpdatedRow(e, q).rev = e.rev + 1
BY NoneIsOutside DEF Entry, Patch, Patched, UpdatedRow, CasUpdatedRow, Given

\* forget_memory patches a row with a patch.
LEMMA ForgettingType == Forgetting \in Patch
BY NoneIsOutside DEF Forgetting, NoPatch, Patch, Statuses

\* Superseding patches a row with a patch.
LEMMA SupersedingType == ASSUME NEW n \in Ids PROVE Superseding(n) \in Patch
BY NoneIsOutside DEF Superseding, NoPatch, Patch, Statuses

\* What a call names and carries, by the tool it calls.
LEMMA RequestType ==
    ASSUME NEW r \in Requests
    PROVE  /\ r \in Request /\ r.ids \subseteq Ids /\ r.lists \subseteq Ids /\ r.op \in Tools
           /\ Given(r.patch.status, "active") \in {"active", "archived"}
           /\ r.op \in {"update_memory", "forget_memory"} => Target(r) \in Ids /\ r.ids = {Target(r)}
           /\ r.cas => r.op \in {"update_memory", "forget_memory"}
           /\ r.op \in Creators => r.patch.title \in Nat /\ r.patch.text \in Nat /\ r.patch.tier \in Tiers
<1>1. r \in Request
  BY RequestsAssumption
<1>2. r.ids \subseteq Ids /\ r.lists \subseteq Ids /\ r.op \in Tools
  BY <1>1 DEF Request
<1>3. ASSUME r.op \in {"update_memory", "forget_memory"}
      PROVE  Target(r) \in Ids /\ r.ids = {Target(r)}
  <2>1. \E i \in Ids : r.ids = {i}
    BY <1>3, RequestsAssumption
  <2> QED BY <2>1 DEF Target
<1>4. r.cas => r.op \in {"update_memory", "forget_memory"}
  BY <1>1, RequestsAssumption DEF Request
<1>5. Given(r.patch.status, "active") \in {"active", "archived"}
  BY RequestsAssumption DEF Given
<1> QED BY <1>1, <1>2, <1>3, <1>4, <1>5, RequestsAssumption

\* A new entry is a row at revision 1.
LEMMA ReplacementType ==
    ASSUME NEW c \in CallState, c.req \in Requests, c.req.op \in Creators
    PROVE  Replacement(c) \in Entry /\ Replacement(c).rev = 1
BY RequestType, NoneIsOutside DEF Replacement, NewEntry, Entry, Size, Statuses, Request

\* The patch of an update, its char_count recomputed, is a patch.
LEMMA UpdatePatchType ==
    ASSUME NEW c \in CallState, c.req \in Requests, c.req.op = "update_memory",
           c.seen[Target(c.req)] # None
    PROVE  UpdatePatch(c) \in Patch
<1>1. c.req.patch \in Patch /\ Target(c.req) \in Ids
  BY RequestType DEF Request
<1>2. c.seen[Target(c.req)] \in Entry
  BY <1>1 DEF CallState
<1> QED BY <1>1, <1>2, NoneIsOutside DEF UpdatePatch, Patch, Entry, Size

--------------------------------------------------------------------------------
(* Type correctness *)

\* The invariant holds in the seeded store.
LEMMA InitInv == Init => IInv
<1> SUFFICES ASSUME Init PROVE IInv
  OBVIOUS
<1>1. SeedEntry \in Entry
  BY NoneIsOutside, BoundsAssumption DEF SeedEntry, NewEntry, Entry, Size, Statuses
<1>2. Idle \in CallState
  BY BoundsAssumption DEF Idle, CallState, PCs
<1>3. TypeOK
  BY <1>1, <1>2, NoneIsOutside DEF Init, TypeOK
<1>4. SoundCalls
  BY DEF Init, SoundCalls, Sound, Idle
<1> QED BY <1>3, <1>4 DEF IInv

\* A step that only moves one call on keeps the invariant if what it moves to
\* is well-formed and sound.
LEMMA MoveCall ==
    ASSUME IInv, NEW p \in Procs, NEW c \in CallState, Sound(c),
           call' = [call EXCEPT ![p] = c], UNCHANGED tables, UNCHANGED <<effects, casWins>>,
           told' \in [Slots -> SUBSET SlotRow]
    PROVE  IInv'
<1>1. TypeOK'
  BY DEF IInv, TypeOK, tables
<1>2. SoundCalls'
  BY DEF IInv, TypeOK, SoundCalls, Sound, tables
<1> QED BY <1>1, <1>2 DEF IInv

\* The answers of the handlers are answers.
LEMMA AnswerTypes ==
    /\ \A code \in Codes : Failure(code) \in Answer
    /\ \A i \in Ids, n \in Nat : Ok(i, n) \in Answer /\ Ok(i, n).code = "ok"
BY DEF Failure, Ok, Answer, Codes

\* A call that has its answer is well-formed and sound.
LEMMA AnsweredSound ==
    ASSUME NEW c \in CallState, Sound(c), c.pc # "idle", NEW ans \in Answer
    PROVE  Answered(c, ans) \in CallState /\ Sound(Answered(c, ans))
BY NoneIsOutside DEF Answered, Sound, CallState, PCs

\* Starting a call, replayed or not, keeps the invariant.
LEMMA CallStep ==
    ASSUME IInv, NEW p \in Procs, NEW r \in Requests, NEW x \in 0 .. MaxRev, Call(p, r, x)
    PROVE  IInv'
<1> DEFINE hash == [req |-> r, exp |-> x]
           c == [Idle EXCEPT
                    !.pc = FirstStep(r), !.req = r, !.exp = x,
                    !.again = r.key # None /\ \E t \in told[Slot(r)] : t.hash = hash]
           d == IF Probes(r) /\ Classify(Slot(r), hash) # "fresh"
                THEN Answered(c, StoredAnswer(Slot(r), hash)) ELSE c
<1>1. c \in CallState
  BY DEF Idle, CallState, PCs, FirstStep
<1>2. Sound(c)
  <2>1. c.pc = "budget" => r.ids = {}
    BY RequestsAssumption DEF FirstStep
  <2> QED BY <2>1 DEF Sound, Idle, FirstStep
<1>3. ASSUME Probes(r), Classify(Slot(r), hash) # "fresh"
      PROVE  StoredAnswer(Slot(r), hash) \in Answer
  <2>1. Slot(r) \in Slots
    BY <1>3, RequestType DEF Probes, Slot, Slots, Request
  <2>2. slots[Slot(r)] # None => slots[Slot(r)].ans \in Answer
    BY <2>1 DEF IInv, TypeOK, SlotRow
  <2> QED BY <1>3, <2>2, AnswerTypes DEF StoredAnswer, Classify, Codes
<1>4. d \in CallState /\ Sound(d)
  BY <1>1, <1>2, <1>3, AnsweredSound DEF FirstStep, Idle
<1>5. call' = [call EXCEPT ![p] = d]
  BY DEF Call
<1> HIDE DEF d
<1> QED BY <1>4, <1>5, MoveCall DEF Call, tables, ghosts, IInv, TypeOK

\* Peeking a memory keeps the invariant: what is seen is a row that exists.
LEMMA PeekStep ==
    ASSUME IInv, NEW p \in Procs, Peek(p)
    PROVE  IInv'
<1> DEFINE c == call[p]
           left == {i \in c.req.ids : c.seen[i] = None}
           next == IF c.req.op = "forget_memory" THEN "commit" ELSE "budget"
           read(i) == [c EXCEPT !.seen[i] = entries[i], !.pc = IF left = {i} THEN next ELSE "peek"]
<1>1. c \in CallState /\ Sound(c) /\ c.pc = "peek" /\ c.req \in Requests
  BY DEF Peek, IInv, TypeOK, SoundCalls, Sound
<1>2. PICK i \in left :
        call' = [call EXCEPT ![p] =
            IF entries[i] = None THEN Answered(c, Failure("not_found"))
            ELSE IF c.req.op # "forget_memory" /\ entries[i].status \notin {"active", "archived"}
                 THEN Answered(c, Failure("invalid_state"))
                 ELSE read(i)]
  BY DEF Peek
<1>3. i \in Ids
  BY <1>1, RequestType
<1>4. /\ Answered(c, Failure("not_found")) \in CallState
      /\ Sound(Answered(c, Failure("not_found")))
      /\ Answered(c, Failure("invalid_state")) \in CallState
      /\ Sound(Answered(c, Failure("invalid_state")))
  BY <1>1, AnsweredSound, AnswerTypes DEF Codes
<1>5. ASSUME entries[i] # None PROVE read(i) \in CallState /\ Sound(read(i))
  <2>1. read(i).seen = [c.seen EXCEPT ![i] = entries[i]] /\ read(i).req = c.req
    BY <1>1 DEF CallState
  <2>2. read(i) \in CallState
    BY <1>1, <1>3 DEF CallState, PCs, IInv, TypeOK
  <2>3. read(i).pc \in {"budget", "commit"} => left = {i}
    BY <1>1 DEF CallState
  <2>4. left = {i} => \A j \in c.req.ids : read(i).seen[j] # None
    BY <1>1, <1>3, <1>5, <2>1, RequestType DEF CallState
  <2>5. \A j \in Ids : read(i).seen[j] # None => entries[j] # None
    BY <1>1, <1>3, <1>5, <2>1 DEF CallState, Sound
  <2>6. read(i).pc # "reply"
    BY <1>1 DEF CallState
  <2> QED BY <1>1, <2>1, <2>2, <2>3, <2>4, <2>5, <2>6 DEF Sound
<1> DEFINE d == IF entries[i] = None THEN Answered(c, Failure("not_found"))
                ELSE IF c.req.op # "forget_memory" /\ entries[i].status \notin {"active", "archived"}
                     THEN Answered(c, Failure("invalid_state"))
                     ELSE read(i)
<1>6. d \in CallState /\ Sound(d) /\ call' = [call EXCEPT ![p] = d]
  BY <1>2, <1>4, <1>5
<1> HIDE DEF d
<1> QED BY <1>6, MoveCall DEF Peek, tables, ghosts, IInv, TypeOK

\* Evaluating the budget keeps the invariant.
LEMMA BudgetStep ==
    ASSUME IInv, NEW p \in Procs, EvaluateBudget(p)
    PROVE  IInv'
<1> DEFINE c == call[p]
<1>1. c \in CallState /\ Sound(c) /\ c.pc = "budget"
  BY DEF EvaluateBudget, IInv, TypeOK, SoundCalls
<1>2. PICK d \in {Answered(c, Failure("capacity_exceeded")), [c EXCEPT !.pc = "commit"],
                  Answered(c, Failure("duplicate_candidate"))} : call' = [call EXCEPT ![p] = d]
  BY DEF EvaluateBudget
<1>3. /\ Answered(c, Failure("capacity_exceeded")) \in CallState
      /\ Sound(Answered(c, Failure("capacity_exceeded")))
      /\ Answered(c, Failure("duplicate_candidate")) \in CallState
      /\ Sound(Answered(c, Failure("duplicate_candidate")))
  BY <1>1, AnsweredSound, AnswerTypes DEF Codes
<1>4. [c EXCEPT !.pc = "commit"] \in CallState /\ Sound([c EXCEPT !.pc = "commit"])
  BY <1>1 DEF CallState, PCs, Sound
<1>5. d \in CallState /\ Sound(d)
  BY <1>2, <1>3, <1>4
<1> QED BY <1>2, <1>5, MoveCall DEF EvaluateBudget, tables, ghosts, IInv, TypeOK

\* A process that runs no call is well-formed and sound.
LEMMA IdleSound == Idle \in CallState /\ Sound(Idle)
BY BoundsAssumption DEF Idle, CallState, PCs, Sound

\* Answering the client keeps the invariant.
LEMMA ReplyStep ==
    ASSUME IInv, NEW p \in Procs, Reply(p)
    PROVE  IInv'
<1>1. /\ call[p] \in CallState /\ call[p].req \in Requests /\ call[p].ans # None
  BY DEF Reply, IInv, TypeOK, SoundCalls, Sound
<1>2. [hash |-> HashOf(call[p]), ans |-> call[p].ans] \in SlotRow
  BY <1>1 DEF HashOf, Hash, SlotRow, CallState
<1>3. told' \in [Slots -> SUBSET SlotRow]
  BY <1>2 DEF Reply, IInv, TypeOK
<1> QED BY <1>3, IdleSound, MoveCall DEF Reply, tables

\* A death before, between or after the statements keeps the invariant.
LEMMA CrashStep ==
    ASSUME IInv, NEW p \in Procs, Crash(p)
    PROVE  IInv'
BY IdleSound, MoveCall DEF Crash, tables, ghosts, IInv, TypeOK

\* Replaying inside the transaction keeps the invariant.
LEMMA ReplayStep ==
    ASSUME IInv, NEW p \in Procs, CommitReplay(p)
    PROVE  IInv'
<1> DEFINE c == call[p]
           ans == StoredAnswer(Slot(c.req), HashOf(c))
<1>1. c \in CallState /\ Sound(c) /\ c.pc = "commit" /\ c.req \in Requests /\ c.req.key # None
  BY DEF CommitReplay, IInv, TypeOK, SoundCalls, Sound
<1>2. ans \in Answer
  <2>1. Slot(c.req) \in Slots
    BY <1>1, RequestType DEF Slot, Slots, Request
  <2>2. slots[Slot(c.req)] # None => slots[Slot(c.req)].ans \in Answer
    BY <2>1 DEF IInv, TypeOK, SlotRow
  <2> QED BY <2>2, AnswerTypes DEF CommitReplay, StoredAnswer, Classify, Codes
<1>3. Answered(c, ans) \in CallState /\ Sound(Answered(c, ans))
  BY <1>1, <1>2, AnsweredSound
<1> QED BY <1>3, MoveCall DEF CommitReplay, tables, ghosts, IInv, TypeOK

\* At its transaction a call has peeked every memory it names, and they are
\* all still there.
LEMMA CommitFacts ==
    ASSUME IInv, NEW p \in Procs, Fresh(p)
    PROVE  /\ call[p] \in CallState /\ Sound(call[p]) /\ call[p].pc = "commit"
           /\ call[p].req \in Requests /\ call[p].req.ids \subseteq Ids
           /\ \A i \in call[p].req.ids : call[p].seen[i] # None /\ entries[i] \in Entry
<1>1. call[p] \in CallState /\ Sound(call[p]) /\ call[p].pc = "commit"
  BY DEF Fresh, IInv, TypeOK, SoundCalls
<1>2. call[p].req \in Requests /\ call[p].req.ids \subseteq Ids
  BY <1>1, RequestType DEF Sound
<1> QED BY <1>1, <1>2 DEF Sound, IInv, TypeOK

\* A transaction writes rows and snapshots, and never deletes a row.
LEMMA WriteType ==
    ASSUME TypeOK, NEW I \in SUBSET Ids, NEW rows, NEW snapshots, Write(I, rows, snapshots),
           \A i \in I : rows[i] \in Entry /\ snapshots[i] \in Entry
    PROVE  /\ entries' \in [Ids -> Entry \cup {None}] /\ history' \in [Ids -> SUBSET Entry]
           /\ \A i \in Ids : entries[i] # None => entries'[i] # None
BY NoneIsOutside DEF Write, TypeOK

\* Adding one to a counter keeps a table of counters.
LEMMA CountUp ==
    ASSUME NEW S, NEW f \in [S -> Nat], NEW x
    PROVE  [f EXCEPT ![x] = @ + 1] \in [S -> Nat]
<1>1. CASE x \in S
  BY <1>1
<1>2. CASE x \notin S
  BY <1>2
<1> QED BY <1>1, <1>2

\* Completing the key and returning keeps the invariant once the rows do.
LEMMA FinishInv ==
    ASSUME IInv, NEW p \in Procs, Fresh(p), NEW ans \in Answer, Finish(p, ans),
           entries' \in [Ids -> Entry \cup {None}], history' \in [Ids -> SUBSET Entry],
           \A i \in Ids : entries[i] # None => entries'[i] # None
    PROVE  IInv'
<1> DEFINE c == call[p]
<1>1. c \in CallState /\ Sound(c) /\ c.pc = "commit" /\ c.req \in Requests
  BY CommitFacts
<1>2. [hash |-> HashOf(c), ans |-> ans] \in SlotRow
  BY <1>1 DEF HashOf, Hash, SlotRow, CallState
<1>3. Answered(c, ans) \in CallState /\ Sound(Answered(c, ans))
  BY <1>1, AnsweredSound
<1>4. slots' \in [Slots -> SlotRow \cup {None}]
  BY <1>2 DEF Finish, IInv, TypeOK
<1>5. call' = [call EXCEPT ![p] = Answered(c, ans)] /\ told' = told
  BY DEF Finish
<1>6. effects' \in [Slots -> Nat] /\ casWins' \in [Ids \X (1 .. MaxRev) -> Nat]
  <2>1. effects \in [Slots -> Nat] /\ casWins \in [Ids \X (1 .. MaxRev) -> Nat]
    BY DEF IInv, TypeOK
  <2>2. effects' = effects \/ effects' = [effects EXCEPT ![Slot(c.req)] = @ + 1]
    BY DEF Finish
  <2>3. casWins' = casWins \/ casWins' = [casWins EXCEPT ![<<Target(c.req), c.exp>>] = @ + 1]
    BY DEF Finish
  <2>4. effects' \in [Slots -> Nat]
    BY <2>1, <2>2, CountUp
  <2>5. casWins' \in [Ids \X (1 .. MaxRev) -> Nat]
    <3> DEFINE W == Ids \X (1 .. MaxRev)
               w == <<Target(c.req), c.exp>>
    <3>1. casWins \in [W -> Nat] /\ (casWins' = casWins \/ casWins' = [casWins EXCEPT ![w] = @ + 1])
      BY <2>1, <2>3
    <3> HIDE DEF W, w
    <3>2. casWins' \in [W -> Nat]
      BY <3>1, CountUp
    <3> QED BY <3>2 DEF W
  <2> QED BY <2>4, <2>5
<1>7. TypeOK'
  BY <1>3, <1>4, <1>5, <1>6 DEF IInv, TypeOK
<1>8. SoundCalls'
  BY <1>3, <1>5 DEF IInv, TypeOK, SoundCalls, Sound
<1> QED BY <1>7, <1>8 DEF IInv

\* The transaction of remember keeps the invariant.
LEMMA RememberStep ==
    ASSUME IInv, NEW p \in Procs, CommitRemember(p)
    PROVE  IInv'
<1> DEFINE c == call[p]
<1>1. Fresh(p) /\ c.req.op = "remember"
  BY DEF CommitRemember
<1>2. PICK n \in Ids :
        /\ Write({n}, [i \in {n} |-> Replacement(c)], [i \in {n} |-> Replacement(c)])
        /\ Finish(p, Ok(n, 0))
  BY DEF CommitRemember
<1>3. Replacement(c) \in Entry
  BY <1>1, CommitFacts, ReplacementType DEF Creators
<1>4. /\ entries' \in [Ids -> Entry \cup {None}] /\ history' \in [Ids -> SUBSET Entry]
      /\ \A i \in Ids : entries[i] # None => entries'[i] # None
  BY <1>2, <1>3, WriteType DEF IInv
<1> QED BY <1>1, <1>2, <1>4, AnswerTypes, FinishInv

\* the patch an update commits
LEMMA CommitPatch ==
    ASSUME IInv, NEW p \in Procs, Fresh(p), call[p].req.op = "update_memory"
    PROVE  /\ UpdatePatch(call[p]) \in Patch
           /\ Target(call[p].req) \in Ids /\ call[p].req.ids = {Target(call[p].req)}
<1>1. Target(call[p].req) \in Ids /\ call[p].req.ids = {Target(call[p].req)}
  BY CommitFacts, RequestType
<1> QED BY <1>1, CommitFacts, UpdatePatchType

\* The transaction of an update without expected_revision keeps the invariant.
LEMMA UpdateStep ==
    ASSUME IInv, NEW p \in Procs, CommitUpdate(p)
    PROVE  IInv'
<1> DEFINE c == call[p]
           new == [i \in c.req.ids |-> UpdatedRow(entries[i], UpdatePatch(c))]
<1>1. Fresh(p) /\ c.req.op = "update_memory" /\ Write(c.req.ids, new, new) /\ Finish(p, Ok(Target(c.req), 0))
  BY DEF CommitUpdate
<1>2. \A i \in c.req.ids : new[i] \in Entry
  BY <1>1, CommitFacts, CommitPatch, PatchedType
<1>3. /\ entries' \in [Ids -> Entry \cup {None}] /\ history' \in [Ids -> SUBSET Entry]
      /\ \A i \in Ids : entries[i] # None => entries'[i] # None
  BY <1>1, <1>2, CommitFacts, WriteType DEF IInv
<1>4. Ok(Target(c.req), 0) \in Answer
  BY <1>1, CommitPatch, AnswerTypes
<1> QED BY <1>1, <1>3, <1>4, FinishInv

\* A refused compare-and-set keeps the invariant.
LEMMA CasMissStep ==
    ASSUME IInv, NEW p \in Procs, CommitCasMiss(p)
    PROVE  IInv'
<1>1. Failure(IF call[p].req.op = "forget_memory" THEN "not_found" ELSE "stale_revision") \in Answer
  BY AnswerTypes DEF Codes
<1> QED BY <1>1, FinishInv DEF CommitCasMiss, IInv, TypeOK

\* The transaction of an update with expected_revision keeps the invariant.
LEMMA CasUpdateStep ==
    ASSUME IInv, NEW p \in Procs, CommitCasUpdate(p)
    PROVE  IInv'
<1> DEFINE c == call[p]
           new == [i \in c.req.ids |-> CasUpdatedRow(entries[i], UpdatePatch(c))]
           snap == [i \in c.req.ids |-> Patched(entries[i], UpdatePatch(c))]
<1>1. Fresh(p) /\ c.req.op = "update_memory" /\ Write(c.req.ids, new, snap) /\ Finish(p, Ok(Target(c.req), 0))
  BY DEF CommitCasUpdate
<1>2. \A i \in c.req.ids : new[i] \in Entry /\ snap[i] \in Entry
  BY <1>1, CommitFacts, CommitPatch, PatchedType
<1>3. /\ entries' \in [Ids -> Entry \cup {None}] /\ history' \in [Ids -> SUBSET Entry]
      /\ \A i \in Ids : entries[i] # None => entries'[i] # None
  BY <1>1, <1>2, CommitFacts, WriteType DEF IInv
<1>4. Ok(Target(c.req), 0) \in Answer
  BY <1>1, CommitPatch, AnswerTypes
<1> QED BY <1>1, <1>3, <1>4, FinishInv

\* The transaction of forget_memory keeps the invariant.
LEMMA ForgetStep ==
    ASSUME IInv, NEW p \in Procs, CommitForget(p)
    PROVE  IInv'
<1> DEFINE c == call[p]
           t == Target(c.req)
           ans == Ok(t, IF c.seen[t].status = "active" THEN c.seen[t].chars ELSE 0)
           new == [i \in c.req.ids |-> UpdatedRow(entries[i], Forgetting)]
<1>1. Fresh(p) /\ c.req.op = "forget_memory" /\ Write(c.req.ids, new, new) /\ Finish(p, ans)
  BY DEF CommitForget
<1>2. \A i \in c.req.ids : new[i] \in Entry
  BY <1>1, CommitFacts, ForgettingType, PatchedType
<1>3. /\ entries' \in [Ids -> Entry \cup {None}] /\ history' \in [Ids -> SUBSET Entry]
      /\ \A i \in Ids : entries[i] # None => entries'[i] # None
  BY <1>1, <1>2, CommitFacts, WriteType DEF IInv
<1>4. t \in Ids /\ t \in c.req.ids
  BY <1>1, CommitFacts, RequestType
<1>5. c.seen[t] \in Entry
  BY <1>1, <1>4, CommitFacts DEF CallState
<1>6. ans \in Answer
  BY <1>4, <1>5, AnswerTypes DEF Entry
<1> QED BY <1>1, <1>3, <1>6, FinishInv

\* The transaction of supersede_memory and merge_memories keeps the invariant.
LEMMA SupersedeStep ==
    ASSUME IInv, NEW p \in Procs, CommitSupersede(p)
    PROVE  IInv'
<1> DEFINE c == call[p]
           new(n) == [i \in c.req.ids \cup {n} |->
                        IF i = n THEN Replacement(c) ELSE UpdatedRow(entries[i], Superseding(n))]
<1>1. Fresh(p) /\ c.req.op \in {"supersede_memory", "merge_memories"}
  BY DEF CommitSupersede
<1>2. PICK n \in Ids : Write(c.req.ids \cup {n}, new(n), new(n)) /\ Finish(p, Ok(n, 0))
  BY DEF CommitSupersede
<1>3. Replacement(c) \in Entry
  BY <1>1, CommitFacts, ReplacementType DEF Creators
<1>4. \A i \in c.req.ids \cup {n} : new(n)[i] \in Entry
  BY <1>1, <1>3, CommitFacts, SupersedingType, PatchedType
<1>5. /\ entries' \in [Ids -> Entry \cup {None}] /\ history' \in [Ids -> SUBSET Entry]
      /\ \A i \in Ids : entries[i] # None => entries'[i] # None
  <2>1. c.req.ids \cup {n} \in SUBSET Ids
    BY <1>1, CommitFacts
  <2>2. Write(c.req.ids \cup {n}, new(n), new(n))
    BY <1>2
  <2> HIDE DEF new, c
  <2> QED BY <1>4, <2>1, <2>2, WriteType DEF IInv
<1> QED BY <1>1, <1>2, <1>5, AnswerTypes, FinishInv

\* Every step of every process keeps the invariant.
LEMMA NextInv == IInv /\ [Next]_vars => IInv'
<1> SUFFICES ASSUME IInv, [Next]_vars PROVE IInv'
  OBVIOUS
<1>1. CASE UNCHANGED vars
  BY <1>1 DEF vars, IInv, TypeOK, SoundCalls, Sound
<1>2. CASE Next
  <2>1. PICK p \in Procs :
          \/ \E r \in Requests, x \in 0 .. MaxRev : Call(p, r, x)
          \/ Peek(p) \/ EvaluateBudget(p) \/ Commit(p) \/ Reply(p) \/ Crash(p)
    BY <1>2 DEF Next
  <2>2. CASE \E r \in Requests, x \in 0 .. MaxRev : Call(p, r, x)
    BY <2>2, CallStep
  <2>3. CASE Peek(p)
    BY <2>3, PeekStep
  <2>4. CASE EvaluateBudget(p)
    BY <2>4, BudgetStep
  <2>5. CASE Commit(p)
    BY <2>5, RememberStep, UpdateStep, CasMissStep, CasUpdateStep, ForgetStep, SupersedeStep,
       ReplayStep DEF Commit
  <2>6. CASE Reply(p)
    BY <2>6, ReplyStep
  <2>7. CASE Crash(p)
    BY <2>7, CrashStep
  <2> QED BY <2>1, <2>2, <2>3, <2>4, <2>5, <2>6, <2>7
<1> QED BY <1>1, <1>2

\* The inductive invariant: at its transaction a call has seen every memory it
\* names, and no writer has deleted one in the meantime.
THEOREM InvTheorem == Spec => []IInv
<1> QED BY InitInv, NextInv, PTL DEF Spec

\* Every variable keeps its shape; in particular a transaction only ever
\* updates rows that exist.
THEOREM TypeCorrect == Spec => []TypeOK
<1>1. IInv => TypeOK
  BY DEF IInv
<1> QED BY <1>1, InvTheorem, PTL

--------------------------------------------------------------------------------
(* What every committed transaction does to the tables *)

Advances(I, rows, snapshots) ==
    \A i \in I :
        /\ rows[i] \in Entry /\ snapshots[i] \in Entry /\ snapshots[i].rev = rows[i].rev
        /\ rows[i].rev = IF entries[i] = None THEN 1 ELSE entries[i].rev + 1
        /\ SameButTier(rows[i], snapshots[i])

\* A transaction settles its call with an answer and advances a set of
\* memories, the empty set when it refuses.
Transaction(p) ==
    \E ans \in Answer :
        /\ Fresh(p) /\ Finish(p, ans)
        /\ \E I \in SUBSET Ids : \E rows, snapshots :
            Write(I, rows, snapshots) /\ Advances(I, rows, snapshots)

\* A row says the same as itself.
LEMMA SameRow == ASSUME NEW e \in Entry PROVE SameButTier(e, e)
BY DEF SameButTier, Entry

\* The row stored by a compare-and-set and its snapshot differ in tier only.
LEMMA SameCasRow ==
    ASSUME NEW e \in Entry, NEW q \in Patch
    PROVE  SameButTier(CasUpdatedRow(e, q), Patched(e, q))
BY PatchedType DEF SameButTier, CasUpdatedRow, Entry, Patched

\* Every commit that writes is a transaction: for each row it touches, the next
\* revision and a snapshot with that revision.
LEMMA CommitIsTransaction ==
    ASSUME IInv, NEW p \in Procs, Commit(p), ~CommitReplay(p)
    PROVE  Transaction(p)
<1> DEFINE c == call[p]
<1>1. CASE CommitRemember(p)
  <2>1. Fresh(p) /\ c.req.op = "remember"
    BY <1>1 DEF CommitRemember
  <2>2. PICK n \in Ids :
          /\ entries[n] = None
          /\ Write({n}, [i \in {n} |-> Replacement(c)], [i \in {n} |-> Replacement(c)])
          /\ Finish(p, Ok(n, 0))
    BY <1>1 DEF CommitRemember
  <2>3. Replacement(c) \in Entry /\ Replacement(c).rev = 1 /\ SameButTier(Replacement(c), Replacement(c))
    BY <2>1, CommitFacts, ReplacementType, SameRow DEF Creators
  <2>4. Advances({n}, [i \in {n} |-> Replacement(c)], [i \in {n} |-> Replacement(c)])
    BY <2>2, <2>3 DEF Advances
  <2> QED BY <2>1, <2>2, <2>4, AnswerTypes DEF Transaction
<1>2. CASE CommitUpdate(p)
  <2> DEFINE new == [i \in c.req.ids |-> UpdatedRow(entries[i], UpdatePatch(c))]
  <2>1. Fresh(p) /\ c.req.op = "update_memory" /\ Write(c.req.ids, new, new) /\ Finish(p, Ok(Target(c.req), 0))
    BY <1>2 DEF CommitUpdate
  <2>2. c.req.ids \in SUBSET Ids /\ Ok(Target(c.req), 0) \in Answer
    BY <2>1, CommitFacts, CommitPatch, AnswerTypes
  <2>3. \A i \in c.req.ids : entries[i] \in Entry /\ new[i] \in Entry /\ new[i].rev = entries[i].rev + 1
    BY <2>1, CommitFacts, CommitPatch, PatchedType
  <2>4. Advances(c.req.ids, new, new)
    BY <2>3, SameRow, NoneIsOutside DEF Advances
  <2> HIDE DEF new
  <2> QED BY <2>1, <2>2, <2>4 DEF Transaction
<1>3. CASE CommitCasMiss(p)
  <2>1. PICK ans \in Answer : Fresh(p) /\ Finish(p, ans) /\ UNCHANGED <<entries, history>>
    BY <1>3, AnswerTypes DEF CommitCasMiss, Codes
  <2>2. Write({}, entries, entries) /\ Advances({}, entries, entries)
    BY <2>1 DEF Write, Advances, IInv, TypeOK
  <2> QED BY <2>1, <2>2 DEF Transaction
<1>4. CASE CommitCasUpdate(p)
  <2> DEFINE new == [i \in c.req.ids |-> CasUpdatedRow(entries[i], UpdatePatch(c))]
             snap == [i \in c.req.ids |-> Patched(entries[i], UpdatePatch(c))]
  <2>1. Fresh(p) /\ c.req.op = "update_memory" /\ Write(c.req.ids, new, snap) /\ Finish(p, Ok(Target(c.req), 0))
    BY <1>4 DEF CommitCasUpdate
  <2>2. c.req.ids \in SUBSET Ids /\ Ok(Target(c.req), 0) \in Answer
    BY <2>1, CommitFacts, CommitPatch, AnswerTypes
  <2>3. \A i \in c.req.ids :
          /\ entries[i] \in Entry /\ new[i] \in Entry /\ new[i].rev = entries[i].rev + 1
          /\ snap[i] \in Entry /\ snap[i].rev = entries[i].rev + 1 /\ SameButTier(new[i], snap[i])
    BY <2>1, CommitFacts, CommitPatch, PatchedType, SameCasRow
  <2>4. Advances(c.req.ids, new, snap)
    BY <2>3, NoneIsOutside DEF Advances
  <2> HIDE DEF new, snap
  <2> QED BY <2>1, <2>2, <2>4 DEF Transaction
<1>5. CASE CommitForget(p)
  <2> DEFINE t == Target(c.req)
             ans == Ok(t, IF c.seen[t].status = "active" THEN c.seen[t].chars ELSE 0)
             new == [i \in c.req.ids |-> UpdatedRow(entries[i], Forgetting)]
  <2>1. Fresh(p) /\ c.req.op = "forget_memory" /\ Write(c.req.ids, new, new) /\ Finish(p, ans)
    BY <1>5 DEF CommitForget
  <2>2. t \in Ids /\ c.seen[t] \in Entry
    BY <2>1, CommitFacts, RequestType DEF CallState
  <2>3. c.req.ids \in SUBSET Ids /\ ans \in Answer
    BY <2>1, <2>2, CommitFacts, AnswerTypes DEF Entry
  <2>4. \A i \in c.req.ids : entries[i] \in Entry /\ new[i] \in Entry /\ new[i].rev = entries[i].rev + 1
    BY <2>1, CommitFacts, ForgettingType, PatchedType
  <2>5. Advances(c.req.ids, new, new)
    BY <2>4, SameRow, NoneIsOutside DEF Advances
  <2> HIDE DEF new, ans
  <2> QED BY <2>1, <2>3, <2>5 DEF Transaction
<1>6. CASE CommitSupersede(p)
  <2> DEFINE new(n) == [i \in c.req.ids \cup {n} |->
                          IF i = n THEN Replacement(c) ELSE UpdatedRow(entries[i], Superseding(n))]
  <2>1. Fresh(p) /\ c.req.op \in {"supersede_memory", "merge_memories"}
    BY <1>6 DEF CommitSupersede
  <2>2. PICK n \in Ids :
          entries[n] = None /\ Write(c.req.ids \cup {n}, new(n), new(n)) /\ Finish(p, Ok(n, 0))
    BY <1>6 DEF CommitSupersede
  <2>3. Replacement(c) \in Entry /\ Replacement(c).rev = 1
    BY <2>1, CommitFacts, ReplacementType DEF Creators
  <2>4. \A i \in c.req.ids \cup {n} :
          /\ new(n)[i] \in Entry
          /\ i = n => new(n)[i].rev = 1
          /\ i # n => entries[i] \in Entry /\ new(n)[i].rev = entries[i].rev + 1
    BY <2>1, <2>3, CommitFacts, SupersedingType, PatchedType
  <2>5. Advances(c.req.ids \cup {n}, new(n), new(n))
    BY <2>2, <2>4, SameRow, NoneIsOutside DEF Advances
  <2>6. c.req.ids \cup {n} \in SUBSET Ids /\ Ok(n, 0) \in Answer
    BY <2>1, CommitFacts, AnswerTypes
  <2> HIDE DEF new
  <2> QED BY <2>1, <2>2, <2>5, <2>6 DEF Transaction
<1> QED BY <1>1, <1>2, <1>3, <1>4, <1>5, <1>6 DEF Commit

\* Any other step leaves the tables as they are.
LEMMA TransactionOrQuiet ==
    ASSUME IInv, [Next]_vars
    PROVE  UNCHANGED tables \/ \E p \in Procs : Transaction(p)
<1>1. CASE UNCHANGED vars
  BY <1>1 DEF vars, tables
<1>2. CASE Next
  <2>1. PICK p \in Procs :
          \/ \E r \in Requests, x \in 0 .. MaxRev : Call(p, r, x)
          \/ Peek(p) \/ EvaluateBudget(p) \/ Commit(p) \/ Reply(p) \/ Crash(p)
    BY <1>2 DEF Next
  <2>2. CASE Commit(p) /\ ~CommitReplay(p)
    BY <2>2, CommitIsTransaction
  <2>3. CASE ~(Commit(p) /\ ~CommitReplay(p))
    BY <2>1, <2>3 DEF Call, Peek, EvaluateBudget, CommitReplay, Reply, Crash, tables
  <2> QED BY <2>2, <2>3
<1> QED BY <1>1, <1>2

--------------------------------------------------------------------------------
(* The audit chain *)

\* Recording the next revision of a memory extends its chain by one.
LEMMA ExtendChain ==
    ASSUME NEW H \in SUBSET Entry, NEW n \in Nat, {h.rev : h \in H} = 1 .. n,
           \A g, h \in H : g.rev = h.rev => g = h,
           NEW s \in Entry, s.rev = n + 1
    PROVE  /\ {h.rev : h \in H \cup {s}} = 1 .. (n + 1)
           /\ \A g, h \in H \cup {s} : g.rev = h.rev => g = h
<1>1. \A h \in H : h.rev \in 1 .. n
  OBVIOUS
<1>2. {h.rev : h \in H \cup {s}} = (1 .. n) \cup {n + 1}
  OBVIOUS
<1>3. (1 .. n) \cup {n + 1} = 1 .. (n + 1)
  OBVIOUS
<1>4. \A h \in H : h.rev # s.rev
  BY <1>1
<1>5. \A g, h \in H \cup {s} : g.rev = h.rev => g = h
  BY <1>4
<1> QED BY <1>2, <1>3, <1>5

\* The chain of one memory, whose row is e and whose snapshots are H.
Chained(e, H) ==
    IF e = None THEN H = {}
    ELSE /\ {h.rev : h \in H} = 1 .. e.rev
         /\ \A g, h \in H : g.rev = h.rev => g = h

\* A chain that records the next revision of its row stays a chain.
LEMMA ChainGrows ==
    ASSUME NEW e \in Entry \cup {None}, NEW H \in SUBSET Entry, Chained(e, H),
           NEW f \in Entry, NEW s \in Entry, s.rev = f.rev,
           f.rev = IF e = None THEN 1 ELSE e.rev + 1
    PROVE  Chained(f, H \cup {s})
<1> DEFINE n == IF e = None THEN 0 ELSE e.rev
<1>1. n \in Nat /\ f.rev = n + 1
  BY DEF Entry
<1>2. {h.rev : h \in H} = 1 .. n /\ \A g, h \in H : g.rev = h.rev => g = h
  <2>1. CASE e = None
    <3>1. H = {} /\ 1 .. n = {}
      BY <2>1 DEF Chained
    <3> QED BY <3>1
  <2>2. CASE e # None
    BY <2>2 DEF Chained
  <2> QED BY <2>1, <2>2
<1> HIDE DEF n
<1>3. /\ {h.rev : h \in H \cup {s}} = 1 .. (n + 1)
      /\ \A g, h \in H \cup {s} : g.rev = h.rev => g = h
  BY <1>1, <1>2, ExtendChain
<1> QED BY <1>1, <1>3, NoneIsOutside DEF Chained

\* Every seeded memory has its first revision on record.
LEMMA ChainInit == Init => RevisionChain
<1> SUFFICES ASSUME Init, NEW i \in Ids PROVE Chained(entries[i], history[i])
  BY DEF RevisionChain, Chained
<1>1. SeedEntry # None /\ SeedEntry.rev = 1
  <2>1. SeedEntry \in Entry
    BY NoneIsOutside, BoundsAssumption DEF SeedEntry, NewEntry, Entry, Size, Statuses
  <2> QED BY <2>1, NoneIsOutside DEF SeedEntry, NewEntry
<1>2. {h.rev : h \in {SeedEntry}} = 1 .. 1
  BY <1>1
<1>3. CASE i \in Seed
  BY <1>1, <1>2, <1>3 DEF Init, Chained
<1>4. CASE i \notin Seed
  BY <1>4 DEF Init, Chained
<1> QED BY <1>3, <1>4

\* No step breaks the chain of a memory.
LEMMA ChainStep == IInv /\ RevisionChain /\ [Next]_vars => RevisionChain'
<1> SUFFICES ASSUME IInv, RevisionChain, [Next]_vars, NEW i \in Ids
             PROVE  Chained(entries[i], history[i])'
  BY DEF RevisionChain, Chained
<1>1. Chained(entries[i], history[i])
  BY DEF RevisionChain, Chained
<1>2. CASE UNCHANGED tables
  BY <1>1, <1>2 DEF tables, Chained
<1>3. ASSUME NEW p \in Procs, Transaction(p)
      PROVE  Chained(entries[i], history[i])'
  <2>1. PICK I \in SUBSET Ids : \E rows, snapshots :
          Write(I, rows, snapshots) /\ Advances(I, rows, snapshots)
    BY <1>3 DEF Transaction
  <2>2. PICK rows, snapshots : Write(I, rows, snapshots) /\ Advances(I, rows, snapshots)
    BY <2>1
  <2>3. entries[i] \in Entry \cup {None} /\ history[i] \in SUBSET Entry
    BY DEF IInv, TypeOK
  <2>4. CASE i \in I
    <3>1. /\ rows[i] \in Entry /\ snapshots[i] \in Entry /\ snapshots[i].rev = rows[i].rev
          /\ rows[i].rev = IF entries[i] = None THEN 1 ELSE entries[i].rev + 1
      BY <2>2, <2>4 DEF Advances
    <3>2. Chained(rows[i], history[i] \cup {snapshots[i]})
      BY <1>1, <2>3, <3>1, ChainGrows
    <3>3. entries'[i] = rows[i] /\ history'[i] = history[i] \cup {snapshots[i]}
      BY <2>2, <2>4 DEF Write
    <3> QED BY <3>2, <3>3 DEF Chained
  <2>5. CASE i \notin I
    <3>1. entries'[i] = entries[i] /\ history'[i] = history[i]
      BY <2>2, <2>5 DEF Write
    <3> QED BY <1>1, <3>1 DEF Chained
  <2> QED BY <2>4, <2>5
<1> QED BY <1>2, <1>3, TransactionOrQuiet

\* The revisions on record for a memory are exactly 1 .. its revision, each
\* recorded once, in every instance of the write service.
THEOREM ChainIsComplete == Spec => []RevisionChain
<1> QED BY InvTheorem, ChainInit, ChainStep, PTL DEF Spec

--------------------------------------------------------------------------------
(* The latest snapshot *)

\* The snapshot of a seeded memory is its row.
LEMMA SnapshotInit == Init => LatestSnapshot
<1> SUFFICES ASSUME Init, NEW i \in Ids, NEW h \in history[i] PROVE SameButTier(entries[i], h)
  BY DEF LatestSnapshot
<1>1. SeedEntry \in Entry
  BY NoneIsOutside, BoundsAssumption DEF SeedEntry, NewEntry, Entry, Size, Statuses
<1>2. i \in Seed /\ h = SeedEntry /\ entries[i] = SeedEntry
  BY DEF Init
<1> QED BY <1>1, <1>2, SameRow

\* No step separates a row from its latest snapshot.
LEMMA SnapshotStep ==
    IInv /\ RevisionChain /\ LatestSnapshot /\ [Next]_vars => LatestSnapshot'
<1> SUFFICES ASSUME IInv, RevisionChain, LatestSnapshot, [Next]_vars, NEW i \in Ids,
                    NEW h \in history'[i], h.rev = entries'[i].rev
             PROVE  SameButTier(entries'[i], h)
  BY DEF LatestSnapshot, SameButTier
<1>1. CASE UNCHANGED tables
  BY <1>1 DEF tables, LatestSnapshot
<1>2. ASSUME NEW p \in Procs, Transaction(p)
      PROVE  SameButTier(entries'[i], h)
  <2>1. PICK I \in SUBSET Ids : \E rows, snapshots :
          Write(I, rows, snapshots) /\ Advances(I, rows, snapshots)
    BY <1>2 DEF Transaction
  <2>2. PICK rows, snapshots : Write(I, rows, snapshots) /\ Advances(I, rows, snapshots)
    BY <2>1
  <2>3. entries[i] \in Entry \cup {None} /\ history[i] \in SUBSET Entry
    BY DEF IInv, TypeOK
  <2>4. CASE i \in I
    <3>1. /\ SameButTier(rows[i], snapshots[i])
          /\ rows[i].rev = IF entries[i] = None THEN 1 ELSE entries[i].rev + 1
      BY <2>2, <2>4 DEF Advances
    <3>2. entries'[i] = rows[i] /\ history'[i] = history[i] \cup {snapshots[i]}
      BY <2>2, <2>4 DEF Write
    <3>3. \A g \in history[i] : g.rev # rows[i].rev
      <4>1. CASE entries[i] = None
        BY <4>1 DEF RevisionChain
      <4>2. CASE entries[i] # None
        <5>1. entries[i].rev \in Nat /\ {g.rev : g \in history[i]} = 1 .. entries[i].rev
          BY <2>3, <4>2 DEF RevisionChain, Entry
        <5>2. \A g \in history[i] : g.rev \in 1 .. entries[i].rev
          BY <5>1
        <5> QED BY <3>1, <4>2, <5>1, <5>2
      <4> QED BY <4>1, <4>2
    <3>4. h = snapshots[i]
      BY <3>2, <3>3
    <3> QED BY <3>1, <3>2, <3>4
  <2>5. CASE i \notin I
    <3>1. entries'[i] = entries[i] /\ history'[i] = history[i]
      BY <2>2, <2>5 DEF Write
    <3> QED BY <3>1 DEF LatestSnapshot
  <2> QED BY <2>4, <2>5
<1> QED BY <1>1, <1>2, TransactionOrQuiet

\* The snapshot recorded last for a memory is the memory as stored, the tier
\* column aside, in every instance of the write service.
THEOREM SnapshotIsLatest == Spec => []LatestSnapshot
<1> QED BY InvTheorem, ChainIsComplete, SnapshotInit, SnapshotStep, PTL DEF Spec

--------------------------------------------------------------------------------
(* Idempotency *)

\* ExactlyOnce is not inductive: what a client is told comes from its call.  A
\* call about to answer ok under a key holds what the slot of the key holds.
AnswersMatchSlots ==
    \A p \in Procs :
        call[p].pc = "reply" /\ call[p].req.key # None /\ call[p].ans.code = "ok" =>
            slots[Slot(call[p].req)] = [hash |-> HashOf(call[p]), ans |-> call[p].ans]

Once == ExactlyOnce /\ AnswersMatchSlots

\* No key has taken effect yet.
LEMMA OnceInit == Init => Once
BY DEF Init, Once, ExactlyOnce, AnswersMatchSlots, Idle

\* A keyed call has a slot.
LEMMA SlotInSlots == ASSUME NEW r \in Requests, r.key # None PROVE Slot(r) \in Slots
BY RequestType DEF Slot, Slots, Request

\* A step that leaves slots and the history variables alone and moves one call
\* to a state that is not a reply, a failure, or what the slot holds.
LEMMA MoveOnce ==
    ASSUME IInv, Once, NEW p \in Procs, NEW c, call' = [call EXCEPT ![p] = c],
           UNCHANGED <<slots, effects, told>>,
           c.pc = "reply" /\ c.req.key # None /\ c.ans.code = "ok" =>
               slots[Slot(c.req)] = [hash |-> HashOf(c), ans |-> c.ans]
    PROVE  Once'
<1>1. ExactlyOnce'
  BY DEF Once, ExactlyOnce
<1>2. AnswersMatchSlots'
  <2> SUFFICES ASSUME NEW q \in Procs, call'[q].pc = "reply", call'[q].req.key # None,
                      call'[q].ans.code = "ok"
               PROVE  slots[Slot(call'[q].req)] = [hash |-> HashOf(call'[q]), ans |-> call'[q].ans]
    BY DEF AnswersMatchSlots, Slot, HashOf
  <2>1. CASE q = p
    <3>1. call'[q] = c
      BY <2>1 DEF IInv, TypeOK
    <3> QED BY <3>1
  <2>2. CASE q # p
    <3>1. call'[q] = call[q]
      BY <2>2 DEF IInv, TypeOK
    <3> QED BY <3>1 DEF Once, AnswersMatchSlots
  <2> QED BY <2>1, <2>2
<1> QED BY <1>1, <1>2 DEF Once

\* What a replay answers ok is what the slot holds.
LEMMA StoredMatches ==
    ASSUME IInv, NEW r \in Requests, r.key # None, NEW hash, StoredAnswer(Slot(r), hash).code = "ok",
           Classify(Slot(r), hash) # "fresh"
    PROVE  slots[Slot(r)] = [hash |-> hash, ans |-> StoredAnswer(Slot(r), hash)]
<1>1. slots[Slot(r)] \in SlotRow \cup {None}
  BY SlotInSlots DEF IInv, TypeOK
<1>2. Classify(Slot(r), hash) = "replay"
  BY DEF StoredAnswer, Failure
<1>3. slots[Slot(r)] \in SlotRow /\ slots[Slot(r)].hash = hash
  BY <1>1, <1>2 DEF Classify
<1>4. StoredAnswer(Slot(r), hash) = slots[Slot(r)].ans
  BY <1>2 DEF StoredAnswer
<1> QED BY <1>3, <1>4 DEF SlotRow

\* Completing a free slot gives its key its one effect.
LEMMA FinishOnce ==
    ASSUME IInv, Once, NEW p \in Procs, Fresh(p), NEW ans \in Answer, Finish(p, ans)
    PROVE  Once'
<1> DEFINE c == call[p]
           row == [hash |-> HashOf(c), ans |-> ans]
<1>1. c \in CallState /\ c.req \in Requests
  BY CommitFacts
<1>2. call' = [call EXCEPT ![p] = Answered(c, ans)] /\ told' = told
  BY DEF Finish
<1>3. CASE c.req.key = None
  <2>1. slots' = slots /\ effects' = effects
    BY <1>3 DEF Finish
  <2>2. Answered(c, ans).req = c.req
    BY <1>1 DEF Answered, CallState
  <2> QED BY <1>2, <1>3, <2>1, <2>2, MoveOnce
<1>4. CASE c.req.key # None
  <2> DEFINE s == Slot(c.req)
  <2>1. s \in Slots /\ slots[s] = None
    BY <1>1, <1>4, SlotInSlots DEF Fresh, Classify
  <2>2. slots' = [slots EXCEPT ![s] = row]
    BY <1>4 DEF Finish
  <2>3. effects' = IF ans.code = "ok" THEN [effects EXCEPT ![s] = @ + 1] ELSE effects
    BY <1>4 DEF Finish
  <2>4. row \in SlotRow /\ row # None
    BY <1>1, NoneIsOutside DEF HashOf, Hash, SlotRow, CallState
  <2>5. told[s] = {}
    <3>1. told[s] \subseteq SlotRow
      BY <2>1 DEF IInv, TypeOK
    <3>2. told[s] # {} => told[s] = {None}
      BY <2>1 DEF Once, ExactlyOnce
    <3> QED BY <3>1, <3>2, NoneIsOutside
  <2>6. effects[s] = 0
    BY <2>1 DEF Once, ExactlyOnce
  <2> HIDE DEF s, row
  <2>7. ASSUME NEW t \in Slots
        PROVE  /\ effects'[t] = IF slots'[t] # None /\ slots'[t].ans.code = "ok" THEN 1 ELSE 0
               /\ told'[t] # {} => told'[t] = {slots'[t]}
    <3>1. CASE t = s
      <4>1. slots'[t] = row /\ row.ans = ans
        BY <2>1, <2>2, <3>1 DEF IInv, TypeOK, row
      <4>2. effects'[t] = IF ans.code = "ok" THEN 1 ELSE 0
        BY <2>1, <2>3, <2>6, <3>1 DEF IInv, TypeOK
      <4> QED BY <1>2, <2>4, <2>5, <3>1, <4>1, <4>2
    <3>2. CASE t # s
      <4>1. slots'[t] = slots[t] /\ effects'[t] = effects[t]
        BY <2>1, <2>2, <2>3, <3>2 DEF IInv, TypeOK
      <4> QED BY <1>2, <4>1 DEF Once, ExactlyOnce
    <3> QED BY <3>1, <3>2
  <2>8. ASSUME NEW q \in Procs, call'[q].pc = "reply", call'[q].req.key # None,
               call'[q].ans.code = "ok"
        PROVE  slots'[Slot(call'[q].req)] = [hash |-> HashOf(call'[q]), ans |-> call'[q].ans]
    <3>1. CASE q = p
      <4>1. call'[q] = Answered(c, ans)
        BY <1>2, <3>1 DEF IInv, TypeOK
      <4>2. /\ Answered(c, ans).req = c.req /\ Answered(c, ans).exp = c.exp
            /\ Answered(c, ans).ans = ans
        BY <1>1 DEF Answered, CallState
      <4>3. slots'[s] = row
        BY <2>1, <2>2 DEF IInv, TypeOK
      <4> QED BY <4>1, <4>2, <4>3 DEF s, row, HashOf
    <3>2. CASE q # p
      <4>1. call'[q] = call[q]
        BY <1>2, <3>2 DEF IInv, TypeOK
      <4>2. slots[Slot(call[q].req)] = [hash |-> HashOf(call[q]), ans |-> call[q].ans]
        BY <2>8, <4>1 DEF Once, AnswersMatchSlots
      <4>3. call[q].req \in Requests /\ call[q] \in CallState /\ call[q].ans # None
        BY <2>8, <4>1 DEF IInv, TypeOK, SoundCalls, Sound
      <4>4. slots[Slot(call[q].req)] \in SlotRow
        BY <4>2, <4>3 DEF SlotRow, Hash, HashOf, CallState
      <4>5. Slot(call[q].req) # s
        BY <2>1, <4>4, NoneIsOutside
      <4>6. slots'[Slot(call[q].req)] = slots[Slot(call[q].req)]
        BY <2>2, <4>3, <4>5, <2>8, <4>1, SlotInSlots DEF IInv, TypeOK
      <4> QED BY <4>1, <4>2, <4>6
    <3> QED BY <3>1, <3>2
  <2> QED BY <2>7, <2>8 DEF Once, ExactlyOnce, AnswersMatchSlots, HashOf, Slot
<1> QED BY <1>3, <1>4

\* A replay by the early probe answers what the slot holds.
LEMMA CallOnce ==
    ASSUME IInv, Once, NEW p \in Procs, NEW r \in Requests, NEW x \in 0 .. MaxRev, Call(p, r, x)
    PROVE  Once'
<1> DEFINE hash == [req |-> r, exp |-> x]
           c == [Idle EXCEPT
                    !.pc = FirstStep(r), !.req = r, !.exp = x,
                    !.again = r.key # None /\ \E t \in told[Slot(r)] : t.hash = hash]
           d == IF Probes(r) /\ Classify(Slot(r), hash) # "fresh"
                THEN Answered(c, StoredAnswer(Slot(r), hash)) ELSE c
<1>1. call' = [call EXCEPT ![p] = d] /\ UNCHANGED <<slots, effects, told>>
  BY DEF Call, tables, ghosts
<1>2. c.pc # "reply" /\ c.req = r /\ HashOf(c) = hash
  BY DEF Idle, FirstStep, HashOf
<1>3. ASSUME d.pc = "reply", d.req.key # None, d.ans.code = "ok"
      PROVE  slots[Slot(d.req)] = [hash |-> HashOf(d), ans |-> d.ans]
  <2>1. Probes(r) /\ Classify(Slot(r), hash) # "fresh" /\ d = Answered(c, StoredAnswer(Slot(r), hash))
    BY <1>2, <1>3
  <2>2. d.req = r /\ HashOf(d) = hash /\ d.ans = StoredAnswer(Slot(r), hash)
    BY <2>1, <1>2 DEF Answered, Idle, HashOf
  <2> HIDE DEF d, c
  <2>3. slots[Slot(r)] = [hash |-> hash, ans |-> StoredAnswer(Slot(r), hash)]
    BY <1>3, <2>1, <2>2, StoredMatches
  <2> QED BY <2>2, <2>3
<1> HIDE DEF d
<1> QED BY <1>1, <1>3, MoveOnce

\* Telling a client its answer keeps what clients know of a slot to one result.
LEMMA NoteReply ==
    ASSUME IInv, Once, NEW p \in Procs, Reply(p)
    PROVE  Once'
<1> DEFINE c == call[p]
           row == [hash |-> HashOf(c), ans |-> c.ans]
<1>1. call' = [call EXCEPT ![p] = Idle] /\ slots' = slots /\ effects' = effects
  BY DEF Reply, tables
<1>2. AnswersMatchSlots'
  <2> SUFFICES ASSUME NEW q \in Procs, call'[q].pc = "reply", call'[q].req.key # None,
                      call'[q].ans.code = "ok"
               PROVE  slots[Slot(call'[q].req)] = [hash |-> HashOf(call'[q]), ans |-> call'[q].ans]
    BY <1>1 DEF AnswersMatchSlots, Slot, HashOf
  <2>1. call'[q] = call[q]
    BY <1>1 DEF IInv, TypeOK, Idle
  <2> QED BY <2>1 DEF Once, AnswersMatchSlots
<1>3. ExactlyOnce'
  <2>1. CASE told' = told
    BY <1>1, <2>1 DEF Once, ExactlyOnce
  <2>2. CASE told' # told
    <3> DEFINE s == Slot(c.req)
    <3>1. /\ c.pc = "reply" /\ c.req.key # None /\ c.ans.code = "ok"
          /\ told' = [told EXCEPT ![s] = @ \cup {row}]
      BY <2>2 DEF Reply
    <3>2. slots[s] = row
      BY <3>1 DEF Once, AnswersMatchSlots
    <3>3. c.req \in Requests
      BY <3>1 DEF IInv, SoundCalls, Sound
    <3>4. s \in Slots
      BY <3>1, <3>3, SlotInSlots
    <3> HIDE DEF s, row
    <3>5. \A t \in Slots : told'[t] # {} => told'[t] = {slots[t]}
      BY <3>1, <3>2, <3>4 DEF Once, ExactlyOnce, IInv, TypeOK
    <3> QED BY <1>1, <3>5 DEF Once, ExactlyOnce
  <2> QED BY <2>1, <2>2
<1> QED BY <1>2, <1>3 DEF Once

\* No step applies a key twice or tells two results for it.
LEMMA OnceStep == IInv /\ Once /\ [Next]_vars => Once'
<1> SUFFICES ASSUME IInv, Once, [Next]_vars PROVE Once'
  OBVIOUS
<1>1. CASE UNCHANGED vars
  BY <1>1 DEF vars, Once, ExactlyOnce, AnswersMatchSlots, Slot, HashOf
<1>2. CASE Next
  <2>1. PICK p \in Procs :
          \/ \E r \in Requests, x \in 0 .. MaxRev : Call(p, r, x)
          \/ Peek(p) \/ EvaluateBudget(p) \/ Commit(p) \/ Reply(p) \/ Crash(p)
    BY <1>2 DEF Next
  <2> DEFINE c == call[p]
  <2>2. c \in CallState
    BY DEF IInv, TypeOK
  <2>3. CASE \E r \in Requests, x \in 0 .. MaxRev : Call(p, r, x)
    BY <2>3, CallOnce
  <2>4. CASE Peek(p)
    <3>1. PICK i \in c.req.ids :
            call' = [call EXCEPT ![p] =
                IF entries[i] = None THEN Answered(c, Failure("not_found"))
                ELSE IF c.req.op # "forget_memory" /\ entries[i].status \notin {"active", "archived"}
                     THEN Answered(c, Failure("invalid_state"))
                     ELSE [c EXCEPT !.seen[i] = entries[i],
                                    !.pc = IF {j \in c.req.ids : c.seen[j] = None} = {i}
                                           THEN IF c.req.op = "forget_memory" THEN "commit" ELSE "budget"
                                           ELSE "peek"]]
      BY <2>4 DEF Peek
    <3>2. /\ Answered(c, Failure("not_found")).ans.code # "ok"
          /\ Answered(c, Failure("invalid_state")).ans.code # "ok"
      BY <2>2 DEF Answered, Failure, CallState
    <3>3. \A pc : [c EXCEPT !.seen[i] = entries[i], !.pc = pc].pc = pc
      BY <2>2 DEF CallState
    <3>4. PICK d : call' = [call EXCEPT ![p] = d] /\ (d.pc # "reply" \/ d.ans.code # "ok")
      BY <3>1, <3>2, <3>3
    <3>5. UNCHANGED <<slots, effects, told>>
      BY <2>4 DEF Peek, tables, ghosts
    <3> QED BY <3>4, <3>5, MoveOnce
  <2>5. CASE EvaluateBudget(p)
    <3>1. PICK d \in {Answered(c, Failure("capacity_exceeded")), [c EXCEPT !.pc = "commit"],
                      Answered(c, Failure("duplicate_candidate"))} : call' = [call EXCEPT ![p] = d]
      BY <2>5 DEF EvaluateBudget
    <3>2. /\ Answered(c, Failure("capacity_exceeded")).ans.code # "ok"
          /\ Answered(c, Failure("duplicate_candidate")).ans.code # "ok"
          /\ [c EXCEPT !.pc = "commit"].pc # "reply"
      BY <2>2 DEF Answered, Failure, CallState
    <3>3. d.pc # "reply" \/ d.ans.code # "ok"
      BY <3>1, <3>2
    <3>4. UNCHANGED <<slots, effects, told>>
      BY <2>5 DEF EvaluateBudget, tables, ghosts
    <3> QED BY <3>1, <3>3, <3>4, MoveOnce
  <2>6. CASE Commit(p) /\ ~CommitReplay(p)
    <3>1. PICK ans \in Answer : Fresh(p) /\ Finish(p, ans)
      BY <2>6, CommitIsTransaction DEF Transaction
    <3> QED BY <3>1, FinishOnce
  <2>7. CASE CommitReplay(p)
    <3> DEFINE ans == StoredAnswer(Slot(c.req), HashOf(c))
               d == Answered(c, ans)
    <3>1. c.req \in Requests /\ c.req.key # None /\ Classify(Slot(c.req), HashOf(c)) # "fresh"
      BY <2>7 DEF CommitReplay, IInv, SoundCalls, Sound
    <3>2. call' = [call EXCEPT ![p] = d] /\ UNCHANGED <<slots, effects, told>>
      BY <2>7 DEF CommitReplay, tables, ghosts
    <3>3. d.req = c.req /\ HashOf(d) = HashOf(c) /\ d.ans = ans
      BY <2>2 DEF Answered, CallState, HashOf
    <3> HIDE DEF d
    <3>4. d.ans.code = "ok" => slots[Slot(d.req)] = [hash |-> HashOf(d), ans |-> d.ans]
      BY <3>1, <3>3, StoredMatches
    <3> QED BY <3>2, <3>4, MoveOnce
  <2>8. CASE Reply(p)
    BY <2>8, NoteReply
  <2>9. CASE Crash(p)
    <3>1. call' = [call EXCEPT ![p] = Idle] /\ UNCHANGED <<slots, effects, told>>
      BY <2>9 DEF Crash, tables, ghosts
    <3>2. Idle.pc # "reply"
      BY DEF Idle
    <3> QED BY <3>1, <3>2, MoveOnce
  <2> QED BY <2>1, <2>3, <2>4, <2>5, <2>6, <2>7, <2>8, <2>9
<1> QED BY <1>1, <1>2

\* However a call is retried, by whichever process and after whatever crash, a
\* key takes effect at most once and every client hears its one result.
THEOREM KeysAreExactlyOnce == Spec => []ExactlyOnce
<1>1. Once => ExactlyOnce
  BY DEF Once
<1> QED BY <1>1, InvTheorem, OnceInit, OnceStep, PTL DEF Spec

--------------------------------------------------------------------------------
(* The write service implements VersionedStore *)

\* The refinement mapping of Store, one row and one slot at a time.
Version(e) == IF e = None THEN 0 ELSE e.rev
Log(H) == {h.rev : h \in H}
Result(slot) == IF slot = None THEN None ELSE slot.ans

\* The seeded tables are an initial state of the abstract store.
LEMMA StoreInit == Init => Store!Init
<1> SUFFICES ASSUME Init PROVE Store!Init
  OBVIOUS
<1>1. SeedEntry # None /\ SeedEntry.rev = 1
  <2>1. SeedEntry \in Entry
    BY NoneIsOutside, BoundsAssumption DEF SeedEntry, NewEntry, Entry, Size, Statuses
  <2> QED BY <2>1, NoneIsOutside DEF SeedEntry, NewEntry
<1>2. \A i \in Ids : Version(entries[i]) \in {0, 1} /\ Log(history[i]) = 1 .. Version(entries[i])
  <2> SUFFICES ASSUME NEW i \in Ids
               PROVE  Version(entries[i]) \in {0, 1} /\ Log(history[i]) = 1 .. Version(entries[i])
    OBVIOUS
  <2>1. CASE i \in Seed
    BY <1>1, <2>1 DEF Init, Version, Log
  <2>2. CASE i \notin Seed
    BY <2>2 DEF Init, Version, Log
  <2> QED BY <2>1, <2>2
<1>3. \A s \in Slots : Result(slots[s]) = None
  BY DEF Init, Result
<1> QED BY <1>2, <1>3 DEF Store!Init, Version, Log, Result

\* Advances is VersionedStore's Advance.
LEMMA StoreAdvance ==
    ASSUME IInv, NEW I \in SUBSET Ids, NEW rows, NEW snapshots,
           Write(I, rows, snapshots), Advances(I, rows, snapshots)
    PROVE  Store!Advance(I)
<1>1. ASSUME NEW i \in Ids
      PROVE  /\ Version(entries'[i]) = IF i \in I THEN Version(entries[i]) + 1 ELSE Version(entries[i])
             /\ Log(history'[i]) = IF i \in I THEN Log(history[i]) \cup {Version(entries[i]) + 1}
                                   ELSE Log(history[i])
  <2>1. CASE i \in I
    <3>1. /\ rows[i] \in Entry /\ snapshots[i].rev = rows[i].rev
          /\ rows[i].rev = IF entries[i] = None THEN 1 ELSE entries[i].rev + 1
      BY <2>1 DEF Advances
    <3>2. entries'[i] = rows[i] /\ history'[i] = history[i] \cup {snapshots[i]}
      BY <2>1 DEF Write
    <3>3. rows[i].rev = Version(entries[i]) + 1 /\ rows[i] # None
      BY <3>1, NoneIsOutside DEF Version
    <3>4. Log(history[i] \cup {snapshots[i]}) = Log(history[i]) \cup {snapshots[i].rev}
      BY DEF Log
    <3> QED BY <2>1, <3>1, <3>2, <3>3, <3>4 DEF Version
  <2>2. CASE i \notin I
    BY <2>2 DEF Write
  <2> QED BY <2>1, <2>2
<1> QED BY <1>1 DEF Store!Advance, Version, Log

\* Completing a key settles its result in the abstract store, or stutters.
LEMMA StoreFinish ==
    ASSUME IInv, NEW p \in Procs, Fresh(p), NEW ans \in Answer, Finish(p, ans)
    PROVE  slots' = slots \/ \E s \in Slots : Store!Settle(s)
<1> DEFINE c == call[p]
           s == Slot(c.req)
           row == [hash |-> HashOf(c), ans |-> ans]
<1>1. CASE c.req.key = None
  BY <1>1 DEF Finish
<1>2. CASE c.req.key # None
  <2>1. c \in CallState /\ c.req \in Requests
    BY CommitFacts
  <2>2. s \in Slots /\ slots[s] = None
    BY <1>2, <2>1, SlotInSlots DEF Fresh, Classify
  <2>3. slots' = [slots EXCEPT ![s] = row]
    BY <1>2 DEF Finish
  <2>4. row # None /\ row.ans = ans
    BY <2>1, NoneIsOutside DEF HashOf, Hash, SlotRow, CallState
  <2> HIDE DEF s, row
  <2>5. Result(slots[s]) = None /\ Result(slots'[s]) = ans
    BY <2>2, <2>3, <2>4 DEF Result, IInv, TypeOK
  <2>6. \A t \in Slots : t # s => Result(slots'[t]) = Result(slots[t])
    BY <2>2, <2>3 DEF IInv, TypeOK
  <2>7. Store!Settle(s)
    BY <2>2, <2>5, <2>6 DEF Store!Settle, Result
  <2> QED BY <2>2, <2>7 DEF Store!Settle
<1> QED BY <1>1, <1>2

\* Every step is a step of the abstract store or leaves it alone.
LEMMA StoreStep == IInv /\ [Next]_vars => [Store!Next]_(Store!vars)
<1> SUFFICES ASSUME IInv, [Next]_vars PROVE [Store!Next]_(Store!vars)
  OBVIOUS
<1>1. CASE UNCHANGED tables
  BY <1>1 DEF tables, Store!vars
<1>2. ASSUME NEW p \in Procs, Transaction(p)
      PROVE  [Store!Next]_(Store!vars)
  <2>1. PICK ans \in Answer : Fresh(p) /\ Finish(p, ans)
    BY <1>2 DEF Transaction
  <2>2. PICK I \in SUBSET Ids : \E rows, snapshots :
          Write(I, rows, snapshots) /\ Advances(I, rows, snapshots)
    BY <1>2 DEF Transaction
  <2>3. Store!Advance(I)
    BY <2>2, StoreAdvance
  <2>4. slots' = slots \/ \E s \in Slots : Store!Settle(s)
    BY <2>1, StoreFinish
  <2>5. CASE I = {}
    <3>1. entries' = entries /\ history' = history
      BY <2>2, <2>5 DEF Write, IInv, TypeOK
    <3> QED BY <2>4, <3>1 DEF Store!Next, Store!Refuse, Store!vars
  <2>6. CASE I # {}
    BY <2>3, <2>4, <2>6 DEF Store!Next, Store!Mutate, Store!Advance, Store!Settle
  <2> QED BY <2>5, <2>6
<1> QED BY <1>1, <1>2, TransactionOrQuiet

\* The whole write service, with its processes, statements, retries and
\* crashes, implements the abstract versioned store.
THEOREM ImplementsStore == Spec => AtomicStore
<1> QED BY InvTheorem, StoreInit, StoreStep, PTL DEF Spec, AtomicStore, Store!Spec

--------------------------------------------------------------------------------
(* Compare-and-set *)

\* Only a call with expected_revision carries one.
Expecting(c) == c.exp # 0 => c.pc # "idle" /\ c.req.cas

\* A write that won took its row past the revision that it expected.
WonBelow(w) ==
    /\ casWins[w] <= 1
    /\ casWins[w] # 0 => entries[w[1]] # None /\ entries[w[1]].rev > w[2]

CasInv ==
    /\ \A p \in Procs : Expecting(call[p])
    /\ \A w \in Ids \X (1 .. MaxRev) : WonBelow(w)

\* Nobody has won anything in the seeded store.
LEMMA CasInit == Init => CasInv
<1> SUFFICES ASSUME Init PROVE CasInv
  OBVIOUS
<1>1. \A p \in Procs : Expecting(call[p])
  BY DEF Init, Expecting, Idle
<1>2. \A w \in Ids \X (1 .. MaxRev) : casWins[w] = 0
  BY DEF Init
<1> QED BY <1>1, <1>2 DEF CasInv, WonBelow

\* A call keeps what it expects until it ends.
LEMMA ExpectingStep ==
    ASSUME IInv, CasInv, [Next]_vars, NEW p \in Procs
    PROVE  Expecting(call'[p])
<1>1. call[p] \in CallState /\ Expecting(call[p])
  BY DEF IInv, TypeOK, CasInv
<1>2. CASE call'[p] = call[p] \/ call'[p] = Idle
  BY <1>1, <1>2 DEF Expecting, Idle
<1>3. ASSUME NEW c, c.exp = call[p].exp, c.req = call[p].req, c.pc # "idle", call'[p] = c
      PROVE  Expecting(call'[p])
  BY <1>1, <1>3 DEF Expecting
<1>4. ASSUME NEW r \in Requests, NEW x \in 0 .. MaxRev, Call(p, r, x)
      PROVE  Expecting(call'[p])
  <2>1. call'[p].exp = x /\ call'[p].req = r /\ call'[p].pc # "idle"
    BY <1>4 DEF Call, Idle, Answered, FirstStep, IInv, TypeOK
  <2>2. x # 0 => r.cas
    BY <1>4 DEF Call
  <2> QED BY <2>1, <2>2 DEF Expecting
<1>5. CASE Peek(p)
  BY <1>1, <1>5 DEF Peek, Answered, Expecting, CallState, PCs, IInv, TypeOK
<1>6. CASE EvaluateBudget(p)
  <2>1. PICK c2 : /\ call' = [call EXCEPT ![p] = c2]
                  /\ \/ c2 = [call[p] EXCEPT !.pc = "commit"]
                     \/ \E code \in Codes : c2 = Answered(call[p], Failure(code))
    BY <1>6 DEF EvaluateBudget, Codes
  <2>2. c2.exp = call[p].exp /\ c2.req = call[p].req /\ c2.pc # "idle"
    BY <1>1, <2>1 DEF Answered, CallState
  <2> QED BY <1>3, <2>1, <2>2 DEF IInv, TypeOK
<1>7. ASSUME NEW ans, Finish(p, ans) PROVE Expecting(call'[p])
  <2>1. call'[p] = Answered(call[p], ans)
    BY <1>7 DEF Finish, IInv, TypeOK
  <2> QED BY <1>1, <2>1 DEF Answered, Expecting, CallState
<1>8. CASE Commit(p)
  <2>1. CASE CommitReplay(p)
    <3>1. call'[p] = Answered(call[p], StoredAnswer(Slot(call[p].req), HashOf(call[p])))
      BY <2>1 DEF CommitReplay, IInv, TypeOK
    <3> QED BY <1>1, <3>1 DEF Answered, Expecting, CallState
  <2>2. CASE ~CommitReplay(p)
    BY <1>7, <1>8, <2>2, CommitIsTransaction DEF Transaction
  <2> QED BY <2>1, <2>2
<1>9. CASE Reply(p) \/ Crash(p)
  <2>1. call'[p] = Idle
    BY <1>9 DEF Reply, Crash, IInv, TypeOK
  <2> QED BY <1>2, <2>1
<1>10. ASSUME NEW q \in Procs, q # p,
              \/ \E r \in Requests, x \in 0 .. MaxRev : Call(q, r, x)
              \/ Peek(q) \/ EvaluateBudget(q) \/ Commit(q) \/ Reply(q) \/ Crash(q)
       PROVE  call'[p] = call[p]
  <2>1. CASE Commit(q) /\ ~CommitReplay(q)
    BY <1>10, <2>1, CommitIsTransaction DEF Transaction, Finish, IInv, TypeOK
  <2>2. CASE ~(Commit(q) /\ ~CommitReplay(q))
    BY <1>10, <2>2 DEF Call, Peek, EvaluateBudget, CommitReplay, Reply, Crash, IInv, TypeOK
  <2> QED BY <2>1, <2>2
<1> QED BY <1>2, <1>4, <1>5, <1>6, <1>8, <1>9, <1>10 DEF Next, vars

\* A transaction that counts a win finds its row at the expected revision and
\* takes it to the next.
LEMMA WinFound ==
    ASSUME IInv, CasInv, NEW p \in Procs, Commit(p), ~CommitReplay(p), casWins' # casWins
    PROVE  /\ Target(call[p].req) \in Ids /\ call[p].exp \in 1 .. MaxRev
           /\ entries[Target(call[p].req)] \in Entry
           /\ entries[Target(call[p].req)].rev = call[p].exp
           /\ entries'[Target(call[p].req)] # None
           /\ entries'[Target(call[p].req)].rev = call[p].exp + 1
           /\ casWins' = [casWins EXCEPT ![<<Target(call[p].req), call[p].exp>>] = @ + 1]
<1> DEFINE c == call[p]
           t == Target(c.req)
<1>1. Fresh(p) /\ c \in CallState /\ c.req \in Requests /\ Expecting(c)
  <2>1. Fresh(p)
    BY DEF Commit, CommitRemember, CommitUpdate, CommitCasMiss, CommitCasUpdate, CommitForget,
       CommitSupersede
  <2> QED BY <2>1, CommitFacts DEF CasInv
<1>2. c.exp # 0 /\ casWins' = [casWins EXCEPT ![<<t, c.exp>>] = @ + 1] /\ c.req.cas
  BY <1>1 DEF Commit, CommitRemember, CommitUpdate, CommitCasMiss, CommitCasUpdate, CommitForget,
     CommitSupersede, Finish, Expecting
<1>3. t \in Ids /\ c.req.ids = {t} /\ c.req.op \in {"update_memory", "forget_memory"}
  BY <1>1, <1>2, RequestType
<1>4. entries[t] \in Entry
  BY <1>1, <1>3, CommitFacts
<1>5. CommitCasUpdate(p) \/ CommitForget(p)
  <2>1. ~CommitCasMiss(p)
    <3>1. ASSUME CommitCasMiss(p) PROVE casWins' = casWins
      BY <3>1 DEF CommitCasMiss, Finish, Failure
    <3> QED BY <3>1
  <2> QED BY <1>2, <1>3, <2>1 DEF Commit, CommitRemember, CommitUpdate, CommitSupersede
<1>6. CASE CommitCasUpdate(p)
  <2>1. /\ c.req.op = "update_memory" /\ entries[t].rev = c.exp
        /\ entries'[t] = CasUpdatedRow(entries[t], UpdatePatch(c))
    BY <1>3, <1>6 DEF CommitCasUpdate, Write
  <2>2. UpdatePatch(c) \in Patch
    BY <1>1, <2>1, CommitPatch
  <2> QED BY <1>1, <1>2, <1>3, <1>4, <2>1, <2>2, PatchedType, NoneIsOutside DEF CallState
<1>7. CASE CommitForget(p)
  <2>1. entries[t].rev = c.exp /\ entries'[t] = UpdatedRow(entries[t], Forgetting)
    BY <1>2, <1>3, <1>7 DEF CommitForget, Write
  <2> QED BY <1>1, <1>2, <1>3, <1>4, <2>1, ForgettingType, PatchedType, NoneIsOutside DEF CallState
<1> QED BY <1>5, <1>6, <1>7

\* A row never goes back.
LEMMA RowsAdvance ==
    ASSUME IInv, [Next]_vars, NEW i \in Ids, entries[i] # None
    PROVE  entries'[i] # None /\ entries[i].rev \in Nat /\ entries'[i].rev \in Nat
           /\ entries'[i].rev >= entries[i].rev
<1>1. entries[i] \in Entry
  BY DEF IInv, TypeOK
<1>2. CASE UNCHANGED tables
  BY <1>1, <1>2 DEF tables, Entry
<1>3. ASSUME NEW p \in Procs, Transaction(p)
      PROVE  entries'[i] = entries[i] \/ (entries'[i] \in Entry /\ entries'[i].rev = entries[i].rev + 1)
  BY <1>3 DEF Transaction, Write, Advances
<1> QED BY <1>1, <1>2, <1>3, TransactionOrQuiet, NoneIsOutside DEF Entry

\* No step counts a second win.
LEMMA CasStep == IInv /\ CasInv /\ [Next]_vars => CasInv'
<1> SUFFICES ASSUME IInv, CasInv, [Next]_vars PROVE CasInv'
  OBVIOUS
<1>1. \A p \in Procs : Expecting(call'[p])
  BY ExpectingStep
<1>2. ASSUME NEW w \in Ids \X (1 .. MaxRev)
      PROVE  /\ casWins'[w] <= 1
             /\ casWins'[w] # 0 => entries'[w[1]] # None /\ entries'[w[1]].rev > w[2]
  <2>1. WonBelow(w) /\ w[1] \in Ids /\ w[2] \in Nat /\ casWins[w] \in Nat
    BY DEF CasInv, IInv, TypeOK
  <2>2. entries[w[1]] # None => entries'[w[1]] # None /\ entries[w[1]].rev \in Nat
        /\ entries'[w[1]].rev \in Nat /\ entries'[w[1]].rev >= entries[w[1]].rev
    BY <2>1, RowsAdvance
  <2>3. CASE casWins' = casWins
    BY <2>1, <2>2, <2>3 DEF WonBelow
  <2>4. CASE casWins' # casWins
    <3>1. PICK p \in Procs : Commit(p) /\ ~CommitReplay(p)
      BY <2>4 DEF Next, vars, Call, Peek, EvaluateBudget, CommitReplay, Reply, Crash, ghosts
    <3>2. PICK t \in Ids, e \in 1 .. MaxRev :
            /\ entries[t] \in Entry /\ entries[t].rev = e
            /\ entries'[t] # None /\ entries'[t].rev = e + 1
            /\ casWins' = [casWins EXCEPT ![<<t, e>>] = @ + 1]
      BY <2>4, <3>1, WinFound
    <3>3. CASE w = <<t, e>>
      <4>1. casWins[w] = 0
        BY <2>1, <3>2, <3>3 DEF WonBelow
      <4>2. casWins'[w] = 1
        BY <3>2, <3>3, <4>1 DEF IInv, TypeOK
      <4> QED BY <3>2, <3>3, <4>2
    <3>4. CASE w # <<t, e>>
      <4>1. casWins'[w] = casWins[w]
        BY <3>2, <3>4 DEF IInv, TypeOK
      <4> QED BY <2>1, <2>2, <4>1 DEF WonBelow
    <3> QED BY <3>3, <3>4
  <2> QED BY <2>3, <2>4
<1> QED BY <1>1, <1>2 DEF CasInv, WonBelow, Expecting

\* Of all calls that send one expected_revision of a memory, at most one is
\* written (updateEntryWithRevision), by whichever processes they run in.
THEOREM OneWinnerPerRevision == Spec => []CasOneWinner
<1>1. IInv /\ CasInv => CasOneWinner
  <2> SUFFICES ASSUME IInv, CasInv, NEW w \in DOMAIN casWins PROVE casWins[w] <= 1
    BY DEF CasOneWinner
  <2>1. w \in Ids \X (1 .. MaxRev)
    BY DEF IInv, TypeOK
  <2> QED BY <2>1 DEF CasInv, WonBelow
<1> QED BY <1>1, InvTheorem, CasInit, CasStep, PTL DEF Spec

--------------------------------------------------------------------------------
(* What a transaction does to one memory *)

\* The transaction of call c makes n the replacement of the memories it names,
\* of none for remember.
Created(c, n) ==
    /\ c.req.op \in Creators /\ entries[n] = None /\ entries'[n] = Replacement(c)
    /\ \A i \in c.req.ids : entries'[i] = UpdatedRow(entries[i], Superseding(n))

Replaced(c, i) == i \in c.req.ids /\ \E n \in Ids : Created(c, n)

Edited(c, i) ==
    /\ c.req.op = "update_memory" /\ c.req.ids = {i} /\ Target(c.req) = i
    /\ entries'[i] \in {UpdatedRow(entries[i], UpdatePatch(c)), CasUpdatedRow(entries[i], UpdatePatch(c))}

Cleared(c, i) ==
    /\ c.req.op = "forget_memory" /\ c.req.ids = {i}
    /\ entries'[i] = UpdatedRow(entries[i], Forgetting)

RowStep(c, i) ==
    entries'[i] = entries[i] \/ Created(c, i) \/ Replaced(c, i) \/ Edited(c, i) \/ Cleared(c, i)

\* A memory that a call names is not the row its replacement gets.
LEMMA NamedIsNotNew ==
    ASSUME IInv, NEW p \in Procs, Fresh(p), NEW n \in Ids, entries[n] = None
    PROVE  n \notin call[p].req.ids
BY CommitFacts, NoneIsOutside

\* Every commit does one of these to each memory.
LEMMA CommitRows ==
    ASSUME IInv, NEW p \in Procs, Commit(p), ~CommitReplay(p)
    PROVE  /\ Fresh(p) /\ \A i \in Ids : RowStep(call[p], i)
           /\ \A i, j \in Ids : Created(call[p], i) /\ Created(call[p], j) => i = j
<1> DEFINE c == call[p]
<1>1. Fresh(p)
  BY CommitIsTransaction DEF Transaction
<1>2. c.req \in Requests /\ c.req.ids \subseteq Ids
  BY <1>1, CommitFacts
<1>a. ASSUME NEW n \in Ids, entries[n] = None, NEW i \in Ids, Created(c, i),
             \A k \in Ids : k = n \/ k \in c.req.ids \/ entries'[k] = entries[k]
      PROVE  i = n
  <2>1. i \notin c.req.ids /\ entries'[i] = Replacement(c) /\ entries[i] = None
    BY <1>1, <1>a, NamedIsNotNew DEF Created
  <2>2. Replacement(c) # None
    BY <1>1, <1>a, CommitFacts, ReplacementType, NoneIsOutside DEF Created
  <2> QED BY <1>a, <2>1, <2>2
<1>3. CASE CommitRemember(p)
  <2>1. c.req.op = "remember" /\ c.req.ids = {}
    BY <1>2, <1>3, RequestsAssumption DEF CommitRemember
  <2>2. PICK n \in Ids :
          entries[n] = None /\ Write({n}, [i \in {n} |-> Replacement(c)], [i \in {n} |-> Replacement(c)])
    BY <1>3 DEF CommitRemember
  <2>3. Created(c, n)
    BY <2>1, <2>2 DEF Created, Creators, Write
  <2>4. \A i \in Ids : i # n => entries'[i] = entries[i]
    BY <2>2 DEF Write
  <2> QED BY <1>1, <1>a, <2>2, <2>3, <2>4 DEF RowStep
<1>4. CASE CommitUpdate(p)
  <2> DEFINE new == [i \in c.req.ids |-> UpdatedRow(entries[i], UpdatePatch(c))]
  <2>1. c.req.op = "update_memory" /\ Write(c.req.ids, new, new)
    BY <1>4 DEF CommitUpdate
  <2>2. c.req.ids = {Target(c.req)} /\ Target(c.req) \in Ids
    BY <1>2, <2>1, RequestType
  <2> QED BY <1>1, <2>1, <2>2 DEF Write, Edited, RowStep, Created, Creators
<1>5. CASE CommitCasMiss(p)
  <2>1. c.req.op \notin Creators /\ entries' = entries
    BY <1>2, <1>5, RequestType DEF CommitCasMiss, Creators
  <2> QED BY <1>1, <2>1 DEF RowStep, Created
<1>6. CASE CommitCasUpdate(p)
  <2> DEFINE new == [i \in c.req.ids |-> CasUpdatedRow(entries[i], UpdatePatch(c))]
             snap == [i \in c.req.ids |-> Patched(entries[i], UpdatePatch(c))]
  <2>1. c.req.op = "update_memory" /\ Write(c.req.ids, new, snap)
    BY <1>6 DEF CommitCasUpdate
  <2>2. c.req.ids = {Target(c.req)} /\ Target(c.req) \in Ids
    BY <1>2, <2>1, RequestType
  <2> QED BY <1>1, <2>1, <2>2 DEF Write, Edited, RowStep, Created, Creators
<1>7. CASE CommitForget(p)
  <2> DEFINE new == [i \in c.req.ids |-> UpdatedRow(entries[i], Forgetting)]
  <2>1. c.req.op = "forget_memory" /\ Write(c.req.ids, new, new)
    BY <1>7 DEF CommitForget
  <2>2. c.req.ids = {Target(c.req)} /\ Target(c.req) \in Ids
    BY <1>2, <2>1, RequestType
  <2> QED BY <1>1, <2>1, <2>2 DEF Write, Cleared, RowStep, Created, Creators
<1>8. CASE CommitSupersede(p)
  <2> DEFINE new(n) == [i \in c.req.ids \cup {n} |->
                          IF i = n THEN Replacement(c) ELSE UpdatedRow(entries[i], Superseding(n))]
  <2>1. c.req.op \in {"supersede_memory", "merge_memories"}
    BY <1>8 DEF CommitSupersede
  <2>2. PICK n \in Ids : entries[n] = None /\ Write(c.req.ids \cup {n}, new(n), new(n))
    BY <1>8 DEF CommitSupersede
  <2>3. n \notin c.req.ids
    BY <1>1, <2>2, NamedIsNotNew
  <2>4. Created(c, n)
    BY <1>2, <2>1, <2>2, <2>3 DEF Created, Creators, Write
  <2>5. \A i \in Ids : i \notin c.req.ids \cup {n} => entries'[i] = entries[i]
    BY <2>2 DEF Write
  <2> QED BY <1>1, <1>a, <2>2, <2>4, <2>5 DEF RowStep, Replaced
<1> QED BY <1>3, <1>4, <1>5, <1>6, <1>7, <1>8 DEF Commit

\* Any step is such a commit or leaves the rows alone.
LEMMA RowSteps ==
    ASSUME IInv, [Next]_vars
    PROVE  \/ UNCHANGED tables
           \/ \E p \in Procs :
                /\ Commit(p) /\ Fresh(p) /\ \A i \in Ids : RowStep(call[p], i)
                /\ \A i, j \in Ids : Created(call[p], i) /\ Created(call[p], j) => i = j
<1>1. CASE UNCHANGED vars
  BY <1>1 DEF vars, tables
<1>2. CASE Next
  <2>1. PICK p \in Procs :
          \/ \E r \in Requests, x \in 0 .. MaxRev : Call(p, r, x)
          \/ Peek(p) \/ EvaluateBudget(p) \/ Commit(p) \/ Reply(p) \/ Crash(p)
    BY <1>2 DEF Next
  <2>2. CASE Commit(p) /\ ~CommitReplay(p)
    BY <2>2, CommitRows
  <2>3. CASE ~(Commit(p) /\ ~CommitReplay(p))
    BY <2>1, <2>3 DEF Call, Peek, EvaluateBudget, CommitReplay, Reply, Crash, tables
  <2> QED BY <2>2, <2>3
<1> QED BY <1>1, <1>2

\* What the new entry of a call holds.
LEMMA ReplacementFields ==
    ASSUME NEW c
    PROVE  /\ Replacement(c).by = None /\ Replacement(c).sup = c.req.ids \cup c.req.lists
           /\ c.req \in Requests => Replacement(c).status \in {"active", "archived"}
           /\ Replacement(c).title = c.req.patch.title /\ Replacement(c).text = c.req.patch.text
           /\ Replacement(c).chars = Size(c.req.patch.title, c.req.patch.text)
BY RequestType DEF Replacement, NewEntry

\* Superseding a row sets its status and the row that replaces it.
LEMMA SupersededFields ==
    ASSUME NEW e \in Entry, NEW n \in Ids
    PROVE  LET f == UpdatedRow(e, Superseding(n))
           IN /\ f.status = "superseded" /\ f.by = n /\ f.sup = e.sup
              /\ f.title = e.title /\ f.text = e.text /\ f.chars = e.chars
BY NoneIsOutside DEF UpdatedRow, Patched, Superseding, NoPatch, Given, Statuses

\* Forgetting a row clears it and leaves what it is linked to.
LEMMA ForgottenFields ==
    ASSUME NEW e \in Entry
    PROVE  LET f == UpdatedRow(e, Forgetting)
           IN /\ f.status = "forgotten" /\ f.by = e.by /\ f.sup = e.sup
              /\ f.text = 0 /\ f.chars = 0
BY NoneIsOutside DEF UpdatedRow, Patched, Forgetting, NoPatch, Given, Statuses

\* An update, by either UPDATE statement, leaves the links of a row, and its
\* status unless it asks for active or archived.
LEMMA EditedFields ==
    ASSUME NEW e \in Entry, NEW q \in Patch, q.by = None, q.status \in {"active", "archived", None},
           NEW f \in {UpdatedRow(e, q), CasUpdatedRow(e, q)}
    PROVE  /\ f.by = e.by /\ f.sup = e.sup
           /\ f.status \in {"active", "archived", e.status}
           /\ f.status = Given(q.status, e.status) /\ f.title = Given(q.title, e.title)
           /\ f.text = Given(q.text, e.text) /\ f.chars = Given(q.chars, e.chars)
BY NoneIsOutside DEF UpdatedRow, CasUpdatedRow, Patched, Given

\* The patch an update commits sets no link, and no status but those two.
LEMMA CommitPatchFields ==
    ASSUME IInv, NEW p \in Procs, Fresh(p), call[p].req.op = "update_memory"
    PROVE  /\ UpdatePatch(call[p]) \in Patch /\ UpdatePatch(call[p]).by = None
           /\ UpdatePatch(call[p]).status \in {"active", "archived", None}
<1>1. call[p].req \in Requests
  BY CommitFacts
<1>2. call[p].req.patch \in Patch /\ call[p].req.patch.by = None
      /\ call[p].req.patch.status \in {"active", "archived", None}
  BY <1>1, RequestType, RequestsAssumption DEF Request
<1>3. UpdatePatch(call[p]) \in Patch
  BY CommitPatch
<1> QED BY <1>2, <1>3 DEF UpdatePatch, Patch

\* What every commit leaves as it is: a row stays a row with the same
\* supersedes list.
LEMMA ListsStay ==
    ASSUME IInv, [Next]_vars, NEW i \in Ids, entries[i] # None
    PROVE  entries'[i] # None /\ entries'[i].sup = entries[i].sup
<1>1. entries[i] \in Entry /\ entries'[i] # None
  BY RowsAdvance DEF IInv, TypeOK
<1>2. CASE UNCHANGED tables
  BY <1>1, <1>2 DEF tables
<1>3. ASSUME NEW p \in Procs, Fresh(p), RowStep(call[p], i)
      PROVE  entries'[i].sup = entries[i].sup
  <2>1. CASE Replaced(call[p], i)
    BY <1>1, <2>1, SupersededFields DEF Replaced, Created
  <2>2. CASE Edited(call[p], i)
    BY <1>1, <1>3, <2>2, EditedFields, CommitPatchFields DEF Edited
  <2>3. CASE Cleared(call[p], i)
    BY <1>1, <2>3, ForgottenFields DEF Cleared
  <2> QED BY <1>3, <2>1, <2>2, <2>3 DEF RowStep, Created
<1> QED BY <1>1, <1>2, <1>3, RowSteps

--------------------------------------------------------------------------------
(* Links between memories *)

\* No seeded memory is superseded.
LEMMA ListsInit == Init => SupersededByLists
<1> SUFFICES ASSUME Init, NEW i \in Ids PROVE entries[i] # None => entries[i].by = None
  BY DEF SupersededByLists
<1> QED BY DEF Init, SeedEntry, NewEntry

\* No step leaves a memory superseded by one that does not list it.
LEMMA ListsStep == IInv /\ SupersededByLists /\ [Next]_vars => SupersededByLists'
<1> SUFFICES ASSUME IInv, SupersededByLists, [Next]_vars, NEW i \in Ids,
                    entries'[i] # None, entries'[i].by # None
             PROVE  entries'[entries'[i].by] # None /\ i \in entries'[entries'[i].by].sup
  BY DEF SupersededByLists
<1>1. ASSUME entries[i] # None, entries'[i].by = entries[i].by
      PROVE  entries'[entries'[i].by] # None /\ i \in entries'[entries'[i].by].sup
  <2>1. entries[i] \in Entry
    BY <1>1 DEF IInv, TypeOK
  <2>2. entries[i].by \in Ids /\ entries[entries[i].by] # None /\ i \in entries[entries[i].by].sup
    BY <1>1, <2>1 DEF SupersededByLists, Entry
  <2> QED BY <1>1, <2>2, ListsStay
<1>2. CASE UNCHANGED tables
  BY <1>1, <1>2 DEF tables
<1>3. ASSUME NEW p \in Procs, Fresh(p), \A j \in Ids : RowStep(call[p], j)
      PROVE  entries'[entries'[i].by] # None /\ i \in entries'[entries'[i].by].sup
  <2> DEFINE c == call[p]
  <2>1. \A j \in c.req.ids : entries[j] \in Entry
    BY <1>3, CommitFacts
  <2>2. CASE entries'[i] = entries[i]
    BY <1>1, <2>2
  <2>3. CASE Created(c, i)
    BY <2>3, ReplacementFields DEF Created
  <2>4. CASE Replaced(c, i)
    <3>1. PICK n \in Ids : Created(c, n)
      BY <2>4 DEF Replaced
    <3>2. i \in c.req.ids /\ entries'[i].by = n
      BY <2>1, <2>4, <3>1, SupersededFields DEF Replaced, Created
    <3>3. Replacement(c) # None
      BY <1>3, <3>1, CommitFacts, ReplacementType, NoneIsOutside DEF Created
    <3> QED BY <3>1, <3>2, <3>3, ReplacementFields DEF Created
  <2>5. CASE Edited(c, i)
    <3>1. entries[i] \in Entry /\ entries'[i].by = entries[i].by
      BY <1>3, <2>1, <2>5, EditedFields, CommitPatchFields DEF Edited
    <3> QED BY <1>1, <3>1, NoneIsOutside
  <2>6. CASE Cleared(c, i)
    <3>1. entries[i] \in Entry /\ entries'[i].by = entries[i].by
      BY <2>1, <2>6, ForgottenFields DEF Cleared
    <3> QED BY <1>1, <3>1, NoneIsOutside
  <2> QED BY <1>3, <2>2, <2>3, <2>4, <2>5, <2>6 DEF RowStep
<1> QED BY <1>2, <1>3, RowSteps

\* However many processes supersede, merge, forget and update, the memory a
\* superseded row points to exists and lists it in supersedes.
THEOREM SupersededIsListed == Spec => []SupersededByLists
<1> QED BY InvTheorem, ListsInit, ListsStep, PTL DEF Spec

--------------------------------------------------------------------------------
(* A repeated call *)

\* RetryReplays is not inductive: between the probe of a repeated call and its
\* answer nothing may be left to do.  A tool that probes early has the answer
\* from its first step, and what clients were told is never forgotten.
AnsweredAtOnce(c) ==
    c.again =>
        /\ c.req \in Requests /\ c.req.key # None
        /\ c.req.op # "update_memory" =>
              c.pc = "reply" /\ [hash |-> HashOf(c), ans |-> c.ans] \in told[Slot(c.req)]

RepeatsAnswered == \A p \in Procs : AnsweredAtOnce(call[p])

\* What clients were told stays told.
LEMMA ToldGrows ==
    ASSUME IInv, [Next]_vars, NEW s \in Slots
    PROVE  told[s] \subseteq told'[s]
<1>1. CASE told' = told
  BY <1>1
<1>2. ASSUME NEW p \in Procs, Reply(p)
      PROVE  told[s] \subseteq told'[s]
  BY <1>2 DEF Reply, IInv, TypeOK
<1>3. CASE \E p \in Procs : Commit(p) /\ ~CommitReplay(p)
  BY <1>1, <1>3, CommitIsTransaction DEF Transaction, Finish
<1> QED BY <1>1, <1>2, <1>3 DEF Next, vars, Call, Peek, EvaluateBudget, CommitReplay, Crash, ghosts

\* A step that moves one call on keeps the repeated calls answered if that one
\* is, or had not been.
LEMMA MoveRepeats ==
    ASSUME IInv, RepeatsAnswered, [Next]_vars, NEW p \in Procs, NEW d,
           call' = [call EXCEPT ![p] = d],
           \/ AnsweredAtOnce(d)
           \/ d.again = call[p].again /\ d.req = call[p].req /\ call[p].pc # "reply"
    PROVE  RepeatsAnswered'
<1> SUFFICES ASSUME NEW q \in Procs
             PROVE  AnsweredAtOnce(call[q])'
  BY DEF RepeatsAnswered
<1>1. \A r \in Requests : r.key # None => told[Slot(r)] \subseteq told'[Slot(r)]
  BY SlotInSlots, ToldGrows
<1>2. AnsweredAtOnce(call[p])
  BY DEF RepeatsAnswered
<1>3. CASE q = p
  <2>1. call'[q] = d
    BY <1>3 DEF IInv, TypeOK
  <2>2. CASE AnsweredAtOnce(d)
    BY <1>1, <2>1, <2>2 DEF AnsweredAtOnce, HashOf, Slot
  <2>3. CASE d.again = call[p].again /\ d.req = call[p].req /\ call[p].pc # "reply"
    BY <1>2, <2>1, <2>3 DEF AnsweredAtOnce
  <2> QED BY <2>2, <2>3
<1>4. CASE q # p
  <2>1. call'[q] = call[q]
    BY <1>4 DEF IInv, TypeOK
  <2>2. AnsweredAtOnce(call[q])
    BY DEF RepeatsAnswered
  <2> QED BY <1>1, <2>1, <2>2 DEF AnsweredAtOnce, HashOf, Slot
<1> QED BY <1>3, <1>4

\* A call of a tool that probes early, repeated after a client was told its
\* result, is answered with it in its first step.
LEMMA CallRepeats ==
    ASSUME IInv, Once, RepeatsAnswered, [Next]_vars,
           NEW p \in Procs, NEW r \in Requests, NEW x \in 0 .. MaxRev, Call(p, r, x)
    PROVE  RepeatsAnswered'
<1> DEFINE hash == [req |-> r, exp |-> x]
           again == r.key # None /\ \E t \in told[Slot(r)] : t.hash = hash
           c == [Idle EXCEPT !.pc = FirstStep(r), !.req = r, !.exp = x, !.again = again]
           d == IF Probes(r) /\ Classify(Slot(r), hash) # "fresh"
                THEN Answered(c, StoredAnswer(Slot(r), hash)) ELSE c
<1>1. call' = [call EXCEPT ![p] = d]
  BY DEF Call
<1>2. d.req = r /\ d.again = again /\ HashOf(d) = hash
  BY DEF Idle, Answered, HashOf
<1>3. ASSUME again, r.op # "update_memory"
      PROVE  d.pc = "reply" /\ [hash |-> hash, ans |-> d.ans] \in told[Slot(r)]
  <2>1. Slot(r) \in Slots /\ Probes(r)
    BY <1>3, SlotInSlots DEF Probes
  <2>2. PICK t \in told[Slot(r)] : t.hash = hash
    BY <1>3
  <2>3. told[Slot(r)] = {slots[Slot(r)]} /\ told[Slot(r)] \subseteq SlotRow
    BY <2>1, <2>2 DEF Once, ExactlyOnce, IInv, TypeOK
  <2>4. slots[Slot(r)] = t /\ t \in SlotRow /\ t # None
    BY <2>2, <2>3, NoneIsOutside
  <2>5. Classify(Slot(r), hash) = "replay"
    BY <2>2, <2>4 DEF Classify
  <2>6. d = Answered(c, t.ans)
    BY <2>1, <2>4, <2>5 DEF StoredAnswer
  <2>7. d.pc = "reply" /\ d.ans = t.ans
    BY <2>6 DEF Answered, Idle
  <2>8. [hash |-> hash, ans |-> t.ans] = t
    BY <2>2, <2>4 DEF SlotRow
  <2> HIDE DEF d, c
  <2> QED BY <2>2, <2>7, <2>8
<1>4. again => r.key # None
  OBVIOUS
<1> HIDE DEF d, again
<1>5. AnsweredAtOnce(d)
  BY <1>2, <1>3, <1>4 DEF AnsweredAtOnce
<1> QED BY <1>1, <1>5, MoveRepeats

\* No call repeats one that was not made.
LEMMA RepeatsInit == Init => RepeatsAnswered
BY DEF Init, RepeatsAnswered, AnsweredAtOnce, Idle

\* No step takes the answer from a repeated call.
LEMMA RepeatsStep == IInv /\ Once /\ RepeatsAnswered /\ [Next]_vars => RepeatsAnswered'
<1> SUFFICES ASSUME IInv, Once, RepeatsAnswered, [Next]_vars PROVE RepeatsAnswered'
  OBVIOUS
<1>1. CASE UNCHANGED vars
  BY <1>1 DEF vars, RepeatsAnswered, AnsweredAtOnce, HashOf, Slot
<1>2. CASE Next
  <2>1. PICK p \in Procs :
          \/ \E r \in Requests, x \in 0 .. MaxRev : Call(p, r, x)
          \/ Peek(p) \/ EvaluateBudget(p) \/ Commit(p) \/ Reply(p) \/ Crash(p)
    BY <1>2 DEF Next
  <2> DEFINE c == call[p]
             Onward(d) == d.again = c.again /\ d.req = c.req
  <2>2. c \in CallState
    BY DEF IInv, TypeOK
  <2>3. \A ans : Onward(Answered(c, ans))
    BY <2>2 DEF Answered, CallState
  <2>4. CASE \E r \in Requests, x \in 0 .. MaxRev : Call(p, r, x)
    BY <2>4, CallRepeats
  <2>5. CASE Peek(p)
    <3>1. PICK i \in c.req.ids :
            call' = [call EXCEPT ![p] =
                IF entries[i] = None THEN Answered(c, Failure("not_found"))
                ELSE IF c.req.op # "forget_memory" /\ entries[i].status \notin {"active", "archived"}
                     THEN Answered(c, Failure("invalid_state"))
                     ELSE [c EXCEPT !.seen[i] = entries[i],
                                    !.pc = IF {j \in c.req.ids : c.seen[j] = None} = {i}
                                           THEN IF c.req.op = "forget_memory" THEN "commit" ELSE "budget"
                                           ELSE "peek"]]
      BY <2>5 DEF Peek
    <3>2. \A e, pc : Onward([c EXCEPT !.seen[i] = e, !.pc = pc])
      BY <2>2 DEF CallState
    <3> HIDE DEF Onward
    <3>3. PICK d : call' = [call EXCEPT ![p] = d] /\ Onward(d)
      <4>1. CASE entries[i] = None
        BY <2>3, <3>1, <4>1
      <4>2. CASE entries[i] # None /\ c.req.op # "forget_memory" /\ entries[i].status \notin {"active", "archived"}
        BY <2>3, <3>1, <4>2
      <4>3. CASE entries[i] # None /\ (c.req.op = "forget_memory" \/ entries[i].status \in {"active", "archived"})
        BY <3>1, <3>2, <4>3
      <4> QED BY <4>1, <4>2, <4>3
    <3>4. c.pc # "reply"
      BY <2>5 DEF Peek
    <3> QED BY <3>3, <3>4, MoveRepeats DEF Onward
  <2>6. CASE EvaluateBudget(p)
    <3>1. PICK d \in {Answered(c, Failure("capacity_exceeded")), [c EXCEPT !.pc = "commit"],
                      Answered(c, Failure("duplicate_candidate"))} : call' = [call EXCEPT ![p] = d]
      BY <2>6 DEF EvaluateBudget
    <3>2. Onward([c EXCEPT !.pc = "commit"])
      BY <2>2 DEF CallState
    <3>3. Onward(d) /\ c.pc # "reply"
      BY <2>3, <2>6, <3>1, <3>2 DEF EvaluateBudget
    <3> QED BY <3>1, <3>3, MoveRepeats
  <2>7. CASE Commit(p)
    <3>1. PICK ans : call' = [call EXCEPT ![p] = Answered(c, ans)]
      BY <2>7, CommitIsTransaction DEF Transaction, Finish, CommitReplay
    <3>2. c.pc # "reply"
      BY <2>7 DEF Commit, CommitRemember, CommitUpdate, CommitCasMiss, CommitCasUpdate, CommitForget,
         CommitSupersede, CommitReplay, Fresh
    <3> QED BY <2>3, <3>1, <3>2, MoveRepeats
  <2>8. CASE Reply(p) \/ Crash(p)
    <3>1. call' = [call EXCEPT ![p] = Idle] /\ AnsweredAtOnce(Idle)
      BY <2>8 DEF Reply, Crash, Idle, AnsweredAtOnce
    <3> QED BY <3>1, MoveRepeats
  <2> QED BY <2>1, <2>4, <2>5, <2>6, <2>7, <2>8
<1> QED BY <1>1, <1>2

\* A client that repeats a call it was answered is answered the same, by
\* whatever process, whatever became of the memory; update_memory, the tool
\* that looks at the memory before its key, is not called with a key.
THEOREM RepeatsReplay ==
    ASSUME \A r \in Requests : r.op = "update_memory" => r.key = None
    PROVE  Spec => []RetryReplays
<1>1. IInv /\ RepeatsAnswered => RetryReplays
  <2> SUFFICES ASSUME IInv, RepeatsAnswered, NEW p \in Procs, call[p].pc = "reply", call[p].again
               PROVE  [hash |-> HashOf(call[p]), ans |-> call[p].ans] \in told[Slot(call[p].req)]
    BY DEF RetryReplays
  <2> QED BY DEF RepeatsAnswered, AnsweredAtOnce
<1> QED BY <1>1, InvTheorem, OnceInit, OnceStep, RepeatsInit, RepeatsStep, PTL DEF Spec

--------------------------------------------------------------------------------
(* One process *)

\* The status checks and the budget are evaluated before the transaction, so
\* they bind it only where nobody else writes in between: in one process.
Alone == \A p, q \in Procs : p = q

\* There a row is at the transaction what it was when it was peeked ...
Current(c) ==
    c.pc \in {"peek", "budget", "commit"} =>
        \A i \in Ids : c.seen[i] # None =>
            /\ entries[i] = c.seen[i]
            /\ c.req.op # "forget_memory" => entries[i].status \in {"active", "archived"}

\* ... and the budget is what it was when it was evaluated.
Weighed(c) == c.pc = "commit" /\ c.req.op # "forget_memory" => ~Exceeds(c)

AloneInv == \A p \in Procs : Current(call[p]) /\ Weighed(call[p])

\* No call has begun.
LEMMA AloneInit == Init => AloneInv
BY DEF Init, AloneInv, Current, Weighed, Idle

\* The budget is evaluated from what a call names and peeked, and the rows.
LEMMA ExceedsReads ==
    ASSUME NEW c, NEW d, c.req = d.req, c.seen = d.seen
    PROVE  Exceeds(c) = Exceeds(d)
<1>1. Others(c) = Others(d)
  BY DEF Others
<1>2. Candidate(c) = Candidate(d)
  BY DEF Candidate, UpdatePatch, Replacement
<1> QED BY <1>1, <1>2 DEF Exceeds

\* A step that leaves the rows alone leaves the outcome as it is.
LEMMA ExceedsStays ==
    ASSUME entries' = entries, NEW q \in Procs, NEW d, call'[q] = d
    PROVE  Exceeds(call[q])' = Exceeds(d)
<1>1. Others(call[q])' = Others(d)
  BY DEF Others, Live
<1>2. Candidate(call[q])' = Candidate(d)
  BY DEF Candidate, UpdatePatch, Replacement
<1> QED BY <1>1, <1>2 DEF Exceeds

\* A step that leaves the rows alone and moves the one call on.
LEMMA AloneMoves ==
    ASSUME Alone, IInv, NEW p \in Procs, NEW d, call' = [call EXCEPT ![p] = d],
           entries' = entries, Current(d), Weighed(d)
    PROVE  AloneInv'
<1> SUFFICES ASSUME NEW q \in Procs PROVE Current(call[q])' /\ Weighed(call[q])'
  BY DEF AloneInv
<1>1. call'[q] = d
  BY DEF Alone, IInv, TypeOK
<1>2. Exceeds(call[q])' = Exceeds(d)
  BY <1>1, ExceedsStays
<1> QED BY <1>1, <1>2 DEF Current, Weighed

\* A step after which the one call is over.
LEMMA AloneSettles ==
    ASSUME Alone, IInv, NEW p \in Procs, NEW d, call' = [call EXCEPT ![p] = d], d.pc \in {"idle", "reply"}
    PROVE  AloneInv'
<1> SUFFICES ASSUME NEW q \in Procs PROVE Current(call[q])' /\ Weighed(call[q])'
  BY DEF AloneInv
<1>1. call'[q] = d
  BY DEF Alone, IInv, TypeOK
<1> QED BY <1>1 DEF Current, Weighed

\* No step of the one process comes between its checks and its transaction.
LEMMA AloneStep == ASSUME Alone PROVE IInv /\ AloneInv /\ [Next]_vars => AloneInv'
<1> SUFFICES ASSUME IInv, AloneInv, [Next]_vars PROVE AloneInv'
  OBVIOUS
<1>1. CASE UNCHANGED vars
  <2> SUFFICES ASSUME NEW q \in Procs PROVE Current(call[q])' /\ Weighed(call[q])'
    BY DEF AloneInv
  <2>1. call'[q] = call[q] /\ entries' = entries
    BY <1>1 DEF vars
  <2>2. Exceeds(call[q])' = Exceeds(call[q])
    BY <2>1, ExceedsStays
  <2> QED BY <2>1, <2>2 DEF AloneInv, Current, Weighed
<1>2. CASE Next
  <2>1. PICK p \in Procs :
          \/ \E r \in Requests, x \in 0 .. MaxRev : Call(p, r, x)
          \/ Peek(p) \/ EvaluateBudget(p) \/ Commit(p) \/ Reply(p) \/ Crash(p)
    BY <1>2 DEF Next
  <2> DEFINE c == call[p]
  <2>2. c \in CallState /\ Current(c) /\ Weighed(c)
    BY DEF IInv, TypeOK, AloneInv
  <2>3. \A ans : Answered(c, ans).pc = "reply"
    BY <2>2 DEF Answered, CallState
  <2>4. ASSUME NEW r \in Requests, NEW x \in 0 .. MaxRev, Call(p, r, x)
        PROVE  AloneInv'
    <3> DEFINE hash == [req |-> r, exp |-> x]
               c0 == [Idle EXCEPT
                        !.pc = FirstStep(r), !.req = r, !.exp = x,
                        !.again = r.key # None /\ \E t \in told[Slot(r)] : t.hash = hash]
    <3>1. entries' = entries
      BY <2>4 DEF Call, tables
    <3>2. CASE Probes(r) /\ Classify(Slot(r), hash) # "fresh"
      <4>1. call' = [call EXCEPT ![p] = Answered(c0, StoredAnswer(Slot(r), hash))]
        BY <2>4, <3>2 DEF Call
      <4>2. Answered(c0, StoredAnswer(Slot(r), hash)).pc = "reply"
        BY DEF Answered, Idle
      <4> HIDE DEF c0
      <4> QED BY <4>1, <4>2, AloneSettles
    <3>3. CASE ~(Probes(r) /\ Classify(Slot(r), hash) # "fresh")
      <4>1. call' = [call EXCEPT ![p] = c0]
        BY <2>4, <3>3 DEF Call
      <4>2. Current(c0) /\ Weighed(c0)
        BY DEF Current, Weighed, Idle, FirstStep
      <4> HIDE DEF c0
      <4> QED BY <3>1, <4>1, <4>2, AloneMoves
    <3> QED BY <3>2, <3>3
  <2>5. CASE Peek(p)
    <3> DEFINE left == {i \in c.req.ids : c.seen[i] = None}
               next == IF c.req.op = "forget_memory" THEN "commit" ELSE "budget"
               read(i) == [c EXCEPT !.seen[i] = entries[i], !.pc = IF left = {i} THEN next ELSE "peek"]
    <3>1. PICK i \in left :
            call' = [call EXCEPT ![p] =
                IF entries[i] = None THEN Answered(c, Failure("not_found"))
                ELSE IF c.req.op # "forget_memory" /\ entries[i].status \notin {"active", "archived"}
                     THEN Answered(c, Failure("invalid_state"))
                     ELSE read(i)]
      BY <2>5 DEF Peek
    <3>2. i \in Ids /\ entries' = entries /\ c.pc = "peek"
      BY <2>5, RequestType DEF Peek, tables, IInv, SoundCalls, Sound
    <3>3. CASE entries[i] = None
      BY <2>3, <3>1, <3>3, AloneSettles
    <3>4. CASE entries[i] # None /\ c.req.op # "forget_memory" /\ entries[i].status \notin {"active", "archived"}
      BY <2>3, <3>1, <3>4, AloneSettles
    <3>5. CASE entries[i] # None /\ (c.req.op = "forget_memory" \/ entries[i].status \in {"active", "archived"})
      <4>1. call' = [call EXCEPT ![p] = read(i)]
        BY <3>1, <3>5
      <4>2. read(i).seen = [c.seen EXCEPT ![i] = entries[i]] /\ read(i).req = c.req
            /\ read(i).pc = IF left = {i} THEN next ELSE "peek"
        BY <2>2 DEF CallState
      <4>3. c.seen \in [Ids -> Entry \cup {None}]
        BY <2>2 DEF CallState
      <4> HIDE DEF read, left
      <4>4. Current(read(i))
        BY <2>2, <3>2, <3>5, <4>2, <4>3 DEF Current
      <4>5. Weighed(read(i))
        BY <4>2 DEF Weighed
      <4> QED BY <3>2, <4>1, <4>4, <4>5, AloneMoves
    <3> QED BY <3>3, <3>4, <3>5
  <2>6. CASE EvaluateBudget(p)
    <3>1. entries' = entries /\ c.pc = "budget"
      BY <2>6 DEF EvaluateBudget, tables
    <3>2. \/ call' = [call EXCEPT ![p] = Answered(c, Failure("capacity_exceeded"))]
          \/ call' = [call EXCEPT ![p] = Answered(c, Failure("duplicate_candidate"))]
          \/ ~Exceeds(c) /\ call' = [call EXCEPT ![p] = [c EXCEPT !.pc = "commit"]]
      BY <2>6 DEF EvaluateBudget
    <3>3. CASE ~Exceeds(c) /\ call' = [call EXCEPT ![p] = [c EXCEPT !.pc = "commit"]]
      <4> DEFINE d == [c EXCEPT !.pc = "commit"]
      <4>1. d.req = c.req /\ d.seen = c.seen /\ d.pc = "commit"
        BY <2>2 DEF CallState
      <4> HIDE DEF d
      <4>2. Current(d)
        BY <2>2, <3>1, <4>1 DEF Current
      <4>3. ~Exceeds(d)
        BY <3>3, <4>1, ExceedsReads
      <4>4. call' = [call EXCEPT ![p] = d]
        BY <3>3 DEF d
      <4> QED BY <3>1, <4>2, <4>3, <4>4, AloneMoves DEF Weighed
    <3> QED BY <2>3, <3>2, <3>3, AloneSettles
  <2>7. CASE Commit(p)
    <3>1. PICK ans : call' = [call EXCEPT ![p] = Answered(c, ans)]
      BY <2>7, CommitIsTransaction DEF Transaction, Finish, CommitReplay
    <3> QED BY <2>3, <3>1, AloneSettles
  <2>8. CASE Reply(p) \/ Crash(p)
    <3>1. call' = [call EXCEPT ![p] = Idle] /\ Idle.pc = "idle"
      BY <2>8 DEF Reply, Crash, Idle
    <3> QED BY <3>1, AloneSettles
  <2> QED BY <2>1, <2>4, <2>5, <2>6, <2>7, <2>8
<1> QED BY <1>1, <1>2

\* At the transaction of the one process every memory it names is what it was
\* when it was peeked, and its status was checked.
LEMMA CommitCurrent ==
    ASSUME IInv, AloneInv, NEW p \in Procs, Fresh(p), NEW i \in call[p].req.ids
    PROVE  /\ i \in Ids /\ entries[i] \in Entry /\ entries[i] = call[p].seen[i]
           /\ call[p].req.op # "forget_memory" => entries[i].status \in {"active", "archived"}
<1>1. call[p].pc = "commit" /\ i \in Ids /\ call[p].seen[i] # None /\ entries[i] \in Entry
  BY CommitFacts
<1>2. Current(call[p])
  BY DEF AloneInv
<1> QED BY <1>1, <1>2 DEF Current

--------------------------------------------------------------------------------
(* Statuses, in one process *)

\* No checked write touches a forgotten or superseded memory.
LEMMA RevivedByNone ==
    ASSUME Alone, IInv, AloneInv, [Next]_vars, NEW i \in Ids, entries[i] # None
    PROVE  /\ entries[i].status = "forgotten" => entries'[i].status = "forgotten"
           /\ entries[i].status = "superseded" => entries'[i].status \in {"superseded", "forgotten"}
<1>1. CASE UNCHANGED tables
  BY <1>1 DEF tables
<1>2. ASSUME NEW p \in Procs, Fresh(p), RowStep(call[p], i)
      PROVE  /\ entries[i].status = "forgotten" => entries'[i].status = "forgotten"
             /\ entries[i].status = "superseded" => entries'[i].status \in {"superseded", "forgotten"}
  <2>1. CASE Created(call[p], i)
    BY <2>1 DEF Created
  <2>2. CASE Replaced(call[p], i) \/ Edited(call[p], i)
    <3>1. i \in call[p].req.ids /\ call[p].req.op # "forget_memory"
      BY <2>2 DEF Replaced, Edited, Created, Creators
    <3> QED BY <1>2, <3>1, CommitCurrent
  <2>3. CASE Cleared(call[p], i)
    <3>1. i \in call[p].req.ids
      BY <2>3 DEF Cleared
    <3> QED BY <1>2, <2>3, <3>1, CommitCurrent, ForgottenFields DEF Cleared
  <2> QED BY <1>2, <2>1, <2>2, <2>3 DEF RowStep
<1> QED BY <1>1, <1>2, RowSteps

\* In one process a memory that was forgotten or superseded does not become
\* active or archived again, whatever sequence of calls is made.
THEOREM NeverRevivedAlone == ASSUME Alone PROVE Spec => NeverRevived
<1>1. IInv /\ AloneInv /\ [Next]_vars =>
        [\A i \in Ids : entries[i] # None =>
           /\ entries[i].status = "forgotten" => entries'[i].status = "forgotten"
           /\ entries[i].status = "superseded" => entries'[i].status \in {"superseded", "forgotten"}]_vars
  BY RevivedByNone
<1> QED BY <1>1, InvTheorem, AloneInit, AloneStep, PTL DEF Spec, NeverRevived

\* A seeded memory is active, whole and linked to none.
LEMMA SeedFields ==
    /\ SeedEntry.status = "active" /\ SeedEntry.by = None /\ SeedEntry.sup = {}
    /\ SeedEntry.chars = Size(SeedEntry.title, SeedEntry.text)
BY DEF SeedEntry, NewEntry

\* In one process an update leaves a memory with one of the two statuses that
\* it was found with.
LEMMA EditedStatus ==
    ASSUME Alone, IInv, AloneInv, NEW p \in Procs, Fresh(p), NEW i \in Ids, Edited(call[p], i)
    PROVE  /\ entries[i] \in Entry /\ entries[i] = call[p].seen[i]
           /\ entries'[i].status \in {"active", "archived"} /\ entries[i].status \in {"active", "archived"}
           /\ entries'[i].by = entries[i].by /\ entries'[i].sup = entries[i].sup
<1>1. /\ entries[i] \in Entry /\ entries[i] = call[p].seen[i]
      /\ entries[i].status \in {"active", "archived"}
  BY CommitCurrent DEF Edited
<1>2. UpdatePatch(call[p]) \in Patch /\ UpdatePatch(call[p]).by = None
      /\ UpdatePatch(call[p]).status \in {"active", "archived", None}
  BY CommitPatchFields DEF Edited
<1> QED BY <1>1, <1>2, EditedFields DEF Edited

\* No step of one process leaves a forgotten memory with a body.
LEMMA ClearedStep ==
    ASSUME Alone PROVE IInv /\ AloneInv /\ ForgottenIsCleared /\ [Next]_vars => ForgottenIsCleared'
<1> SUFFICES ASSUME IInv, AloneInv, ForgottenIsCleared, [Next]_vars, NEW i \in Ids,
                    entries'[i] # None, entries'[i].status = "forgotten"
             PROVE  entries'[i].text = 0 /\ entries'[i].chars = 0
  BY DEF ForgottenIsCleared
<1>1. CASE entries'[i] = entries[i]
  BY <1>1 DEF ForgottenIsCleared
<1>2. ASSUME NEW p \in Procs, Fresh(p), RowStep(call[p], i)
      PROVE  entries'[i].text = 0 /\ entries'[i].chars = 0
  <2>1. CASE Created(call[p], i)
    BY <1>2, <2>1, CommitFacts, ReplacementFields DEF Created
  <2>2. CASE Replaced(call[p], i)
    BY <1>2, <2>2, CommitCurrent, SupersededFields DEF Replaced, Created
  <2>3. CASE Edited(call[p], i)
    BY <1>2, <2>3, EditedStatus
  <2>4. CASE Cleared(call[p], i)
    BY <1>2, <2>4, CommitCurrent, ForgottenFields DEF Cleared
  <2> QED BY <1>1, <1>2, <2>1, <2>2, <2>3, <2>4 DEF RowStep
<1> QED BY <1>1, <1>2, RowSteps DEF tables

\* In one process a forgotten memory keeps neither body nor tags.
THEOREM ForgottenIsClearedAlone == ASSUME Alone PROVE Spec => []ForgottenIsCleared
<1>1. Init => ForgottenIsCleared
  BY SeedFields DEF Init, ForgottenIsCleared
<1> QED BY <1>1, InvTheorem, AloneInit, AloneStep, ClearedStep, PTL DEF Spec

--------------------------------------------------------------------------------
(* Replacements, in one process *)

\* ReplacedOnce needs that a memory that is replaced is not found active or
\* archived by a second call.
Links ==
    \A i \in Ids : entries[i] # None /\ entries[i].by # None =>
        entries[i].status \in {"superseded", "forgotten"}

\* What a step of one process does to the link of a memory: it is set once, when
\* the memory is superseded, and never again.
LEMMA LinkStep ==
    ASSUME Alone, IInv, AloneInv, Links, NEW p \in Procs, Fresh(p), NEW i \in Ids, entries[i] # None,
           RowStep(call[p], i)
    PROVE  \/ /\ entries'[i].by = entries[i].by
              /\ entries'[i].status \in {entries[i].status, "forgotten"} \/ entries[i].by = None
           \/ /\ entries[i].by = None /\ entries[i].status \in {"active", "archived"}
              /\ entries'[i].status = "superseded"
              /\ \E n \in Ids : Created(call[p], n) /\ entries'[i].by = n
<1>1. CASE entries'[i] = entries[i]
  BY <1>1
<1>2. CASE Created(call[p], i)
  BY <1>2 DEF Created
<1>3. CASE Replaced(call[p], i)
  <2>1. PICK n \in Ids : Created(call[p], n)
    BY <1>3 DEF Replaced
  <2>2. entries[i] \in Entry /\ entries[i].status \in {"active", "archived"} /\ i \in call[p].req.ids
    BY <1>3, CommitCurrent DEF Replaced, Created, Creators
  <2>3. entries'[i].by = n /\ entries'[i].status = "superseded"
    BY <2>1, <2>2, SupersededFields DEF Created
  <2>4. entries[i].by = None
    BY <2>2 DEF Links
  <2> QED BY <2>1, <2>2, <2>3, <2>4
<1>4. CASE Edited(call[p], i)
  BY <1>4, EditedStatus DEF Links
<1>5. CASE Cleared(call[p], i)
  BY <1>5, CommitCurrent, ForgottenFields DEF Cleared
<1> QED BY <1>1, <1>2, <1>3, <1>4, <1>5 DEF RowStep

\* No step of one process leaves a replaced memory active or archived.
LEMMA LinksStep == ASSUME Alone PROVE IInv /\ AloneInv /\ Links /\ [Next]_vars => Links'
<1> SUFFICES ASSUME IInv, AloneInv, Links, [Next]_vars,
                    NEW i \in Ids, entries'[i] # None, entries'[i].by # None
             PROVE  entries'[i].status \in {"superseded", "forgotten"}
  BY DEF Links
<1>1. CASE UNCHANGED tables
  BY <1>1 DEF tables, Links
<1>2. ASSUME NEW p \in Procs, Fresh(p), RowStep(call[p], i)
      PROVE  entries'[i].status \in {"superseded", "forgotten"}
  <2>1. CASE entries[i] = None
    <3>1. entries'[i] = entries[i] \/ Created(call[p], i)
      BY <1>2, <2>1, CommitFacts, NoneIsOutside DEF RowStep, Replaced, Edited, Cleared
    <3> QED BY <2>1, <3>1, ReplacementFields DEF Created
  <2>2. CASE entries[i] # None
    <3>1. \/ /\ entries'[i].by = entries[i].by
             /\ entries'[i].status \in {entries[i].status, "forgotten"} \/ entries[i].by = None
          \/ entries'[i].status = "superseded"
      BY <1>2, <2>2, LinkStep
    <3> QED BY <2>2, <3>1 DEF Links
  <2> QED BY <2>1, <2>2
<1> QED BY <1>1, <1>2, RowSteps

\* A step of one process that changes a link sets it, to a memory it creates.
LEMMA LinkSetOnce ==
    ASSUME Alone, IInv, AloneInv, Links, [Next]_vars,
           NEW i \in Ids, entries[i] # None, entries'[i].by # entries[i].by
    PROVE  /\ entries[i].by = None /\ entries[i].status \in {"active", "archived"}
           /\ entries'[i].status = "superseded"
           /\ entries[entries'[i].by] = None
<1>1. CASE UNCHANGED tables
  BY <1>1 DEF tables
<1>2. ASSUME NEW p \in Procs, Fresh(p), RowStep(call[p], i)
      PROVE  /\ entries[i].by = None /\ entries[i].status \in {"active", "archived"}
             /\ entries'[i].status = "superseded"
             /\ entries[entries'[i].by] = None
  BY <1>2, LinkStep DEF Created
<1> QED BY <1>1, <1>2, RowSteps

\* In one process a memory is replaced at most once, while it is active or
\* archived and by a memory that the same call creates, whatever calls
\* supersede, merge or list it.
THEOREM ReplacedOnceAlone == ASSUME Alone PROVE Spec => ReplacedOnce
<1>1. Init => Links
  BY SeedFields DEF Init, Links
<1>2. IInv /\ AloneInv /\ Links /\ [Next]_vars =>
        [\A i \in Ids : entries[i] # None /\ entries'[i].by # entries[i].by =>
           /\ entries[i].by = None /\ entries[i].status \in {"active", "archived"}
           /\ entries'[i].status = "superseded"
           /\ entries[entries'[i].by] = None]_vars
  BY LinkSetOnce
<1> QED BY <1>1, <1>2, InvTheorem, AloneInit, AloneStep, LinksStep, PTL DEF Spec, ReplacedOnce

--------------------------------------------------------------------------------
(* char_count, in one process *)

\* A row's title is one of those its history records: its latest snapshot has it.
LEMMA TitleRecorded ==
    ASSUME NEW e \in Entry, NEW H \in SUBSET Entry, Chained(e, H),
           \A h \in H : h.rev = e.rev => SameButTier(e, h)
    PROVE  \E h \in H : h.title = e.title
<1>1. e.rev \in 1 .. e.rev
  BY DEF Entry
<1>2. e.rev \in {h.rev : h \in H}
  BY <1>1, NoneIsOutside DEF Chained
<1>3. PICK h \in H : h.rev = e.rev
  BY <1>2
<1>4. [e EXCEPT !.tier = h.tier] = h
  BY <1>3 DEF SameButTier
<1>5. [e EXCEPT !.tier = h.tier].title = e.title
  BY DEF Entry
<1> QED BY <1>4, <1>5

\* History is only added to.
LEMMA HistoryStays ==
    ASSUME IInv, [Next]_vars, NEW i \in Ids
    PROVE  history[i] \subseteq history'[i]
<1>1. ASSUME NEW p \in Procs, Transaction(p) PROVE history[i] \subseteq history'[i]
  BY <1>1 DEF Transaction, Write
<1> QED BY <1>1, TransactionOrQuiet DEF tables

\* An update that sets the text counts it together with the title it found; one
\* that does not leaves text and count alone.
LEMMA EditedCounted ==
    ASSUME Alone, IInv, AloneInv, NEW p \in Procs, Fresh(p), NEW i \in Ids, Edited(call[p], i)
    PROVE  \/ entries'[i].chars = Size(entries[i].title, entries'[i].text)
           \/ entries'[i].chars = entries[i].chars /\ entries'[i].text = entries[i].text
<1> DEFINE c == call[p]
           q == UpdatePatch(c)
<1>1. entries[i] \in Entry /\ entries[i] = c.seen[i]
  BY EditedStatus
<1>2. q \in Patch /\ q.by = None /\ q.status \in {"active", "archived", None}
  BY CommitPatchFields DEF Edited
<1>3. c.req \in Requests /\ c.req.patch \in Patch /\ c.req.patch.chars = None
  BY CommitFacts, RequestType, RequestsAssumption DEF Request, Edited
<1>4. q.chars = IF q.text # None THEN Size(entries[i].title, q.text) ELSE None
  BY <1>1, <1>3 DEF UpdatePatch, Patch, Edited
<1>5. entries'[i] \in {UpdatedRow(entries[i], q), CasUpdatedRow(entries[i], q)}
  BY DEF Edited
<1> HIDE DEF q
<1>6. /\ entries'[i].text = Given(q.text, entries[i].text)
      /\ entries'[i].chars = Given(q.chars, entries[i].chars)
  BY <1>1, <1>2, <1>5, EditedFields
<1>7. q.text # None => Size(entries[i].title, q.text) # None
  BY <1>1, <1>2, NoneIsOutside DEF Size, Entry, Patch
<1> QED BY <1>4, <1>6, <1>7 DEF Given

\* No step of one process miscounts a memory.
LEMMA CountStep ==
    ASSUME Alone
    PROVE  IInv /\ AloneInv /\ CharCountOfATitle /\ RevisionChain /\ LatestSnapshot
           /\ IInv' /\ RevisionChain' /\ LatestSnapshot' /\ [Next]_vars => CharCountOfATitle'
<1> SUFFICES ASSUME IInv, AloneInv, CharCountOfATitle, RevisionChain, LatestSnapshot,
                    IInv', RevisionChain', LatestSnapshot', [Next]_vars,
                    NEW i \in Ids, entries'[i] # None, entries'[i].status # "forgotten"
             PROVE  \E h \in history'[i] : entries'[i].chars = Size(h.title, entries'[i].text)
  BY DEF CharCountOfATitle
<1>1. ASSUME entries[i] # None, entries[i].status # "forgotten",
             entries'[i].chars = entries[i].chars, entries'[i].text = entries[i].text
      PROVE  \E h \in history'[i] : entries'[i].chars = Size(h.title, entries'[i].text)
  <2>1. PICK h \in history[i] : entries[i].chars = Size(h.title, entries[i].text)
    BY <1>1 DEF CharCountOfATitle
  <2> QED BY <1>1, <2>1, HistoryStays
<1>2. CASE entries'[i] = entries[i]
  BY <1>1, <1>2
<1>3. ASSUME NEW p \in Procs, Fresh(p), RowStep(call[p], i)
      PROVE  \E h \in history'[i] : entries'[i].chars = Size(h.title, entries'[i].text)
  <2>1. CASE Created(call[p], i)
    <3>1. entries'[i].chars = Size(entries'[i].title, entries'[i].text)
      BY <2>1, ReplacementFields DEF Created
    <3>2. PICK h \in history'[i] : h.title = entries'[i].title
      <4>1. entries'[i] \in Entry /\ history'[i] \in SUBSET Entry
        BY DEF IInv, TypeOK
      <4> QED BY <4>1, TitleRecorded DEF RevisionChain, LatestSnapshot, Chained
    <3> QED BY <3>1, <3>2
  <2>2. CASE Replaced(call[p], i)
    <3>1. entries[i] \in Entry /\ entries[i].status \in {"active", "archived"}
      BY <1>3, <2>2, CommitCurrent DEF Replaced, Created, Creators
    <3>2. entries'[i].chars = entries[i].chars /\ entries'[i].text = entries[i].text
      BY <2>2, <3>1, SupersededFields DEF Replaced, Created
    <3> QED BY <1>1, <3>1, <3>2, NoneIsOutside
  <2>3. CASE Edited(call[p], i)
    <3>1. entries[i] \in Entry /\ entries[i].status \in {"active", "archived"} /\ entries[i] # None
      BY <1>3, <2>3, EditedStatus, NoneIsOutside
    <3>2. CASE entries'[i].chars = Size(entries[i].title, entries'[i].text)
      <4>1. PICK h \in history[i] : h.title = entries[i].title
        <5>1. history[i] \in SUBSET Entry
          BY DEF IInv, TypeOK
        <5> QED BY <3>1, <5>1, TitleRecorded DEF RevisionChain, LatestSnapshot, Chained
      <4> QED BY <3>2, <4>1, HistoryStays
    <3> QED BY <1>1, <1>3, <2>3, <3>1, <3>2, EditedCounted
  <2>4. CASE Cleared(call[p], i)
    BY <1>3, <2>4, CommitCurrent, ForgottenFields DEF Cleared
  <2> QED BY <1>2, <1>3, <2>1, <2>2, <2>3, <2>4 DEF RowStep
<1> QED BY <1>2, <1>3, RowSteps DEF tables

\* In one process char_count of a memory that was not forgotten counts the whole
\* of its text and a title it has had, through every sequence of patches, those
\* of the title included.
THEOREM CharCountAlone == ASSUME Alone PROVE Spec => []CharCountOfATitle
<1>1. Init => CharCountOfATitle
  BY SeedFields DEF Init, CharCountOfATitle
<1> QED BY <1>1, InvTheorem, ChainIsComplete, SnapshotIsLatest, AloneInit, AloneStep, CountStep, PTL DEF Spec

--------------------------------------------------------------------------------
(* The budget, in one process *)

\* CharsOf is the sum of the rows' char_count.
LEMMA CharsAreSum ==
    ASSUME NEW rows, NEW I, IsFiniteSet(I)
    PROVE  CharsOf(rows, I) = SumOf([i \in I |-> rows[i].chars], I)
BY CharsInSum DEF CharsOf, CharsIn

\* One more memory adds its characters.
LEMMA CharsAdd ==
    ASSUME NEW rows, NEW I, IsFiniteSet(I), NEW x, x \notin I, \A i \in I \cup {x} : rows[i].chars \in Nat
    PROVE  /\ CharsOf(rows, I) \in Nat
           /\ CharsOf(rows, I \cup {x}) = CharsOf(rows, I) + rows[x].chars
<1> DEFINE J == I \cup {x}
           w == [i \in J |-> rows[i].chars]
           v == [i \in I |-> rows[i].chars]
<1>1. IsFiniteSet(J)
  BY FS_AddElement
<1>2. CharsOf(rows, J) = SumOf(w, J) /\ CharsOf(rows, I) = SumOf(v, I)
  BY <1>1, CharsAreSum
<1>3. (\A i \in I : v[i] = w[i] /\ w[i] \in Nat) /\ w[x] = rows[x].chars /\ w[x] \in Nat
  OBVIOUS
<1> HIDE DEF w, v
<1>4. SumOf(v, I) = SumOf(w, I)
  BY <1>3, SumSame
<1>5. SumOf(w, I) \in Nat
  BY <1>3, SumType
<1>6. SumOf(w, I \cup {x}) = SumOf(w, I) + w[x]
  BY <1>3, SumAdd
<1> QED BY <1>2, <1>3, <1>4, <1>5, <1>6

\* Fewer memories have no more characters.
LEMMA CharsSubset ==
    ASSUME NEW rows, NEW I, IsFiniteSet(I), \A i \in I : rows[i].chars \in Nat, NEW T \in SUBSET I
    PROVE  CharsOf(rows, T) <= CharsOf(rows, I) /\ CharsOf(rows, T) \in Nat /\ CharsOf(rows, I) \in Nat
<1> DEFINE w == [i \in I |-> rows[i].chars]
           v == [i \in T |-> rows[i].chars]
<1>1. IsFiniteSet(T)
  BY FS_Subset
<1>2. CharsOf(rows, I) = SumOf(w, I) /\ CharsOf(rows, T) = SumOf(v, T)
  BY <1>1, CharsAreSum
<1>3. (\A i \in I : w[i] \in Nat) /\ \A i \in T : v[i] = w[i] /\ w[i] \in Nat
  OBVIOUS
<1> HIDE DEF w, v
<1>4. SumOf(v, T) = SumOf(w, T)
  BY <1>1, <1>3, SumSame
<1>5. SumOf(w, T) <= SumOf(w, I) /\ SumOf(w, T) \in Nat /\ SumOf(w, I) \in Nat
  BY <1>1, <1>3, SumSubset, SumType
<1> QED BY <1>2, <1>4, <1>5

\* Two tables that agree on char_count agree on the sum.
LEMMA CharsSame ==
    ASSUME NEW rows, NEW others, NEW I, IsFiniteSet(I), \A i \in I : rows[i].chars = others[i].chars
    PROVE  CharsOf(rows, I) = CharsOf(others, I)
<1>1. [i \in I |-> rows[i].chars] = [i \in I |-> others[i].chars]
  OBVIOUS
<1> QED BY <1>1, CharsAreSum

Active(rows) == {i \in Ids : Live(rows[i])}

\* A step that leaves active at most what was active before.
LEMMA BudgetShrinks ==
    ASSUME IsFiniteSet(Ids), IInv, WithinBudget, Active(entries') \subseteq Active(entries),
           \A i \in Active(entries') : entries'[i] = entries[i]
    PROVE  WithinBudget'
<1> DEFINE A == Active(entries)
           B == Active(entries')
<1>1. Cardinality(A) <= MaxEntries /\ CharsOf(entries, A) <= MaxChars
  BY DEF WithinBudget, Active
<1>2. IsFiniteSet(A) /\ IsFiniteSet(B) /\ Cardinality(B) <= Cardinality(A)
      /\ Cardinality(A) \in Nat /\ Cardinality(B) \in Nat
  <2>1. IsFiniteSet(A)
    BY FS_Subset DEF Active
  <2> QED BY <2>1, FS_Subset, FS_CardinalityType
<1>3. \A i \in A : entries[i].chars \in Nat
  BY DEF Active, Live, IInv, TypeOK, Entry
<1>4. CharsOf(entries', B) = CharsOf(entries, B)
  BY <1>2, CharsSame
<1>5. CharsOf(entries, B) <= CharsOf(entries, A) /\ CharsOf(entries, B) \in Nat /\ CharsOf(entries, A) \in Nat
  BY <1>2, <1>3, CharsSubset
<1>6. Cardinality(B) <= MaxEntries /\ CharsOf(entries', B) <= MaxChars
  BY <1>1, <1>2, <1>4, <1>5, BoundsAssumption
<1> QED BY <1>6 DEF WithinBudget, Active

\* A step that leaves active some memories it did not touch, and at most one
\* more that fits beside them.
LEMMA BudgetFits ==
    ASSUME IsFiniteSet(Ids), IInv, IInv', NEW O \in SUBSET Active(entries), NEW x \in Ids, x \notin O,
           \A i \in O : entries'[i] = entries[i],
           Active(entries') \subseteq O \cup {x},
           Cardinality(O) <= MaxEntries, CharsOf(entries, O) <= MaxChars,
           Live(entries'[x]) =>
               /\ Cardinality(O) + 1 <= MaxEntries
               /\ CharsOf(entries, O) + entries'[x].chars <= MaxChars
    PROVE  WithinBudget'
<1> DEFINE B == Active(entries')
<1>1. IsFiniteSet(O) /\ IsFiniteSet(O \cup {x}) /\ Cardinality(O) \in Nat
      /\ Cardinality(O \cup {x}) = Cardinality(O) + 1
  <2>1. IsFiniteSet(O)
    BY FS_Subset DEF Active
  <2> QED BY <2>1, FS_AddElement, FS_CardinalityType
<1>2. \A i \in O : entries'[i].chars \in Nat
  BY DEF Active, Live, IInv, TypeOK, Entry
<1>3. CharsOf(entries', O) = CharsOf(entries, O)
  BY <1>1, CharsSame
<1>4. CASE Live(entries'[x])
  <2>1. entries'[x].chars \in Nat
    BY <1>4 DEF Live, IInv, TypeOK, Entry
  <2>2. CharsOf(entries', O \cup {x}) = CharsOf(entries', O) + entries'[x].chars
    BY <1>1, <1>2, <2>1, CharsAdd
  <2>3. B \in SUBSET (O \cup {x}) /\ \A i \in O \cup {x} : entries'[i].chars \in Nat
    BY <1>2, <2>1
  <2> HIDE DEF B
  <2>4. /\ Cardinality(B) <= Cardinality(O) + 1 /\ Cardinality(B) \in Nat
        /\ CharsOf(entries', B) <= CharsOf(entries', O \cup {x})
        /\ CharsOf(entries', B) \in Nat /\ CharsOf(entries', O \cup {x}) \in Nat
    BY <1>1, <2>3, CharsSubset, FS_Subset, FS_CardinalityType
  <2>5. Cardinality(B) <= MaxEntries /\ CharsOf(entries', B) <= MaxChars
    BY <1>1, <1>3, <1>4, <2>2, <2>4, BoundsAssumption
  <2> QED BY <2>5 DEF WithinBudget, Active, B
<1>5. CASE ~Live(entries'[x])
  <2>1. B \in SUBSET O
    BY <1>5 DEF Active
  <2> HIDE DEF B
  <2>2. /\ Cardinality(B) <= Cardinality(O) /\ Cardinality(B) \in Nat
        /\ CharsOf(entries', B) <= CharsOf(entries', O)
        /\ CharsOf(entries', B) \in Nat /\ CharsOf(entries', O) \in Nat
    BY <1>1, <1>2, <2>1, CharsSubset, FS_Subset, FS_CardinalityType
  <2>3. Cardinality(B) <= MaxEntries /\ CharsOf(entries', B) <= MaxChars
    BY <1>1, <1>3, <2>2, BoundsAssumption
  <2> QED BY <2>3 DEF WithinBudget, Active, B
<1> QED BY <1>4, <1>5

\* What the one process weighs a call against is everything active that the
\* call does not name.
LEMMA OthersAreUnnamed ==
    ASSUME IInv, AloneInv, NEW p \in Procs, Fresh(p), call[p].req.op # "forget_memory"
    PROVE  Others(call[p]) = Active(entries) \ call[p].req.ids
<1>1. \A i \in call[p].req.ids : entries[i] = call[p].seen[i]
  BY CommitCurrent
<1> QED BY <1>1 DEF Others, Active

\* A call that was not refused leaves room for what it was about to store.
LEMMA Room ==
    ASSUME IsFiniteSet(Ids), IInv, NEW c, ~Exceeds(c), Candidate(c).chars \in Nat,
           NEW O, O = Others(c), O \subseteq Active(entries)
    PROVE  /\ Cardinality(O) <= MaxEntries /\ CharsOf(entries, O) <= MaxChars
           /\ Candidate(c).status = "active" =>
                /\ Cardinality(O) + 1 <= MaxEntries
                /\ CharsOf(entries, O) + Candidate(c).chars <= MaxChars
<1> DEFINE m == IF Candidate(c).status = "active" THEN 1 ELSE 0
           k == Candidate(c).chars
<1>1. Cardinality(O) + m <= MaxEntries /\ CharsOf(entries, O) + m * k <= MaxChars
  <2>1. ~(Cardinality(O) + m > MaxEntries) /\ ~(CharsOf(entries, O) + m * k > MaxChars)
    BY DEF Exceeds
  <2>2. IsFiniteSet(O) /\ \A i \in O : entries[i].chars \in Nat
    BY FS_Subset DEF Active, Live, IInv, TypeOK, Entry
  <2>3. Cardinality(O) \in Nat /\ CharsOf(entries, O) \in Nat
    BY <2>2, CharsSubset, FS_CardinalityType
  <2>4. m * k \in Nat /\ m \in Nat
    OBVIOUS
  <2> HIDE DEF m, k
  <2> QED BY <2>1, <2>3, <2>4, BoundsAssumption
<1>2. IsFiniteSet(O) /\ \A i \in O : entries[i].chars \in Nat
  BY FS_Subset DEF Active, Live, IInv, TypeOK, Entry
<1>3. Cardinality(O) \in Nat /\ CharsOf(entries, O) \in Nat
  BY <1>2, CharsSubset, FS_CardinalityType
<1>4. CASE Candidate(c).status = "active"
  <2>1. m = 1 /\ m * k = k
    BY <1>4
  <2> HIDE DEF m
  <2> QED BY <1>1, <1>3, <2>1, BoundsAssumption
<1>5. CASE Candidate(c).status # "active"
  <2>1. m = 0 /\ m * k = 0
    BY <1>5
  <2> HIDE DEF m
  <2> QED BY <1>1, <1>3, <1>5, <2>1, BoundsAssumption
<1> QED BY <1>4, <1>5

\* The budget binds remember, supersede and merge.
LEMMA CreatedFits ==
    ASSUME Alone, IsFiniteSet(Ids), IInv, IInv', AloneInv, WithinBudget, NEW p \in Procs, Fresh(p),
           NEW n \in Ids, Created(call[p], n),
           \A i \in Ids : RowStep(call[p], i),
           \A i \in Ids : Created(call[p], i) => i = n
    PROVE  WithinBudget'
<1> DEFINE c == call[p]
           O == Active(entries) \ c.req.ids
<1>1. c.req.op \in Creators /\ c.req.op # "forget_memory" /\ c.req.op # "update_memory"
  BY DEF Created, Creators
<1>2. c.req \in Requests /\ c.req.ids \subseteq Ids /\ c.pc = "commit"
      /\ \A i \in c.req.ids : entries[i] \in Entry
  BY CommitFacts
<1>3. Candidate(c) = Replacement(c) /\ entries'[n] = Replacement(c)
  BY <1>1 DEF Candidate, Created
<1>4. Replacement(c).chars \in Nat
  <2>1. c.req.patch.title \in Nat /\ c.req.patch.text \in Nat
    BY <1>1, <1>2, RequestType
  <2>2. Replacement(c).chars = c.req.patch.title + c.req.patch.text
    BY ReplacementFields DEF Size
  <2> QED BY <2>1, <2>2
<1>5. ~Exceeds(c) /\ Others(c) = O
  BY <1>1, <1>2, OthersAreUnnamed DEF AloneInv, Weighed
<1>6. /\ Cardinality(O) <= MaxEntries /\ CharsOf(entries, O) <= MaxChars
      /\ Live(entries'[n]) =>
            Cardinality(O) + 1 <= MaxEntries /\ CharsOf(entries, O) + entries'[n].chars <= MaxChars
  <2>1. O \subseteq Active(entries)
    OBVIOUS
  <2> HIDE DEF O
  <2> QED BY <1>3, <1>4, <1>5, <2>1, Room DEF Live
<1>7. \A i \in c.req.ids : entries'[i].status = "superseded"
  <2> SUFFICES ASSUME NEW i \in c.req.ids PROVE entries'[i].status = "superseded"
    OBVIOUS
  <2>1. entries[i] \in Entry /\ entries'[i] = UpdatedRow(entries[i], Superseding(n))
    BY <1>2 DEF Created
  <2> QED BY <2>1, SupersededFields
<1>8. \A i \in Ids : i = n \/ i \in c.req.ids \/ entries'[i] = entries[i]
  <2> SUFFICES ASSUME NEW i \in Ids, i # n, i \notin c.req.ids PROVE entries'[i] = entries[i]
    OBVIOUS
  <2>1. ~Created(c, i) /\ ~Replaced(c, i) /\ ~Edited(c, i) /\ ~Cleared(c, i)
    BY DEF Replaced, Edited, Cleared
  <2> QED BY <2>1 DEF RowStep
<1>9. O \in SUBSET Active(entries) /\ n \notin O /\ \A i \in O : entries'[i] = entries[i]
  <2>1. entries[n] = None
    BY DEF Created
  <2> QED BY <1>8, <2>1 DEF Active, Live
<1>10. Active(entries') \subseteq O \cup {n}
  BY <1>7, <1>8 DEF Active, Live
<1> HIDE DEF O
<1> QED BY <1>6, <1>9, <1>10, BudgetFits

\* It binds an update, which may bring an archived memory back.
LEMMA EditedFits ==
    ASSUME Alone, IsFiniteSet(Ids), IInv, IInv', AloneInv, WithinBudget, NEW p \in Procs, Fresh(p),
           NEW t \in Ids, Edited(call[p], t),
           \A i \in Ids : RowStep(call[p], i)
    PROVE  WithinBudget'
<1> DEFINE c == call[p]
           O == Active(entries) \ c.req.ids
<1>1. c.req.op = "update_memory" /\ c.req.ids = {t} /\ Target(c.req) = t
  BY DEF Edited
<1>2. c.pc = "commit" /\ entries[t] \in Entry /\ entries[t] = c.seen[t]
  BY <1>1, CommitFacts, CommitCurrent
<1>3. UpdatePatch(c) \in Patch /\ UpdatePatch(c).by = None /\ UpdatePatch(c).status \in {"active", "archived", None}
  BY <1>1, CommitPatchFields
<1>4. Candidate(c) = UpdatedRow(entries[t], UpdatePatch(c))
  BY <1>1, <1>2 DEF Candidate, Creators, UpdatedRow
<1>5. /\ entries'[t].status = Candidate(c).status /\ entries'[t].chars = Candidate(c).chars
      /\ Candidate(c).chars \in Nat
  <2>1. entries'[t] \in {UpdatedRow(entries[t], UpdatePatch(c)), CasUpdatedRow(entries[t], UpdatePatch(c))}
    BY DEF Edited
  <2>2. /\ entries'[t].status = Given(UpdatePatch(c).status, entries[t].status)
        /\ entries'[t].chars = Given(UpdatePatch(c).chars, entries[t].chars)
    BY <1>2, <1>3, <2>1, EditedFields
  <2>3. /\ Candidate(c).status = Given(UpdatePatch(c).status, entries[t].status)
        /\ Candidate(c).chars = Given(UpdatePatch(c).chars, entries[t].chars)
    BY <1>2, <1>3, <1>4, EditedFields
  <2>4. Given(UpdatePatch(c).chars, entries[t].chars) \in Nat
    BY <1>2, <1>3 DEF Given, Patch, Entry
  <2> QED BY <2>2, <2>3, <2>4
<1>6. ~Exceeds(c) /\ Others(c) = O
  BY <1>1, <1>2, OthersAreUnnamed DEF AloneInv, Weighed
<1>7. /\ Cardinality(O) <= MaxEntries /\ CharsOf(entries, O) <= MaxChars
      /\ Candidate(c).status = "active" =>
            /\ Cardinality(O) + 1 <= MaxEntries
            /\ CharsOf(entries, O) + Candidate(c).chars <= MaxChars
  <2>1. O \subseteq Active(entries)
    OBVIOUS
  <2> HIDE DEF O
  <2> QED BY <1>5, <1>6, <2>1, Room
<1>8. \A i \in Ids : i = t \/ entries'[i] = entries[i]
  <2> SUFFICES ASSUME NEW i \in Ids, i # t PROVE entries'[i] = entries[i]
    OBVIOUS
  <2>1. ~Created(c, i) /\ ~Replaced(c, i) /\ ~Edited(c, i) /\ ~Cleared(c, i)
    BY <1>1 DEF Replaced, Edited, Cleared, Created, Creators
  <2> QED BY <2>1 DEF RowStep
<1>9. O \in SUBSET Active(entries) /\ t \notin O /\ \A i \in O : entries'[i] = entries[i]
  BY <1>1, <1>8 DEF Active
<1>10. Active(entries') \subseteq O \cup {t}
  BY <1>1, <1>8 DEF Active, Live
<1>11. Live(entries'[t]) => Cardinality(O) + 1 <= MaxEntries /\ CharsOf(entries, O) + entries'[t].chars <= MaxChars
  BY <1>5, <1>7 DEF Live
<1> HIDE DEF O
<1> QED BY <1>7, <1>9, <1>10, <1>11, BudgetFits

\* No step of the one process takes the active memories past the budget.
LEMMA BudgetKept ==
    ASSUME Alone, IsFiniteSet(Ids)
    PROVE  IInv /\ AloneInv /\ WithinBudget /\ [Next]_vars => WithinBudget'
<1> SUFFICES ASSUME IInv, AloneInv, WithinBudget, [Next]_vars PROVE WithinBudget'
  OBVIOUS
<1>0. IInv'
  BY NextInv
<1>1. CASE UNCHANGED tables
  <2>1. entries' = entries
    BY <1>1 DEF tables
  <2> QED BY <2>1, BudgetShrinks
<1>2. ASSUME NEW p \in Procs, Fresh(p), \A i \in Ids : RowStep(call[p], i),
             \A i, j \in Ids : Created(call[p], i) /\ Created(call[p], j) => i = j
      PROVE  WithinBudget'
  <2>1. CASE \E n \in Ids : Created(call[p], n)
    BY <1>0, <1>2, <2>1, CreatedFits
  <2>2. CASE \E t \in Ids : Edited(call[p], t)
    BY <1>0, <1>2, <2>2, EditedFits
  <2>3. CASE ~(\E n \in Ids : Created(call[p], n)) /\ ~(\E t \in Ids : Edited(call[p], t))
    <3>1. \A i \in Ids : entries'[i] = entries[i] \/ Cleared(call[p], i)
      BY <1>2, <2>3 DEF RowStep, Replaced
    <3>2. \A i \in Ids : Cleared(call[p], i) => entries'[i].status = "forgotten"
      <4> SUFFICES ASSUME NEW i \in Ids, Cleared(call[p], i) PROVE entries'[i].status = "forgotten"
        OBVIOUS
      <4>1. entries[i] \in Entry
        BY <1>2, CommitFacts DEF Cleared
      <4> QED BY <4>1, ForgottenFields DEF Cleared
    <3> QED BY <3>1, <3>2, BudgetShrinks DEF Active, Live
  <2> QED BY <2>1, <2>2, <2>3
<1> QED BY <1>1, <1>2, RowSteps

\* In one process no call pushes the active memories past the budget, if they
\* were within it at the start.
THEOREM WithinBudgetAlone ==
    ASSUME Alone, IsFiniteSet(Ids)
    PROVE  Spec /\ WithinBudget => []WithinBudget
<1> QED BY InvTheorem, AloneInit, AloneStep, BudgetKept, PTL DEF Spec

================================================================================
