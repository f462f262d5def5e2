------------------------- MODULE MaintenancePlansProofs -------------------------
(***************************************************************************)
(* Theorems about MaintenancePlans, for every set of memories, plans,      *)
(* processes and keys.                                                     *)
(*                                                                         *)
(* An apply reads the plan and the revisions some statements before its    *)
(* transaction, and answers some statements after it.  What it answers is  *)
(* right because a plan leaves state pending once and for all: PlanSound   *)
(* says what is known of a plan in each state, CallSound what a call in    *)
(* progress may rely on.                                                   *)
(***************************************************************************)
EXTENDS MaintenancePlans, FiniteSetTheorems, WellFoundedInduction, TLAPS

\* Groups to merge: sets of memories that share none.
Apart(groups) ==
    /\ \A g \in groups : g # {} /\ g \subseteq Ids
    /\ \A g, h \in groups : g # h => g \cap h = {}

\* A plan that is pending has merged nothing, a completed one all; whoever was
\* told ok came with the key the plan was completed with.
PlanSound(q) ==
    /\ plans[q] = None => merged[q] = {} /\ okKeys[q] = {}
    /\ plans[q] # None => Apart(plans[q].merges)
    /\ Destructive(q) =>
        /\ plans[q].state = "pending" => merged[q] = {} /\ okKeys[q] = {}
        /\ plans[q].state = "completed" => merged[q] = Losers(plans[q])
        /\ merged[q] \in {{}, Losers(plans[q])}
        /\ okKeys[q] # {} => merged[q] = Losers(plans[q])
        /\ okKeys[q] \subseteq {plans[q].key}

Applying == {"peek", "validate", "mark", "apply", "reply"}

\* A call that plans has the revisions it has read; a call that applies names a
\* plan that exists, and says ok only of a plan that has been merged under its
\* key.
CallSound(c) ==
    /\ c.pc \in {"revisions", "create"} =>
        Apart(c.merges) /\ \A i \in ((UNION c.merges) \cup c.advice) \ c.todo : c.revs[i] \in Revs
    /\ c.pc \in {"revisions", "peek"} => c.todo # {}
    /\ c.pc = "create" => c.todo = {}
    /\ c.pc \in Applying => c.plan \in Plans /\ plans[c.plan] # None /\ c.key \in Keys
    /\ c.pc = "apply" => plans[c.plan].merges # {}
    /\ c.pc = "mark" => c.mark # "none" /\ c.ans # "ok"
    /\ c.pc = "reply" /\ c.ans = "ok" /\ Destructive(c.plan) =>
        /\ plans[c.plan].state # "pending"
        /\ merged[c.plan] = Losers(plans[c.plan])
        /\ plans[c.plan].key = c.key

\* Only rows that are still active have room for another write.
RowsBounded ==
    \A i \in Ids : entries[i].rev \in Revs /\ (Live(entries[i]) => entries[i].rev <= MaxRev)

PlansSound == \A q \in Plans : PlanSound(q)
CallsSound == \A p \in Procs : CallSound(call[p])

IInv == TypeOK /\ RowsBounded /\ PlansSound /\ CallsSound

--------------------------------------------------------------------------------
(* Shapes *)

\* None is no plan, key, row or memory, and no status.
LEMMA NoneIsOutside ==
    /\ None \notin Ids /\ None \notin Nat /\ None \notin Statuses /\ None \notin Entry
    /\ None \notin Plans /\ None \notin Keys /\ None \notin PlanRow /\ None \notin Tiers
BY NoneAssumption, NoneIsNoStatus, NoneIsNoRow, NoneIsNoPlan, PlansAssumption

\* A set of memories has an oldest one.
LEMMA OldestExists ==
    ASSUME NEW S, S \subseteq Ids, S # {}
    PROVE  Min(S) \in S /\ \A i \in S : Min(S) <= i
<1> DEFINE R == OpToRel(<, Nat)
<1>1. IsWellFoundedOn(R, Nat) /\ S \subseteq Nat
  BY NatLessThanWellFounded, PlansAssumption
<1>2. \A x, y \in Nat : y < x => <<y, x>> \in R
  BY DEF OpToRel
<1> HIDE DEF R
<1>3. PICK x \in S : \A y \in S : ~ (<<y, x>> \in R)
  BY <1>1, WFMin
<1>4. \A y \in S : ~(y < x)
  BY <1>1, <1>2, <1>3
<1>5. \A y \in S : x <= y
  BY <1>1, <1>4
<1> QED BY <1>5 DEF Min

\* The kept memory of a group is one of the group.
LEMMA KeptInGroup ==
    ASSUME NEW groups, Apart(groups), NEW g \in groups
    PROVE  Kept(g) \in g /\ Kept(g) \in Ids
BY OldestExists DEF Apart, Kept

\* What is superseded is planned, and no group keeps what another loses.
LEMMA LosersPlanned ==
    ASSUME NEW row, Apart(row.merges)
    PROVE  /\ Losers(row) \subseteq UNION row.merges /\ Losers(row) \subseteq Ids
           /\ \A i \in Losers(row) :
                /\ KeptFor(row, i) \in UNION row.merges /\ KeptFor(row, i) \in Ids
                /\ KeptFor(row, i) \notin Losers(row)
<1>1. Losers(row) \subseteq UNION row.merges
  BY DEF Losers
<1>2. UNION row.merges \subseteq Ids
  BY DEF Apart
<1>3. ASSUME NEW i \in Losers(row)
      PROVE  /\ KeptFor(row, i) \in UNION row.merges /\ KeptFor(row, i) \in Ids
             /\ KeptFor(row, i) \notin Losers(row)
  <2>1. PICK g : g \in row.merges /\ i \in g /\ KeptFor(row, i) = Kept(g)
    <3>1. \E g \in row.merges : i \in g
      BY DEF Losers
    <3> QED BY <3>1 DEF KeptFor
  <2>2. Kept(g) \in g /\ Kept(g) \in Ids
    BY <2>1, KeptInGroup
  <2>3. ASSUME NEW h \in row.merges, Kept(g) \in h \ {Kept(h)} PROVE FALSE
    BY <2>1, <2>2, <2>3 DEF Apart
  <2> QED BY <2>1, <2>2, <2>3 DEF Losers
<1> QED BY <1>1, <1>2, <1>3

\* The memories of some groups are memories.
LEMMA Members ==
    ASSUME NEW groups, groups \subseteq SUBSET Ids, NEW ids, ids \subseteq Ids
    PROVE  (UNION groups) \cup ids \in SUBSET Ids
<1>1. ASSUME NEW i \in UNION groups PROVE i \in Ids
  <2>1. PICK g \in groups : i \in g
    OBVIOUS
  <2>2. g \in SUBSET Ids
    OBVIOUS
  <2> QED BY <2>1, <2>2
<1> QED BY <1>1

\* A patched row is a row, at the next revision.
LEMMA PatchedType ==
    ASSUME NEW e \in Entry, NEW q \in Patch
    PROVE  /\ UpdatedRow(e, q) \in Entry /\ UpdatedRow(e, q).rev = e.rev + 1
           /\ UpdatedRow(e, q).status = Given(q.status, e.status)
           /\ UpdatedRow(e, q).by = Given(q.by, e.by)
BY NoneIsOutside DEF Entry, Patch, Patched, UpdatedRow, Given

\* The patches of the model are patches.
LEMMA PatchTypes ==
    /\ Forgetting \in Patch /\ Forgetting.status = "forgotten" /\ Forgetting.by = None
    /\ \A t \in Texts : /\ [NoPatch EXCEPT !.text = t] \in Patch
                        /\ [NoPatch EXCEPT !.text = t].status = None
                        /\ [NoPatch EXCEPT !.text = t].by = None
    /\ \A i \in Ids : /\ Superseding(i) \in Patch /\ Superseding(i).status = "superseded"
                      /\ Superseding(i).by = i
<1>1. NoPatch \in Patch /\ NoPatch.by = None /\ NoPatch.status = None
  BY DEF NoPatch, Patch
<1>2. \A t \in Texts : t \in Nat
  BY PlansAssumption
<1> QED BY <1>1, <1>2 DEF Forgetting, Superseding, Patch, Statuses

\* A process that runs no call is well-formed and sound.
LEMMA IdleSound == Idle \in CallState /\ Idle.pc = "idle" /\ CallSound(Idle)
BY DEF Idle, CallState, PCs, Answers, CallSound, Applying

\* A call that is answered.
LEMMA AnsweredType ==
    ASSUME NEW c \in CallState, NEW ans \in Answers
    PROVE  /\ Answered(c, ans) \in CallState
           /\ Answered(c, ans).pc = "reply" /\ Answered(c, ans).ans = ans
           /\ Answered(c, ans).plan = c.plan /\ Answered(c, ans).key = c.key
BY DEF Answered, CallState, PCs

--------------------------------------------------------------------------------
(* What a step does to the plans *)

\* Plans stay, their groups stay, and a plan that is no longer pending keeps
\* its key and what was merged under it.
PlansStay ==
    \A q \in Plans : plans[q] # None =>
        /\ plans'[q] # None /\ plans'[q].merges = plans[q].merges
        /\ plans[q].state # "pending" =>
            /\ plans'[q].state # "pending" /\ plans'[q].key = plans[q].key
            /\ merged'[q] = merged[q]

\* A call relies on no less after a step of another.
LEMMA CallKept ==
    ASSUME PlansStay, NEW c \in CallState, CallSound(c)
    PROVE  CallSound(c)'
BY DEF PlansStay, CallSound, Applying, Destructive, Losers, Revs

\* The invariant holds after a step that keeps the tables sound, if the one
\* call that moves is sound.
LEMMA CallMoves ==
    ASSUME IInv, PlansStay, PlansSound', RowsBounded',
           entries' \in [Ids -> Entry], plans' \in [Plans -> PlanRow \cup {None}],
           merged' \in [Plans -> SUBSET Ids], okKeys' \in [Plans -> SUBSET Keys],
           NEW p \in Procs, NEW c \in CallState, CallSound(c)', call' = [call EXCEPT ![p] = c]
    PROVE  IInv'
<1>1. TypeOK'
  BY DEF IInv, TypeOK
<1>2. ASSUME NEW r \in Procs PROVE CallSound(call[r])'
  <2>1. PICK x \in CallState : x = call[r] /\ CallSound(x)
    BY DEF IInv, TypeOK, CallsSound
  <2>2. call'[r] = IF r = p THEN c ELSE x
    BY <2>1 DEF IInv, TypeOK
  <2>3. CASE r = p
    BY <2>2, <2>3 DEF CallSound
  <2>4. CASE r # p
    BY <2>1, <2>2, <2>4, CallKept DEF CallSound
  <2> QED BY <2>3, <2>4
<1> QED BY <1>1, <1>2 DEF IInv, CallsSound

\* The same of a step that moves a call and leaves the tables alone.
LEMMA CallOnly ==
    ASSUME IInv, UNCHANGED <<entries, plans, merged, okKeys>>,
           NEW p \in Procs, NEW c \in CallState, CallSound(c), call' = [call EXCEPT ![p] = c]
    PROVE  IInv'
<1>1. PlansStay
  BY DEF PlansStay
<1>2. PlansSound' /\ RowsBounded'
  BY DEF IInv, PlansSound, PlanSound, RowsBounded, Destructive, Losers
<1>3. CallSound(c)'
  BY <1>1, CallKept
<1> QED BY <1>1, <1>2, <1>3, CallMoves DEF IInv, TypeOK

\* The same of a step in which no call moves.
LEMMA NoCallMoves ==
    ASSUME IInv, PlansStay, PlansSound', RowsBounded',
           entries' \in [Ids -> Entry], plans' \in [Plans -> PlanRow \cup {None}],
           UNCHANGED <<call, merged, okKeys>>
    PROVE  IInv'
<1>1. TypeOK'
  BY DEF IInv, TypeOK
<1>2. ASSUME NEW r \in Procs PROVE CallSound(call[r])'
  <2>1. PICK x \in CallState : x = call[r] /\ CallSound(x)
    BY DEF IInv, TypeOK, CallsSound
  <2> QED BY <2>1, CallKept DEF CallSound
<1> QED BY <1>1, <1>2 DEF IInv, CallsSound

\* What is known of a call before its step.
LEMMA CallAt ==
    ASSUME IInv, NEW p \in Procs
    PROVE  call[p] \in CallState /\ CallSound(call[p])
BY DEF IInv, TypeOK, CallsSound

--------------------------------------------------------------------------------
(* plan_maintenance *)

\* Two groups of identical memories are the same or share none.
LEMMA DuplicatesApart == Apart(Duplicates) /\ Duplicates \subseteq SUBSET Ids /\ Advice \subseteq Ids
<1>1. \A g \in Duplicates : \E i \in Active : g = {j \in Active : Same(i, j)}
  BY DEF Duplicates
<1>2. Active \subseteq Ids
  BY DEF Active
<1>3. \A g \in Duplicates : g # {} /\ g \subseteq Ids
  BY <1>1, <1>2 DEF Same
<1>4. ASSUME NEW g \in Duplicates, NEW h \in Duplicates, NEW k \in g \cap h
      PROVE  g = h
  <2>1. PICK i \in Active : g = {j \in Active : Same(i, j)}
    BY <1>1
  <2>2. PICK l \in Active : h = {j \in Active : Same(l, j)}
    BY <1>1
  <2>3. Same(i, k) /\ Same(l, k)
    BY <2>1, <2>2
  <2>4. \A j : Same(i, j) <=> Same(l, j)
    BY <2>3 DEF Same
  <2> QED BY <2>1, <2>2, <2>4
<1> QED BY <1>2, <1>3, <1>4 DEF Apart, Advice

\* Listing the memories.
LEMMA ScanInv ==
    ASSUME IInv, NEW p \in Procs, Scan(p)
    PROVE  IInv'
<1>1. PICK m, a : m = Duplicates /\ a = Advice \ UNION Duplicates
  OBVIOUS
<1>2. Apart(m) /\ m \subseteq SUBSET Ids /\ a \subseteq Ids /\ UNION m \subseteq Ids
  BY <1>1, DuplicatesApart
<1> DEFINE c == [[Idle EXCEPT !.merges = m, !.advice = a] EXCEPT
                   !.todo = (UNION m) \cup a,
                   !.pc = IF (UNION m) \cup a = {} THEN "create" ELSE "revisions"]
<1>3. call' = [call EXCEPT ![p] = c] /\ UNCHANGED <<entries, plans, merged, okKeys>>
  BY <1>1 DEF Scan, Goes, Idle
<1>4. c \in CallState
  <2>1. m \in SUBSET SUBSET Ids /\ a \in SUBSET Ids
    BY <1>2
  <2>2. (UNION m) \cup a \in SUBSET Ids
    BY <1>2, Members
  <2> QED BY <2>1, <2>2, IdleSound DEF CallState, PCs
<1>5. CallSound(c)
  BY <1>2 DEF CallSound, Idle, Applying
<1> HIDE DEF c
<1> QED BY <1>3, <1>4, <1>5, CallOnly

\* One read of a revision, by either handler.
LEMMA ReadType ==
    ASSUME IInv, NEW p \in Procs, NEW next \in {"create", "validate"}, ReadRevision(p, next),
           call[p].pc = IF next = "create" THEN "revisions" ELSE "peek",
           UNCHANGED <<entries, plans, merged, okKeys>>
    PROVE  IInv'
<1>1. PICK x \in CallState : x = call[p] /\ CallSound(x)
  BY CallAt
<1>2. x.todo # {} /\ x.todo \subseteq Ids
  BY <1>1 DEF CallSound, CallState
<1>3. PICK i \in x.todo : i = Min(x.todo)
  BY <1>2, OldestExists
<1>4. PICK n : n = entries[i].rev /\ n \in Revs
  BY <1>2, <1>3 DEF IInv, RowsBounded
<1> DEFINE c == [x EXCEPT !.revs[i] = n, !.todo = @ \ {i},
                          !.pc = IF x.todo = {i} THEN next ELSE @]
<1>5. call' = [call EXCEPT ![p] = c]
  BY <1>1, <1>3, <1>4 DEF ReadRevision, Goes
<1>6. c \in CallState
  BY <1>2, <1>4 DEF CallState, PCs
<1>7. CallSound(c)
  <2>1. c.merges = x.merges /\ c.advice = x.advice /\ c.todo = x.todo \ {i}
        /\ c.plan = x.plan /\ c.key = x.key
        /\ c.pc = IF x.todo = {i} THEN next ELSE x.pc
    BY DEF CallState
  <2>2. \A j \in Ids : c.revs[j] = IF j = i THEN n ELSE x.revs[j]
    BY DEF CallState
  <2>3. CASE next = "create"
    <3>1. x.merges \subseteq SUBSET Ids /\ x.advice \subseteq Ids
      BY DEF CallState
    <3>2. ASSUME NEW j \in (UNION x.merges) \cup x.advice, j \notin x.todo \ {i}
          PROVE  c.revs[j] \in Revs
      <4>1. j \in Ids /\ x.pc = "revisions"
        BY <1>1, <2>3, <3>1, <3>2, Members
      <4>2. CASE j = i
        BY <1>4, <2>2, <4>1, <4>2
      <4>3. CASE j # i
        BY <1>1, <2>2, <3>2, <4>1, <4>3 DEF CallSound
      <4> QED BY <4>2, <4>3
    <3> HIDE DEF c
    <3> QED BY <1>1, <2>1, <2>3, <3>2 DEF CallSound, Applying
  <2>4. CASE next = "validate"
    <3> HIDE DEF c
    <3> QED BY <1>1, <2>1, <2>4 DEF CallSound, Applying
  <2> QED BY <2>3, <2>4
<1> HIDE DEF c
<1> QED BY <1>5, <1>6, <1>7, CallOnly

\* Reading a revision for a plan.
LEMMA ReadRevisionsInv ==
    ASSUME IInv, NEW p \in Procs, ReadRevisions(p)
    PROVE  IInv'
BY ReadType DEF ReadRevisions

\* Reading a revision for an apply.
LEMMA PeekRevisionsInv ==
    ASSUME IInv, NEW p \in Procs, PeekRevisions(p)
    PROVE  IInv'
BY ReadType DEF PeekRevisions

\* Storing a plan.  The plans whose time is up are flipped; none of the others
\* moves.
LEMMA CreatePlanInv ==
    ASSUME IInv, NEW p \in Procs, CreatePlan(p)
    PROVE  IInv'
<1>1. PICK x \in CallState : x = call[p] /\ CallSound(x)
  BY CallAt
<1> DEFINE row == [state |-> "pending", due |-> FALSE, key |-> None, merges |-> x.merges,
                   items |-> [i \in (UNION x.merges) \cup x.advice |-> x.revs[i]]]
           flip(r) == IF r # None /\ r.state = "pending" /\ r.due
                      THEN [r EXCEPT !.state = "expired"] ELSE r
<1>2. PICK new \in Plans :
        plans[new] = None /\ plans' = [q \in Plans |-> IF q = new THEN row ELSE flip(plans[q])]
  BY <1>1 DEF CreatePlan
<1>3. x.pc = "create" /\ call' = [call EXCEPT ![p] = Idle] /\ UNCHANGED <<entries, merged, okKeys>>
  BY <1>1 DEF CreatePlan, Goes
<1>4. row \in PlanRow /\ Apart(row.merges) /\ row.state = "pending"
  <2>1. Apart(x.merges) /\ \A i \in (UNION x.merges) \cup x.advice : x.revs[i] \in Revs
    BY <1>1, <1>3 DEF CallSound
  <2>2. x.merges \in SUBSET SUBSET Ids /\ (UNION x.merges) \cup x.advice \in SUBSET Ids
    BY Members DEF CallState
  <2>3. PICK I \in SUBSET Ids : I = (UNION x.merges) \cup x.advice
    BY <2>2
  <2>4. [i \in I |-> x.revs[i]] \in [I -> Revs]
    BY <2>1, <2>3
  <2> QED BY <2>1, <2>2, <2>3, <2>4 DEF PlanRow, PlanStates
<1>5. ASSUME NEW q \in Plans, plans[q] # None
      PROVE  /\ flip(plans[q]) \in PlanRow /\ flip(plans[q]) # None
             /\ flip(plans[q]).merges = plans[q].merges /\ flip(plans[q]).key = plans[q].key
             /\ \/ flip(plans[q]).state = plans[q].state
                \/ plans[q].state = "pending" /\ flip(plans[q]).state = "expired"
  <2>1. plans[q] \in PlanRow
    BY <1>5 DEF IInv, TypeOK
  <2> QED BY <2>1, NoneIsOutside DEF PlanRow, PlanStates
<1> HIDE DEF row, flip
<1>6. row # None
  BY <1>4, NoneIsOutside
<1>7. plans' \in [Plans -> PlanRow \cup {None}]
  <2>1. \A q \in Plans : flip(plans[q]) \in PlanRow \cup {None}
    BY <1>5 DEF flip, IInv, TypeOK
  <2> QED BY <1>2, <1>4, <2>1
<1>8. PlansStay
  BY <1>2, <1>3, <1>5 DEF PlansStay
<1>9. ASSUME NEW q \in Plans PROVE PlanSound(q)'
  <2>1. PlanSound(q)
    BY DEF IInv, PlansSound
  <2>2. CASE q = new
    <3>1. plans'[q] = row /\ merged'[q] = {} /\ okKeys'[q] = {}
      BY <1>2, <1>3, <2>1, <2>2 DEF PlanSound
    <3> QED BY <1>4, <1>6, <3>1 DEF PlanSound, Destructive
  <2>3. CASE q # new /\ plans[q] = None
    <3>1. plans'[q] = None
      BY <1>2, <2>3 DEF flip
    <3> QED BY <1>3, <2>1, <2>3, <3>1 DEF PlanSound, Destructive
  <2>4. CASE q # new /\ plans[q] # None
    <3>1. plans'[q] = flip(plans[q])
      BY <1>2, <2>4
    <3> QED BY <1>3, <1>5, <2>1, <2>4, <3>1 DEF PlanSound, Destructive, Losers
  <2> QED BY <2>2, <2>3, <2>4
<1>10. RowsBounded' /\ CallSound(Idle)'
  BY <1>3 DEF IInv, RowsBounded, CallSound, Idle, Applying
<1> QED BY <1>3, <1>7, <1>8, <1>9, <1>10, IdleSound, CallMoves DEF IInv, TypeOK, PlansSound

--------------------------------------------------------------------------------
(* apply_maintenance *)

\* Reading a plan.
LEMMA GetPlanInv ==
    ASSUME IInv, NEW p \in Procs, NEW q \in Plans, NEW k \in Keys, GetPlan(p, q, k)
    PROVE  IInv'
<1>1. plans[q] \in PlanRow /\ plans[q] # None
  BY DEF GetPlan, IInv, TypeOK
<1>2. PICK found \in SUBSET Ids : found = DOMAIN plans[q].items
  BY <1>1 DEF PlanRow
<1> DEFINE c == [Idle EXCEPT !.plan = q, !.key = k, !.todo = found,
                             !.pc = IF found = {} THEN "validate" ELSE "peek"]
<1>3. call' = [call EXCEPT ![p] = c] /\ UNCHANGED <<entries, plans, merged, okKeys>>
  BY <1>2 DEF GetPlan, Goes
<1>4. c \in CallState
  BY IdleSound DEF CallState, PCs
<1>5. CallSound(c)
  BY <1>1 DEF CallSound, Idle, Applying
<1> HIDE DEF c
<1> QED BY <1>3, <1>4, <1>5, CallOnly

\* A call is answered ok only of a plan with nothing to merge, or of one that
\* was completed with its key.
LEMMA ValidateInv ==
    ASSUME IInv, NEW p \in Procs, Validate(p)
    PROVE  IInv'
<1>1. PICK x \in CallState : x = call[p] /\ CallSound(x)
  BY CallAt
<1>2. x.pc = "validate" /\ x.plan \in Plans /\ plans[x.plan] # None /\ x.key \in Keys
  BY <1>1 DEF Validate, CallSound, Applying
<1>3. PICK row \in PlanRow : row = plans[x.plan]
  BY <1>2 DEF IInv, TypeOK
<1>4. PlanSound(x.plan)
  BY <1>2 DEF IInv, PlansSound
<1>5. PICK c : c = Verdict(x, row)
  OBVIOUS
<1>6. call' = [call EXCEPT ![p] = c] /\ UNCHANGED <<entries, plans, merged, okKeys>>
  BY <1>1, <1>3, <1>5 DEF Validate, Goes
<1>7. \/ \E s \in {"rejected", "expired"}, a \in Answers \ {"ok"} : c = Marking(x, s, a)
      \/ \E a \in Answers \ {"ok"} : c = Answered(x, a)
      \/ c = Answered(x, "ok") /\ row.state = "completed" /\ row.key = x.key
      \/ c = Answered(x, "ok") /\ row.merges = {}
      \/ c = [x EXCEPT !.pc = "apply"] /\ row.merges # {}
  BY <1>5 DEF Verdict, Replayed, Answers
<1>8. CASE \E s \in {"rejected", "expired"}, a \in Answers \ {"ok"} : c = Marking(x, s, a)
  <2>1. PICK s \in {"rejected", "expired"}, a \in Answers \ {"ok"} : c = Marking(x, s, a)
    BY <1>8
  <2>2. c \in CallState /\ c.pc = "mark" /\ c.mark # "none" /\ c.ans # "ok"
        /\ c.plan = x.plan /\ c.key = x.key
    BY <2>1 DEF Marking, CallState, PCs
  <2> QED BY <1>2, <1>6, <2>2, CallOnly DEF CallSound, Applying
<1>9. CASE \E a \in Answers \ {"ok"} : c = Answered(x, a)
  <2>1. PICK a \in Answers \ {"ok"} : c = Answered(x, a)
    BY <1>9
  <2>2. c \in CallState /\ c.pc = "reply" /\ c.ans # "ok" /\ c.plan = x.plan /\ c.key = x.key
    BY <2>1, AnsweredType
  <2> QED BY <1>2, <1>6, <2>2, CallOnly DEF CallSound, Applying
<1>10. ASSUME c = Answered(x, "ok")
       PROVE  c \in CallState /\ c.pc = "reply" /\ c.plan = x.plan /\ c.key = x.key
  BY <1>10, AnsweredType DEF Answers
<1>11. CASE c = Answered(x, "ok") /\ row.state = "completed" /\ row.key = x.key
  <2>1. Destructive(x.plan) => merged[x.plan] = Losers(plans[x.plan])
    BY <1>3, <1>4, <1>11 DEF PlanSound
  <2> QED BY <1>2, <1>3, <1>6, <1>11, <1>10, <2>1, CallOnly DEF CallSound, Applying
<1>12. CASE c = Answered(x, "ok") /\ row.merges = {}
  BY <1>2, <1>3, <1>6, <1>12, <1>10, CallOnly DEF CallSound, Applying, Destructive
<1>13. CASE c = [x EXCEPT !.pc = "apply"] /\ row.merges # {}
  <2>1. c \in CallState /\ c.pc = "apply" /\ c.plan = x.plan /\ c.key = x.key
    BY <1>13 DEF CallState, PCs
  <2> QED BY <1>2, <1>3, <1>6, <1>13, <2>1, CallOnly DEF CallSound, Applying
<1> QED BY <1>7, <1>8, <1>9, <1>11, <1>12, <1>13

\* A plan is rejected or expired, whatever its state was.
LEMMA MarkInv ==
    ASSUME IInv, NEW p \in Procs, Mark(p)
    PROVE  IInv'
<1>1. PICK x \in CallState : x = call[p] /\ CallSound(x)
  BY CallAt
<1>2. x.pc = "mark" /\ x.plan \in Plans /\ plans[x.plan] # None /\ x.key \in Keys
      /\ x.mark \in {"rejected", "expired"} /\ x.ans \in Answers \ {"ok"}
  BY <1>1 DEF Mark, CallSound, Applying, CallState
<1>3. PICK row \in PlanRow : row = plans[x.plan]
  BY <1>2 DEF IInv, TypeOK
<1> DEFINE new == [row EXCEPT !.state = x.mark]
<1>4. new \in PlanRow /\ new.state \in {"rejected", "expired"} /\ new.merges = row.merges
      /\ new.key = row.key
  BY <1>2 DEF PlanRow, PlanStates
<1>5. plans' = [plans EXCEPT ![x.plan] = new] /\ UNCHANGED <<entries, merged, okKeys>>
  BY <1>1, <1>3 DEF Mark, IInv, TypeOK
<1> HIDE DEF new
<1>6. PICK c \in CallState : c.pc = "reply" /\ c.ans = x.ans /\ c.plan = x.plan /\ c.key = x.key
                             /\ call' = [call EXCEPT ![p] = c]
  BY <1>1, <1>2, AnsweredType DEF Mark, Goes
<1>7. new # None /\ plans' \in [Plans -> PlanRow \cup {None}]
      /\ \A q \in Plans : plans'[q] = IF q = x.plan THEN new ELSE plans[q]
  BY <1>4, <1>5, NoneIsOutside DEF IInv, TypeOK
<1>8. PlansStay
  BY <1>3, <1>4, <1>5, <1>7 DEF PlansStay
<1>9. ASSUME NEW q \in Plans PROVE PlanSound(q)'
  <2>1. PlanSound(q)
    BY DEF IInv, PlansSound
  <2>2. CASE q = x.plan
    BY <1>2, <1>3, <1>4, <1>5, <1>7, <2>1, <2>2 DEF PlanSound, Destructive, Losers
  <2>3. CASE q # x.plan
    BY <1>5, <1>7, <2>1, <2>3 DEF PlanSound, Destructive, Losers
  <2> QED BY <2>2, <2>3
<1>10. CallSound(c)'
  BY <1>2, <1>6, <1>7 DEF CallSound, Applying
<1> QED BY <1>5, <1>6, <1>7, <1>8, <1>9, <1>10, CallMoves DEF IInv, TypeOK, PlansSound, RowsBounded

\* The transaction.  It finds the plan pending, so nothing has been merged
\* under it, and merges all of it.
LEMMA ApplyPlanInv ==
    ASSUME IInv, NEW p \in Procs, ApplyPlan(p)
    PROVE  IInv'
<1>1. PICK x \in CallState : x = call[p] /\ CallSound(x)
  BY CallAt
<1>2. x.pc = "apply" /\ x.plan \in Plans /\ plans[x.plan] # None /\ x.key \in Keys
      /\ plans[x.plan].merges # {}
  BY <1>1 DEF ApplyPlan, CallSound, Applying
<1>3. PICK row \in PlanRow : row = plans[x.plan]
  BY <1>2 DEF IInv, TypeOK
<1>4. PlanSound(x.plan) /\ Destructive(x.plan) /\ row.state = "pending" /\ Mergeable(row)
  BY <1>1, <1>2, <1>3 DEF IInv, PlansSound, ApplyPlan, Destructive
<1>5. PICK lost \in SUBSET Ids : lost = Losers(row)
  BY <1>2, <1>3, <1>4, LosersPlanned DEF PlanSound
<1> DEFINE new == [row EXCEPT !.state = "completed", !.key = x.key]
<1>6. new \in PlanRow /\ new.state = "completed" /\ new.merges = row.merges /\ new.key = x.key
  BY <1>2 DEF PlanRow, PlanStates
<1>7. plans' = [plans EXCEPT ![x.plan] = new] /\ merged' = [merged EXCEPT ![x.plan] = lost]
      /\ UNCHANGED okKeys
  <2>1. merged[x.plan] = {}
    BY <1>3, <1>4 DEF PlanSound
  <2>2. plans' = [plans EXCEPT ![x.plan] = [plans[x.plan] EXCEPT !.state = "completed", !.key = x.key]]
    BY <1>1 DEF ApplyPlan
  <2>3. merged' = [merged EXCEPT ![x.plan] = merged[x.plan] \cup lost] /\ UNCHANGED okKeys
    BY <1>1, <1>3, <1>5 DEF ApplyPlan
  <2> QED BY <1>3, <2>1, <2>2, <2>3
<1> HIDE DEF new
<1>8. PICK c \in CallState : c.pc = "reply" /\ c.ans = "ok" /\ c.plan = x.plan /\ c.key = x.key
                             /\ call' = [call EXCEPT ![p] = c]
  BY <1>1, AnsweredType DEF ApplyPlan, Goes, Answers
<1>9. new # None /\ plans' \in [Plans -> PlanRow \cup {None}]
      /\ (\A q \in Plans : plans'[q] = IF q = x.plan THEN new ELSE plans[q])
      /\ merged' \in [Plans -> SUBSET Ids]
      /\ (\A q \in Plans : merged'[q] = IF q = x.plan THEN lost ELSE merged[q])
  BY <1>6, <1>7, NoneIsOutside DEF IInv, TypeOK
<1>10. Losers(new) = lost
  BY <1>5, <1>6 DEF Losers
<1>11. PlansStay
  BY <1>3, <1>4, <1>6, <1>9 DEF PlansStay
<1>12. ASSUME NEW q \in Plans PROVE PlanSound(q)'
  <2>1. PlanSound(q)
    BY DEF IInv, PlansSound
  <2>2. CASE q = x.plan
    <3>1. okKeys'[q] = {} /\ Apart(new.merges)
      BY <1>2, <1>3, <1>4, <1>6, <1>7, <2>2 DEF PlanSound
    <3>2. plans'[q] = new /\ merged'[q] = lost
      BY <1>9, <2>2
    <3> QED BY <1>6, <1>9, <1>10, <3>1, <3>2 DEF PlanSound, Destructive
  <2>3. CASE q # x.plan
    BY <1>7, <1>9, <2>1, <2>3 DEF PlanSound, Destructive, Losers
  <2> QED BY <2>2, <2>3
<1>13. ASSUME NEW i \in Ids
       PROVE  entries'[i] \in Entry /\ entries'[i].rev \in Revs
              /\ (Live(entries'[i]) => entries'[i].rev <= MaxRev)
  <2>1. entries[i] \in Entry /\ entries[i].rev \in Revs
        /\ (Live(entries[i]) => entries[i].rev <= MaxRev)
    BY DEF IInv, TypeOK, RowsBounded
  <2>2. CASE i \in lost
    <3>1. entries'[i] = UpdatedRow(entries[i], Superseding(KeptFor(row, i)))
      BY <1>1, <1>3, <1>5, <2>2 DEF ApplyPlan
    <3>2. KeptFor(row, i) \in Ids /\ i \in UNION row.merges
      BY <1>2, <1>3, <1>4, <1>5, <2>2, LosersPlanned DEF PlanSound
    <3>3. Live(entries[i])
      BY <1>4, <3>2 DEF Mergeable
    <3>4. entries'[i] \in Entry /\ entries'[i].rev = entries[i].rev + 1
          /\ entries'[i].status = "superseded"
      BY <2>1, <3>1, <3>2, PatchTypes, PatchedType, NoneIsNoStatus DEF Given, Statuses
    <3> QED BY <2>1, <3>3, <3>4, PlansAssumption DEF Live, Revs
  <2>3. CASE i \notin lost
    <3>1. entries'[i] = entries[i]
      BY <1>1, <1>3, <1>5, <2>3 DEF ApplyPlan
    <3> QED BY <2>1, <3>1
  <2> QED BY <2>2, <2>3
<1>14. entries' \in [Ids -> Entry]
  BY <1>13 DEF ApplyPlan
<1>15. RowsBounded'
  BY <1>13 DEF RowsBounded, Live
<1>16. CallSound(c)'
  <2>1. plans'[x.plan] = new /\ merged'[x.plan] = lost
    BY <1>2, <1>9
  <2> QED BY <1>2, <1>6, <1>8, <1>9, <1>10, <2>1 DEF CallSound, Applying
<1> QED BY <1>7, <1>8, <1>9, <1>11, <1>12, <1>14, <1>15, <1>16, CallMoves
        DEF IInv, TypeOK, PlansSound

\* A rolled-back transaction.
LEMMA ApplyFailsInv ==
    ASSUME IInv, NEW p \in Procs, ApplyFails(p)
    PROVE  IInv'
<1>1. PICK x \in CallState : x = call[p] /\ CallSound(x)
  BY CallAt
<1>2. x.plan \in Plans /\ plans[x.plan] # None /\ x.key \in Keys
  BY <1>1 DEF ApplyFails, CallSound, Applying
<1>3. PICK a \in {"failed", "stale_revision"} :
        call' = [call EXCEPT ![p] = Answered(x, a)] /\ UNCHANGED <<entries, plans, merged, okKeys>>
  BY <1>1 DEF ApplyFails, Goes
<1>4. PICK c \in CallState : c.pc = "reply" /\ c.ans # "ok" /\ c.plan = x.plan /\ c.key = x.key
                             /\ c = Answered(x, a)
  BY AnsweredType DEF Answers
<1>5. CallSound(c)
  BY <1>2, <1>4 DEF CallSound, Applying
<1> QED BY <1>3, <1>4, <1>5, CallOnly

\* An answer.  One that says ok comes with the key of the plan.
LEMMA ReplyInv ==
    ASSUME IInv, NEW p \in Procs, Reply(p)
    PROVE  IInv'
<1>1. PICK x \in CallState : x = call[p] /\ CallSound(x)
  BY CallAt
<1>2. x.pc = "reply" /\ x.plan \in Plans /\ plans[x.plan] # None /\ x.key \in Keys
  BY <1>1 DEF Reply, CallSound, Applying
<1>3. call' = [call EXCEPT ![p] = Idle] /\ UNCHANGED <<entries, plans, merged>>
  BY <1>1 DEF Reply, Goes
<1>4. \A q \in Plans : okKeys'[q] = IF q = x.plan /\ x.ans = "ok" THEN okKeys[q] \cup {x.key} ELSE okKeys[q]
  BY <1>1 DEF Reply, IInv, TypeOK
<1>5. okKeys' \in [Plans -> SUBSET Keys]
  BY <1>1, <1>2 DEF Reply, IInv, TypeOK
<1>6. PlansStay
  BY <1>3 DEF PlansStay
<1>7. ASSUME NEW q \in Plans PROVE PlanSound(q)'
  <2>1. PlanSound(q)
    BY DEF IInv, PlansSound
  <2>2. CASE q = x.plan /\ x.ans = "ok"
    <3>1. okKeys'[q] = okKeys[q] \cup {x.key}
      BY <1>4, <2>2
    <3>2. Destructive(q) =>
            plans[q].state # "pending" /\ merged[q] = Losers(plans[q]) /\ plans[q].key = x.key
      BY <1>1, <1>2, <2>2 DEF CallSound
    <3> QED BY <1>2, <1>3, <2>1, <2>2, <3>1, <3>2 DEF PlanSound, Destructive, Losers
  <2>3. CASE ~(q = x.plan /\ x.ans = "ok")
    BY <1>3, <1>4, <2>1, <2>3 DEF PlanSound, Destructive, Losers
  <2> QED BY <2>2, <2>3
<1>8. RowsBounded' /\ CallSound(Idle)'
  BY <1>3 DEF IInv, RowsBounded, CallSound, Idle, Applying
<1> QED BY <1>3, <1>5, <1>6, <1>7, <1>8, IdleSound, CallMoves DEF IInv, TypeOK, PlansSound

\* A call that is lost.
LEMMA CrashInv ==
    ASSUME IInv, NEW p \in Procs, Crash(p)
    PROVE  IInv'
BY IdleSound, CallOnly DEF Crash, Goes

--------------------------------------------------------------------------------
(* Everyone else *)

\* A write of another service.
LEMMA OtherWriteInv ==
    ASSUME IInv, NEW i \in Ids, OtherWrite(i)
    PROVE  IInv'
<1>1. PICK patch \in {[NoPatch EXCEPT !.text = t] : t \in Texts} \cup {Forgetting} :
        entries' = [entries EXCEPT ![i] = UpdatedRow(entries[i], patch)]
  BY DEF OtherWrite
<1>2. patch \in Patch
  BY <1>1, PatchTypes
<1>3. \A j \in Ids : /\ entries[j] \in Entry /\ entries[j].rev \in Revs
                      /\ (Live(entries[j]) => entries[j].rev <= MaxRev)
  BY DEF IInv, TypeOK, RowsBounded
<1>4. entries[i].rev < MaxRev /\ UNCHANGED <<plans, call, merged, okKeys>>
  BY DEF OtherWrite
<1>5. UpdatedRow(entries[i], patch) \in Entry /\ UpdatedRow(entries[i], patch).rev = entries[i].rev + 1
  BY <1>2, <1>3, PatchedType
<1>6. entries' \in [Ids -> Entry]
  BY <1>1, <1>5 DEF IInv, TypeOK
<1>7. ASSUME NEW j \in Ids
      PROVE  entries'[j].rev \in Revs /\ (Live(entries'[j]) => entries'[j].rev <= MaxRev)
  <2>1. CASE j = i
    <3>1. entries'[j].rev = entries[i].rev + 1
      BY <1>1, <1>5, <2>1 DEF IInv, TypeOK
    <3> QED BY <1>3, <1>4, <3>1, PlansAssumption DEF Revs
  <2>2. CASE j # i
    BY <1>1, <1>3, <2>2 DEF IInv, TypeOK
  <2> QED BY <2>1, <2>2
<1>8. RowsBounded'
  BY <1>7 DEF RowsBounded, Live
<1>9. PlansStay /\ PlansSound'
  BY <1>4 DEF IInv, PlansStay, PlansSound, PlanSound, Destructive, Losers
<1> QED BY <1>4, <1>6, <1>8, <1>9, NoCallMoves DEF IInv, TypeOK

\* The time of a plan is up; nothing else of it changes.
LEMMA TimeOutInv ==
    ASSUME IInv, NEW q \in Plans, TimeOut(q)
    PROVE  IInv'
<1>1. PICK row \in PlanRow : row = plans[q]
  BY DEF TimeOut, IInv, TypeOK
<1> DEFINE new == [row EXCEPT !.due = TRUE]
<1>2. new \in PlanRow /\ new.state = row.state /\ new.merges = row.merges /\ new.key = row.key
  BY DEF PlanRow
<1>3. plans' = [plans EXCEPT ![q] = new] /\ UNCHANGED <<entries, call, merged, okKeys>>
  BY <1>1 DEF TimeOut
<1> HIDE DEF new
<1>4. new # None /\ plans[q] # None /\ plans' \in [Plans -> PlanRow \cup {None}]
      /\ \A r \in Plans : plans'[r] = IF r = q THEN new ELSE plans[r]
  BY <1>2, <1>3, NoneIsOutside DEF IInv, TypeOK, TimeOut
<1>5. PlansStay
  BY <1>1, <1>2, <1>3, <1>4 DEF PlansStay
<1>6. ASSUME NEW r \in Plans PROVE PlanSound(r)'
  <2>1. PlanSound(r)
    BY DEF IInv, PlansSound
  <2>2. CASE r = q
    BY <1>1, <1>2, <1>3, <1>4, <2>1, <2>2 DEF PlanSound, Destructive, Losers
  <2>3. CASE r # q
    BY <1>3, <1>4, <2>1, <2>3 DEF PlanSound, Destructive, Losers
  <2> QED BY <2>2, <2>3
<1> QED BY <1>3, <1>4, <1>5, <1>6, NoCallMoves DEF IInv, TypeOK, PlansSound, RowsBounded

--------------------------------------------------------------------------------
(* The theorems *)

\* Nothing is planned at the start.
LEMMA InitInv == Init => IInv
<1> SUFFICES ASSUME Init PROVE IInv
  OBVIOUS
<1>1. ASSUME NEW i \in Ids
      PROVE  NewEntry("active", Seed[i].title, Seed[i].text, Tier, {}) \in Entry
             /\ NewEntry("active", Seed[i].title, Seed[i].text, Tier, {}).rev = 1
  <2>1. Seed[i].title \in Nat /\ Seed[i].text \in Nat /\ Tier \in Tiers
    BY PlansAssumption
  <2> QED BY <2>1 DEF NewEntry, Entry, Size, Statuses
<1>2. TypeOK
  BY <1>1, IdleSound DEF Init, TypeOK
<1>3. RowsBounded
  <2>1. \A i \in Ids : entries[i].rev = 1
    BY <1>1 DEF Init
  <2>2. 1 \in Revs /\ 1 <= MaxRev
    BY PlansAssumption DEF Revs
  <2> QED BY <2>1, <2>2 DEF RowsBounded
<1>4. PlansSound
  BY DEF Init, PlansSound, PlanSound, Destructive
<1>5. CallsSound
  BY IdleSound DEF Init, CallsSound
<1> QED BY <1>2, <1>3, <1>4, <1>5 DEF IInv

\* Every step keeps the invariant.
LEMMA NextInv == IInv /\ [Next]_vars => IInv'
<1> SUFFICES ASSUME IInv, [Next]_vars PROVE IInv'
  OBVIOUS
<1>1. ASSUME NEW p \in Procs, Scan(p) PROVE IInv'
  BY <1>1, ScanInv
<1>2. ASSUME NEW p \in Procs, ReadRevisions(p) PROVE IInv'
  BY <1>2, ReadRevisionsInv
<1>3. ASSUME NEW p \in Procs, CreatePlan(p) PROVE IInv'
  BY <1>3, CreatePlanInv
<1>4. ASSUME NEW p \in Procs, NEW q \in Plans, NEW k \in Keys, GetPlan(p, q, k) PROVE IInv'
  BY <1>4, GetPlanInv
<1>5. ASSUME NEW p \in Procs, PeekRevisions(p) PROVE IInv'
  BY <1>5, PeekRevisionsInv
<1>6. ASSUME NEW p \in Procs, Validate(p) PROVE IInv'
  BY <1>6, ValidateInv
<1>7. ASSUME NEW p \in Procs, Mark(p) PROVE IInv'
  BY <1>7, MarkInv
<1>8. ASSUME NEW p \in Procs, ApplyPlan(p) PROVE IInv'
  BY <1>8, ApplyPlanInv
<1>9. ASSUME NEW p \in Procs, ApplyFails(p) PROVE IInv'
  BY <1>9, ApplyFailsInv
<1>10. ASSUME NEW p \in Procs, Reply(p) PROVE IInv'
  BY <1>10, ReplyInv
<1>11. ASSUME NEW p \in Procs, Crash(p) PROVE IInv'
  BY <1>11, CrashInv
<1>12. ASSUME NEW i \in Ids, OtherWrite(i) PROVE IInv'
  BY <1>12, OtherWriteInv
<1>13. ASSUME NEW q \in Plans, TimeOut(q) PROVE IInv'
  BY <1>13, TimeOutInv
<1>14. CASE UNCHANGED vars
  BY <1>14 DEF vars, IInv, TypeOK, RowsBounded, PlansSound, PlanSound, CallsSound, CallSound,
     Destructive, Losers, Applying, Live
<1> QED BY <1>1, <1>2, <1>3, <1>4, <1>5, <1>6, <1>7, <1>8, <1>9, <1>10, <1>11, <1>12, <1>13,
           <1>14 DEF Next

\* The inductive invariant.
THEOREM InvHolds == Spec => []IInv
BY InitInv, NextInv, PTL DEF Spec

\* Every variable keeps its type.
THEOREM TypeCorrect == Spec => []TypeOK
<1>1. IInv => TypeOK
  BY DEF IInv
<1> QED BY <1>1, InvHolds, PTL

\* A plan is merged whole or not at all (applyMaintenance's transaction), and
\* ok is answered only of a plan that has been merged.
THEOREM PlansAreWhole == Spec => []WholeOrNothing
<1>1. IInv => WholeOrNothing
  BY DEF IInv, PlansSound, PlanSound, WholeOrNothing
<1> QED BY <1>1, InvHolds, PTL

\* Of the callers that apply a plan with different idempotency keys, one at
\* most is answered ok.
THEOREM OneWinner == Spec => []OneKeyWins
<1>1. ASSUME IInv, NEW q \in Plans, Destructive(q) PROVE Cardinality(okKeys[q]) <= 1
  <2>1. okKeys[q] \subseteq {plans[q].key}
    BY <1>1 DEF IInv, PlansSound, PlanSound
  <2>2. IsFiniteSet({plans[q].key}) /\ Cardinality({plans[q].key}) = 1
    BY FS_Singleton
  <2> QED BY <2>1, <2>2, FS_Subset
<1>2. IInv => OneKeyWins
  BY <1>1 DEF OneKeyWins
<1> QED BY <1>2, InvHolds, PTL

\* What a step supersedes, and under which plan.
LEMMA MergeStep ==
    ASSUME IInv, [Next]_vars, \E q \in Plans : merged'[q] # merged[q]
    PROVE  \E p \in Procs : ApplyPlan(p)
BY DEF Next, vars, Scan, ReadRevisions, CreatePlan, GetPlan, PeekRevisions, Validate, Mark,
   ApplyFails, Reply, Crash, OtherWrite, TimeOut

\* An apply supersedes only memories still active and at the revision that
\* their plan names, and a plan is applied once (mergePlannedGroup).
THEOREM PlansKept == Spec => MergesAsPlanned
<1> DEFINE Step == \A q \in Plans : merged'[q] # merged[q] =>
        /\ merged[q] = {}
        /\ \A i \in merged'[q] : entries[i].status = "active" /\ entries[i].rev = plans[q].items[i]
<1>1. ASSUME IInv, [Next]_vars, NEW q \in Plans, merged'[q] # merged[q]
      PROVE  /\ merged[q] = {}
             /\ \A i \in merged'[q] :
                  entries[i].status = "active" /\ entries[i].rev = plans[q].items[i]
  <2>1. PICK p \in Procs : ApplyPlan(p)
    BY <1>1, MergeStep
  <2>2. PICK x \in CallState : x = call[p] /\ CallSound(x)
    BY <1>1, CallAt
  <2>3. x.plan \in Plans /\ plans[x.plan] # None /\ plans[x.plan].merges # {}
    BY <2>1, <2>2 DEF ApplyPlan, CallSound, Applying
  <2>4. merged' = [merged EXCEPT ![x.plan] = merged[x.plan] \cup Losers(plans[x.plan])]
        /\ Mergeable(plans[x.plan]) /\ plans[x.plan].state = "pending"
    BY <2>1, <2>2 DEF ApplyPlan
  <2>5. q = x.plan
    BY <1>1, <2>4 DEF IInv, TypeOK
  <2>6. merged[q] = {} /\ Apart(plans[q].merges)
    BY <1>1, <2>3, <2>4, <2>5 DEF IInv, PlansSound, PlanSound, Destructive
  <2>7. merged'[q] = Losers(plans[q]) /\ Losers(plans[q]) \subseteq UNION plans[q].merges
    BY <1>1, <2>4, <2>5, <2>6, LosersPlanned DEF IInv, TypeOK
  <2> QED BY <2>4, <2>5, <2>6, <2>7 DEF Mergeable, Live
<1>2. IInv /\ [Next]_vars => [Step]_vars
  BY <1>1
<1> QED BY <1>2, InvHolds, PTL DEF Spec, MergesAsPlanned

\* The memory that a merge keeps is active, in every group of the plan.
THEOREM KeptActive == Spec => KeptIsActive
<1> DEFINE Step == \A i \in Ids : entries[i].by # entries'[i].by => entries'[entries'[i].by].status = "active"
<1>1. ASSUME IInv, [Next]_vars, NEW i \in Ids, entries[i].by # entries'[i].by
      PROVE  entries'[entries'[i].by].status = "active"
  <2>1. entries[i] \in Entry
    BY <1>1 DEF IInv, TypeOK
  <2>2. CASE \E j \in Ids : OtherWrite(j)
    <3>1. PICK j \in Ids : OtherWrite(j)
      BY <2>2
    <3>2. PICK patch \in {[NoPatch EXCEPT !.text = t] : t \in Texts} \cup {Forgetting} :
            entries' = [entries EXCEPT ![j] = UpdatedRow(entries[j], patch)]
      BY <3>1 DEF OtherWrite
    <3>3. patch \in Patch /\ patch.by = None
      <4>1. CASE patch = Forgetting
        BY <4>1, PatchTypes
      <4>2. CASE \E t \in Texts : patch = [NoPatch EXCEPT !.text = t]
        BY <4>2, PatchTypes
      <4> QED BY <3>2, <4>1, <4>2
    <3>4. entries[j] \in Entry
      BY <1>1 DEF IInv, TypeOK
    <3>5. UpdatedRow(entries[j], patch).by = entries[j].by
      BY <3>3, <3>4, PatchedType DEF Given
    <3> QED BY <1>1, <3>2, <3>5 DEF IInv, TypeOK
  <2>3. CASE \E p \in Procs : ApplyPlan(p)
    <3>1. PICK p \in Procs : ApplyPlan(p)
      BY <2>3
    <3>2. PICK x \in CallState : x = call[p] /\ CallSound(x)
      BY <1>1, CallAt
    <3>3. PICK row : row = plans[x.plan] /\ Apart(row.merges) /\ Mergeable(row)
      BY <1>1, <3>1, <3>2 DEF ApplyPlan, CallSound, Applying, IInv, PlansSound, PlanSound
    <3>4. \A j \in Ids : entries'[j] = IF j \in Losers(row)
                           THEN UpdatedRow(entries[j], Superseding(KeptFor(row, j))) ELSE entries[j]
      BY <3>1, <3>2, <3>3 DEF ApplyPlan
    <3>5. i \in Losers(row)
      BY <1>1, <3>4
    <3>6. PICK k \in Ids : k = KeptFor(row, i) /\ k \in UNION row.merges /\ k \notin Losers(row)
      BY <3>3, <3>5, LosersPlanned
    <3>7. entries'[i].by = k
      BY <2>1, <3>4, <3>5, <3>6, PatchTypes, PatchedType, NoneIsOutside DEF Given
    <3>8. entries'[k] = entries[k] /\ Live(entries[k])
      BY <3>3, <3>4, <3>6 DEF Mergeable
    <3> QED BY <3>7, <3>8 DEF Live
  <2> QED BY <1>1, <2>2, <2>3 DEF Next, vars, Scan, ReadRevisions, CreatePlan, GetPlan, PeekRevisions,
             Validate, Mark, ApplyFails, Reply, Crash, TimeOut
<1>2. IInv /\ [Next]_vars => [Step]_vars
  BY <1>1
<1> QED BY <1>2, InvHolds, PTL DEF Spec, KeptIsActive
================================================================================
