---------------------------- MODULE MaintenancePlans ----------------------------
(***************************************************************************)
(* Maintenance plans: planMaintenance and applyMaintenance of              *)
(* src/memory-service.ts over src/maintenance-plan-store.ts.  A plan lists *)
(* groups of identical memories to merge, with the revision each one had,  *)
(* and is applied later, perhaps by another process, perhaps twice.        *)
(*                                                                         *)
(* Both handlers read outside any transaction, one statement at a time:    *)
(*   plan:  Scan (list the active memories) -> ReadRevisions -> CreatePlan *)
(*   apply: GetPlan -> PeekRevisions -> Validate -> Mark, or               *)
(*          ApplyPlan (one transaction) -> Reply                           *)
(* and the write service of any process may commit in between (OtherWrite).*)
(* A plan is in state applying only inside ApplyPlan's transaction, so     *)
(* nobody ever reads that state.                                           *)
(*                                                                         *)
(* title and text stand for contents here: equal numbers, equal contents.  *)
(* merged and okKeys are history variables that no action reads.           *)
(***************************************************************************)
EXTENDS MemoryStore, FiniteSets, FiniteSetsExt

CONSTANTS
    Procs,      \* server processes on the same database file
    Plans,      \* plan ids; bound: no call plans once all are taken
    Keys,       \* idempotency keys of apply_maintenance
    Seed,       \* the memories at the start: id -> [title, text]
    Tier,       \* their tier
    Texts,      \* what other writers may set a text to
    MaxRev      \* bound: no other writer once a row is at this revision

ASSUME PlansAssumption ==
    /\ Ids \subseteq Nat /\ IsFiniteSet(Ids) /\ Tier \in Tiers
    /\ Seed \in [Ids -> [title : Nat, text : Nat]]
    /\ Texts \subseteq Nat /\ MaxRev \in Nat \ {0}
    /\ None \notin Plans \cup Keys

VARIABLES
    entries,    \* memory_entries
    plans,      \* maintenance_plans with their items
    call,       \* the call each process is running
    merged,     \* history: the rows superseded under each plan
    okKeys      \* history: the keys whose apply was answered ok, by plan

vars == <<entries, plans, call, merged, okKeys>>

\* a merge may follow the last write of the others
Revs == 1 .. MaxRev + 1

PlanStates == {"pending", "completed", "rejected", "expired"}

\* items: the revision expected of each planned memory; merges: the groups to
\* merge; the planned memories outside every group are advisory (retain).
PlanRow ==
    [state : PlanStates, due : BOOLEAN, items : UNION {[I -> Revs] : I \in SUBSET Ids},
     merges : SUBSET SUBSET Ids, key : Keys \cup {None}]

ASSUME NoneIsNoPlan == None \notin PlanRow

Answers == {"none", "ok", "plan_expired", "idempotency_mismatch", "plan_hash_drift",
            "stale_revision", "failed"}
PCs == {"idle", "revisions", "create", "peek", "validate", "mark", "apply", "reply"}
CallState ==
    [pc : PCs, plan : Plans \cup {None}, key : Keys \cup {None}, todo : SUBSET Ids,
     revs : [Ids -> {0} \cup Revs], merges : SUBSET SUBSET Ids, advice : SUBSET Ids,
     mark : {"none", "rejected", "expired"}, ans : Answers]

Idle ==
    [pc |-> "idle", plan |-> None, key |-> None, todo |-> {}, revs |-> [i \in Ids |-> 0],
     merges |-> {}, advice |-> {}, mark |-> "none", ans |-> "none"]

Init ==
    /\ entries = [i \in Ids |-> NewEntry("active", Seed[i].title, Seed[i].text, Tier, {})]
    /\ plans = [q \in Plans |-> None]
    /\ call = [p \in Procs |-> Idle]
    /\ merged = [q \in Plans |-> {}]
    /\ okKeys = [q \in Plans |-> {}]

Goes(p, c) == call' = [call EXCEPT ![p] = c]

--------------------------------------------------------------------------------
(* plan_maintenance *)

Same(i, j) == entries[i].title = entries[j].title /\ entries[i].text = entries[j].text

Active == {i \in Ids : Live(entries[i])}

\* same_title_and_body groups of findDuplicateGroups
Duplicates ==
    {g \in {{j \in Active : Same(i, j)} : i \in Active} : Cardinality(g) > 1}

\* same_title and same_body groups: advisory; a memory that is also to be
\* merged keeps the merge item (actionPriority)
Advice ==
    {i \in Active : \E j \in Active \ {i} :
        entries[i].title = entries[j].title \/ entries[i].text = entries[j].text}

Scan(p) ==
    LET c == [Idle EXCEPT !.merges = Duplicates, !.advice = Advice \ UNION Duplicates]
        found == (UNION c.merges) \cup c.advice
    IN /\ call[p].pc = "idle" /\ \E q \in Plans : plans[q] = None
       /\ Goes(p, [c EXCEPT !.todo = found, !.pc = IF found = {} THEN "create" ELSE "revisions"])
       /\ UNCHANGED <<entries, plans, merged, okKeys>>

\* one peekEntry of readRevisionsForIds or of applyMaintenance, in id order
ReadRevision(p, next) ==
    LET c == call[p]
        i == Min(c.todo)
    IN Goes(p, [c EXCEPT !.revs[i] = entries[i].rev, !.todo = @ \ {i},
                         !.pc = IF c.todo = {i} THEN next ELSE @])

ReadRevisions(p) ==
    /\ call[p].pc = "revisions"
    /\ ReadRevision(p, "create")
    /\ UNCHANGED <<entries, plans, merged, okKeys>>

\* planStore.create: flip the pending plans whose time is up to expired, then
\* insert the row and its items.  They are inserted one by one, but nobody
\* knows the plan_id before the call returns.
CreatePlan(p) ==
    LET c == call[p]
        row == [state |-> "pending", due |-> FALSE, key |-> None, merges |-> c.merges,
                items |-> [i \in (UNION c.merges) \cup c.advice |-> c.revs[i]]]
        flip(r) == IF r # None /\ r.state = "pending" /\ r.due THEN [r EXCEPT !.state = "expired"] ELSE r
    IN /\ c.pc = "create"
       /\ \E new \in Plans :
            /\ plans[new] = None
            /\ plans' = [q \in Plans |-> IF q = new THEN row ELSE flip(plans[q])]
       /\ Goes(p, Idle)
       /\ UNCHANGED <<entries, merged, okKeys>>

--------------------------------------------------------------------------------
(* apply_maintenance *)

GetPlan(p, q, k) ==
    LET found == DOMAIN plans[q].items
    IN /\ call[p].pc = "idle" /\ plans[q] # None
       /\ Goes(p, [Idle EXCEPT !.plan = q, !.key = k, !.todo = found,
                               !.pc = IF found = {} THEN "validate" ELSE "peek"])
       /\ UNCHANGED <<entries, plans, merged, okKeys>>

PeekRevisions(p) ==
    /\ call[p].pc = "peek"
    /\ ReadRevision(p, "validate")
    /\ UNCHANGED <<entries, plans, merged, okKeys>>

Answered(c, ans) == [c EXCEPT !.pc = "reply", !.ans = ans]
\* Mutant: the two arguments swapped.
MarkingSwapped(c, state, ans) == [c EXCEPT !.pc = "mark", !.mark = ans, !.ans = state]

Marking(c, state, ans) == [c EXCEPT !.pc = "mark", !.mark = state, !.ans = ans]

Drifted(c, row) == \E i \in DOMAIN row.items : c.revs[i] # row.items[i]

\* Mutant: any key replays the result of a completed plan.
ReplayedToAnyKey(c, row) == Answered(c, "ok")

Replayed(c, row) == Answered(c, IF row.key = c.key THEN "ok" ELSE "idempotency_mismatch")

\* planStore.validate, in the order of its checks, and what the handler makes
\* of the result.  markCompleted on a plan with nothing to merge finds no
\* plan in state applying, and so does nothing.
Verdict(c, row) ==
    IF row.state = "expired" \/ row.due
        THEN IF row.state = "pending" THEN Marking(c, "expired", "plan_expired")
             ELSE Answered(c, "plan_expired")
    ELSE IF row.state = "completed" THEN Replayed(c, row)
    ELSE IF row.state = "rejected" THEN Marking(c, "rejected", "plan_hash_drift")
    ELSE IF Drifted(c, row) THEN Marking(c, "rejected", "stale_revision")
    ELSE IF row.merges = {} THEN Answered(c, "ok")
    ELSE [c EXCEPT !.pc = "apply"]

Validate(p) ==
    /\ call[p].pc = "validate"
    /\ Goes(p, Verdict(call[p], plans[call[p].plan]))
    /\ UNCHANGED <<entries, plans, merged, okKeys>>

\* setMaintenancePlanState: whatever the state is by now
Mark(p) ==
    LET c == call[p]
    IN /\ c.pc = "mark"
       /\ plans' = [plans EXCEPT ![c.plan].state = c.mark]
       /\ Goes(p, Answered(c, c.ans))
       /\ UNCHANGED <<entries, merged, okKeys>>

Kept(g) == Min(g)
Losers(row) == UNION {g \ {Kept(g)} : g \in row.merges}
KeptFor(row, i) == Kept(CHOOSE g \in row.merges : i \in g)

\* Mutants: the transaction relies on the check before it; it checks only the
\* memories it supersedes.
MergeableUnchecked(row) == TRUE

MergeableLosers(row) == \A i \in Losers(row) : Live(entries[i]) /\ entries[i].rev = row.items[i]

\* mergePlannedGroup's checks, made again inside the transaction
Mergeable(row) ==
    \A i \in UNION row.merges : Live(entries[i]) /\ entries[i].rev = row.items[i]

\* Mutant: a memory that has changed is skipped, the rest of its plan merged.
ApplyPlanSkipping(p) ==
    LET c == call[p]
        row == plans[c.plan]
        fit == {i \in Losers(row) : Live(entries[i]) /\ entries[i].rev = row.items[i]}
    IN /\ c.pc = "apply" /\ row.state = "pending"
       /\ entries' = [i \in Ids |->
            IF i \in fit THEN UpdatedRow(entries[i], Superseding(KeptFor(row, i))) ELSE entries[i]]
       /\ plans' = [plans EXCEPT ![c.plan] = [@ EXCEPT !.state = "completed", !.key = c.key]]
       /\ merged' = [merged EXCEPT ![c.plan] = @ \cup fit]
       /\ Goes(p, Answered(c, "ok"))
       /\ UNCHANGED okKeys

\* The transaction: pending -> applying, every group, applying -> completed.
\* updateEntry is called without a revision context, so the memory_revisions of
\* the superseded rows, which nothing here reads, stay behind.
ApplyPlan(p) ==
    LET c == call[p]
        row == plans[c.plan]
    IN /\ c.pc = "apply"
       /\ row.state = "pending" /\ Mergeable(row)
       /\ entries' = [i \in Ids |->
            IF i \in Losers(row) THEN UpdatedRow(entries[i], Superseding(KeptFor(row, i))) ELSE entries[i]]
       /\ plans' = [plans EXCEPT ![c.plan] = [@ EXCEPT !.state = "completed", !.key = c.key]]
       /\ merged' = [merged EXCEPT ![c.plan] = @ \cup Losers(row)]
       /\ Goes(p, Answered(c, "ok"))
       /\ UNCHANGED okKeys

\* Another caller applied the plan, or a memory changed: all is rolled back,
\* and the plan stays as it was.
ApplyFails(p) ==
    LET c == call[p]
        row == plans[c.plan]
    IN /\ c.pc = "apply"
       /\ row.state # "pending" \/ ~Mergeable(row)
       /\ Goes(p, Answered(c, IF row.state # "pending" THEN "failed" ELSE "stale_revision"))
       /\ UNCHANGED <<entries, plans, merged, okKeys>>

Reply(p) ==
    LET c == call[p]
    IN /\ c.pc = "reply"
       /\ okKeys' = IF c.ans = "ok" THEN [okKeys EXCEPT ![c.plan] = @ \cup {c.key}] ELSE okKeys
       /\ Goes(p, Idle)
       /\ UNCHANGED <<entries, plans, merged>>

\* The process dies; an open transaction rolls back.
Crash(p) ==
    /\ call[p].pc # "idle"
    /\ Goes(p, Idle)
    /\ UNCHANGED <<entries, plans, merged, okKeys>>

--------------------------------------------------------------------------------
(* Everyone else *)

\* update_memory and forget_memory of the write service, as they commit
OtherWrite(i) ==
    /\ Live(entries[i]) /\ entries[i].rev < MaxRev
    /\ \E patch \in {[NoPatch EXCEPT !.text = t] : t \in Texts} \cup {Forgetting} :
        entries' = [entries EXCEPT ![i] = UpdatedRow(@, patch)]
    /\ UNCHANGED <<plans, call, merged, okKeys>>

\* expires_at passes
TimeOut(q) ==
    /\ plans[q] # None /\ ~plans[q].due
    /\ plans' = [plans EXCEPT ![q].due = TRUE]
    /\ UNCHANGED <<entries, call, merged, okKeys>>

Next ==
    \/ \E p \in Procs :
        \/ Scan(p) \/ ReadRevisions(p) \/ CreatePlan(p)
        \/ \E q \in Plans, k \in Keys : GetPlan(p, q, k)
        \/ PeekRevisions(p) \/ Validate(p) \/ Mark(p) \/ ApplyPlan(p) \/ ApplyFails(p)
        \/ Reply(p) \/ Crash(p)
    \/ \E i \in Ids : OtherWrite(i)
    \/ \E q \in Plans : TimeOut(q)

Spec == Init /\ [][Next]_vars
--------------------------------------------------------------------------------
(* Properties *)

\* Shape of every variable.
TypeOK ==
    /\ entries \in [Ids -> Entry]
    /\ plans \in [Plans -> PlanRow \cup {None}]
    /\ call \in [Procs -> CallState]
    /\ merged \in [Plans -> SUBSET Ids]
    /\ okKeys \in [Plans -> SUBSET Keys]

Destructive(q) == plans[q] # None /\ plans[q].merges # {}

\* A plan is merged whole or not at all, and whoever is told ok, by an apply
\* or by a replay, was told so of a plan that has been merged.
WholeOrNothing ==
    \A q \in Plans : Destructive(q) =>
        /\ merged[q] \in {{}, Losers(plans[q])}
        /\ okKeys[q] # {} => merged[q] = Losers(plans[q])

\* Only one of the callers that apply a plan with different keys is told ok.
OneKeyWins == \A q \in Plans : Destructive(q) => Cardinality(okKeys[q]) <= 1

\* An apply supersedes only planned memories, still active and still at the
\* revision the plan was made for, and a plan is applied at most once.
MergesAsPlanned ==
    [][\A q \in Plans : merged'[q] # merged[q] =>
        /\ merged[q] = {}
        /\ \A i \in merged'[q] : entries[i].status = "active" /\ entries[i].rev = plans[q].items[i]]_vars

\* What a merge supersedes, it supersedes by a memory that is active then.
KeptIsActive ==
    [][\A i \in Ids : entries[i].by # entries'[i].by => entries'[entries'[i].by].status = "active"]_vars

\* Only fully identical memories are merged.
MergesDuplicates ==
    [][\A i \in Ids : entries[i].by # entries'[i].by => Same(i, entries'[i].by)]_vars
================================================================================
