---------------------------- MODULE BootstrapPlans ----------------------------
(* Cold-start plans: scan, apply, cancel and expiry by several processes       *)
(* (bootstrap/service.ts over the bootstrap tables of sqlite-store.ts, called  *)
(* from cli/commands/bootstrap.ts and the executors of jobs/executors). Every  *)
(* call reads the plan, and moves it on by a compare-and-set on its state; the *)
(* items of an apply are one transaction between two such moves.               *)

EXTENDS Naturals

CONSTANTS
  Procs,         \* processes
  Plans,         \* plan ids randomUUID gives out; they bound the scans
  Sources,       \* configured source files of the project
  None,
  MaxApplies     \* bound on applies

VARIABLES
  plan,          \* bootstrap_plans: the state of each
  items,         \* bootstrap_plan_items: what each plan proposes for a source
  written,       \* memories written for each item of each plan
  call,          \* what each process is doing
  applies,       \* applies so far
  broken         \* plans an apply of which threw in its items

vars == <<plan, items, written, call, applies, broken>>

Terminal == {"applied", "failed", "cancelled", "expired"}
States == {"absent", "scanning", "plan_ready", "applying"} \cup Terminal
Proposals == {"none", "skip", "propose_memory"}
NoCall == [step |-> "idle", plan |-> None, saw |-> None]

TypeOK ==
  /\ plan \in [Plans -> States]
  /\ items \in [Plans -> [Sources -> Proposals]]
  /\ written \in [Plans -> [Sources -> Nat]]
  /\ call \in [Procs ->
       [step : {"idle", "scan", "promote", "apply", "items", "finish", "cancelled", "expired"},
        plan : Plans \cup {None}, saw : States \cup {None}]]
  /\ applies \in 0..MaxApplies /\ broken \subseteq Plans

Init ==
  /\ plan = [p \in Plans |-> "absent"]
  /\ items = [p \in Plans |-> [s \in Sources |-> "none"]]
  /\ written = [p \in Plans |-> [s \in Sources |-> 0]]
  /\ call = [c \in Procs |-> NoCall]
  /\ applies = 0 /\ broken = {}

Does(c, new) == call' = [call EXCEPT ![c] = new]

(* setBootstrapPlanState: a compare-and-set, *)
Sets(p, expected, new) == plan[p] = expected /\ plan' = [plan EXCEPT ![p] = new]

(* and cas_mismatch in the caller. *)
Mismatch(p, expected) == plan[p] # expected /\ UNCHANGED plan

(* scan: the row of the plan, *)
StartScan(c, p) ==
  /\ call[c] = NoCall /\ plan[p] = "absent"
  /\ plan' = [plan EXCEPT ![p] = "scanning"]
  /\ Does(c, [NoCall EXCEPT !.step = "scan", !.plan = p])
  /\ UNCHANGED <<items, written, applies, broken>>

(* what is proposed for each source: nothing for a file that is not there,   *)
(* too large or outside the project, to skip one that is empty;              *)
ScanSources(c, found) ==
  /\ call[c].step = "scan"
  /\ items' = [items EXCEPT ![call[c].plan] = found]
  /\ Does(c, [call[c] EXCEPT !.step = "promote"])
  /\ UNCHANGED <<plan, written, applies, broken>>

(* and plan_ready, unless it was cancelled. *)
Promote(c) ==
  /\ call[c].step = "promote"
  /\ \/ Sets(call[c].plan, "scanning", "plan_ready")
     \/ Mismatch(call[c].plan, "scanning")
  /\ Does(c, NoCall)
  /\ UNCHANGED <<items, written, applies, broken>>

(* A plan that is being applied may be applied again. *)
Applicable(state) == state \in {"plan_ready", "applying"}

(* applyPlan, cancelPlan, expirePlan: the read and its check, *)
Look(c, p, step) ==
  /\ call[c] = NoCall
  /\ IF step = "apply" THEN Applicable(plan[p]) /\ applies < MaxApplies /\ applies' = applies + 1
     ELSE plan[p] \notin Terminal \cup {"absent"} /\ UNCHANGED applies
  /\ Does(c, [step |-> step, plan |-> p, saw |-> plan[p]])
  /\ UNCHANGED <<plan, items, written, broken>>

(* the move to cancelled or expired, *)
End(c) ==
  /\ call[c].step \in {"cancelled", "expired"}
  /\ \/ Sets(call[c].plan, call[c].saw, call[c].step)
     \/ Mismatch(call[c].plan, call[c].saw)
  /\ Does(c, NoCall)
  /\ UNCHANGED <<items, written, applies, broken>>

(* or to applying, *)
StartApply(c) ==
  /\ call[c].step = "apply"
  /\ \/ Sets(call[c].plan, call[c].saw, "applying") /\ Does(c, [call[c] EXCEPT !.step = "items"])
     \/ Mismatch(call[c].plan, call[c].saw) /\ Does(c, NoCall)
  /\ UNCHANGED <<items, written, applies, broken>>

ToWrite(p) == {s \in Sources : items[p][s] = "propose_memory"}

(* The transaction is rolled back. *)
RolledBack(p, done) == written[p]

(* then the transaction, with a remember for each proposal, under no key. An *)
(* item that fails throws out of applyPlan, past the move to failed;         *)
ApplyItems(c) ==
  /\ call[c].step = "items"
  /\ LET p == call[c].plan
     IN  \/ /\ written' = [written EXCEPT ![p] = [s \in Sources |->
                 IF s \in ToWrite(p) THEN written[p][s] + 1 ELSE written[p][s]]]
            /\ Does(c, [call[c] EXCEPT !.step = "finish"])
            /\ UNCHANGED broken
         \/ \E s \in ToWrite(p) :
            /\ written' = [written EXCEPT ![p] = RolledBack(p, ToWrite(p) \ {s})]
            /\ broken' = broken \cup {p}
            /\ Does(c, NoCall)
  /\ UNCHANGED <<plan, items, applies>>

(* and the move to applied. *)
Finish(c) ==
  /\ call[c].step = "finish"
  /\ \/ Sets(call[c].plan, "applying", "applied")
     \/ Mismatch(call[c].plan, "applying")
  /\ Does(c, NoCall)
  /\ UNCHANGED <<items, written, applies, broken>>

Crash(c) ==
  /\ call[c] # NoCall
  /\ Does(c, NoCall)
  /\ UNCHANGED <<plan, items, written, applies, broken>>

Next ==
  \E c \in Procs :
    \/ \E p \in Plans : StartScan(c, p)
    \/ \E found \in [Sources -> Proposals] : ScanSources(c, found)
    \/ Promote(c) \/ End(c) \/ StartApply(c) \/ ApplyItems(c) \/ Finish(c) \/ Crash(c)
    \/ \E p \in Plans, step \in {"apply", "cancelled", "expired"} : Look(c, p, step)

Spec == Init /\ [][Next]_vars

-----------------------------------------------------------------------------
(* However scans, applies, cancellations and crashes overlap: the items of a *)
(* plan are written all together, as often as it took, and a plan that reads *)
(* applied has all of them.                                                  *)
AllTogether ==
  \A p \in Plans : \A s, t \in ToWrite(p) : written[p][s] = written[p][t]

AppliedIsWritten ==
  \A p \in Plans : plan[p] = "applied" => \A s \in ToWrite(p) : written[p][s] > 0

PlansAreWhole == AllTogether /\ AppliedIsWritten

(* Applied, cancelled and expired are final. *)
KeepsEnd == \A p \in Plans : plan[p] \in Terminal => plan'[p] = plan[p]
EndIsFinal == [][KeepsEnd]_vars

(* A plan an item of which failed reads failed, and nothing else. *)
BrokenPlanFails == \A p \in broken : plan[p] = "failed"

(* An item is written once. *)
ItemsWrittenOnce == \A p \in Plans, s \in Sources : written[p][s] <= 1
=============================================================================
