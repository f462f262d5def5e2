------------------------------- MODULE JobLedger -------------------------------
(***************************************************************************)
(* What the queue of derivation jobs promises those who enqueue, with no   *)
(* runners, statements, leases or deaths in sight.  A job stands for one   *)
(* key for good.  It is started, given back and started again, and settled *)
(* in one step; it succeeds only with all its outputs delivered, and once  *)
(* it has succeeded or failed for good nothing starts it again.            *)
(* DerivationJobs implements it (LedgerOfJobs).                            *)
(***************************************************************************)
EXTENDS Naturals

CONSTANTS Jobs, Keys, Digests, Outs, None

VARIABLES
    ledger,     \* job -> its key, its digest, where it stands, how often it was started
    delivered   \* job -> what has been delivered for it

vars == <<ledger, delivered>>

Blank == [key |-> None, digest |-> None, status |-> "none", attempts |-> 0]
Fresh(k, d) == [key |-> k, digest |-> d, status |-> "queued", attempts |-> 0]

Init ==
    /\ ledger = [j \in Jobs |-> Blank]
    /\ delivered = [j \in Jobs |-> {}]

\* A key names one job.
Enqueue(j, k, d) ==
    /\ ledger[j] = Blank
    /\ \A i \in Jobs : ledger[i].key # k
    /\ ledger' = [ledger EXCEPT ![j] = Fresh(k, d)]
    /\ UNCHANGED delivered

\* Every start is an attempt of its own.
Start(j) ==
    /\ ledger[j].status \in {"queued", "retry"}
    /\ ledger' = [ledger EXCEPT ![j] = [@ EXCEPT !.status = "running", !.attempts = ledger[j].attempts + 1]]
    /\ UNCHANGED delivered

\* Jobs whose attempts came to nothing are given back.
Lapse(J) ==
    /\ \A j \in J : ledger[j].status = "running"
    /\ ledger' = [j \in Jobs |-> IF j \in J THEN [ledger[j] EXCEPT !.status = "queued"] ELSE ledger[j]]
    /\ UNCHANGED delivered

\* An attempt delivers, also one that has been given up.
Deliver(j, o) ==
    /\ ledger[j].attempts > 0
    /\ delivered' = [delivered EXCEPT ![j] = @ \cup {o}]
    /\ UNCHANGED ledger

\* Success means that everything is there.
Settle(j, to) ==
    /\ ledger[j].status = "running"
    /\ to = "succeeded" => delivered[j] = Outs
    /\ ledger' = [ledger EXCEPT ![j] = [@ EXCEPT !.status = to]]
    /\ UNCHANGED delivered

Next ==
    \/ \E j \in Jobs, k \in Keys, d \in Digests : Enqueue(j, k, d)
    \/ \E j \in Jobs : Start(j)
    \/ \E J \in SUBSET Jobs : Lapse(J)
    \/ \E j \in Jobs, o \in Outs : Deliver(j, o)
    \/ \E j \in Jobs, to \in {"retry", "succeeded", "failed"} : Settle(j, to)

Spec == Init /\ [][Next]_vars
================================================================================
