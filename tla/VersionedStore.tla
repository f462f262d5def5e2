---------------------------- MODULE VersionedStore ----------------------------
(***************************************************************************)
(* What the memory store promises its clients, with no processes, no       *)
(* statements and no crashes in sight.  Every mutation is one step: each   *)
(* memory it touches moves to the next version, that version is logged,    *)
(* and if the client gave a key, the key's result is fixed in the same     *)
(* step and never changes.  MemoryWrites implements it (AtomicStore).      *)
(***************************************************************************)
EXTENDS Naturals

CONSTANTS Ids, Slots, Results, None

VARIABLES
    version,    \* id -> current version; 0 while the memory does not exist
    log,        \* id -> the versions that have been recorded
    result      \* slot of an idempotency key -> its one result, or None

vars == <<version, log, result>>

Init ==
    /\ version \in [Ids -> {0, 1}]
    /\ log = [i \in Ids |-> 1 .. version[i]]
    /\ result = [s \in Slots |-> None]

\* The key's result is fixed together with the effect, or with the refusal.
Settle(s) ==
    /\ result[s] = None
    /\ result'[s] \in Results
    /\ result' = [result EXCEPT ![s] = result'[s]]

Advance(I) ==
    /\ version' = [i \in Ids |-> IF i \in I THEN version[i] + 1 ELSE version[i]]
    /\ log' = [i \in Ids |-> IF i \in I THEN log[i] \cup {version[i] + 1} ELSE log[i]]

Mutate ==
    \E I \in (SUBSET Ids) \ {{}} :
        /\ Advance(I)
        /\ UNCHANGED result \/ \E s \in Slots : Settle(s)

Refuse ==
    /\ UNCHANGED <<version, log>>
    /\ \E s \in Slots : Settle(s)

Next == Mutate \/ Refuse

Spec == Init /\ [][Next]_vars
===============================================================================
