--------------------------- MODULE MCMaintenancePlans ---------------------------
(* Instances of MaintenancePlans for TLC. *)
EXTENDS MaintenancePlans, TLC

CONSTANTS p1, p2, q1, q2, k1, k2, working

Symm == Permutations({p1, p2}) \cup Permutations({k1, k2})

Content(title, text) == [title |-> title, text |-> text]

\* two groups of two identical memories
TwoPairs == <<Content(1, 1), Content(1, 1), Content(2, 2), Content(2, 2)>>

\* one such group, and a third memory with the same title: advice only
PairAndAdvice == <<Content(1, 1), Content(1, 1), Content(1, 2)>>
================================================================================
