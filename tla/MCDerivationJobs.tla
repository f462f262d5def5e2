---------------------------- MODULE MCDerivationJobs ----------------------------
(* Instances of DerivationJobs for TLC. *)
EXTENDS DerivationJobs, TLC

CONSTANTS w1, w2, c1, c2, k1, k2, d1, d2, o1, o2

Symm == Permutations({w1, w2}) \cup Permutations({o1, o2})

QueueSymm == Permutations({w1, w2}) \cup Permutations({c1, c2}) \cup Permutations({d1, d2})
================================================================================
