------------------------------ MODULE Distillation ------------------------------
(* From the decisions of a session to memories: extraction, review and apply   *)
(* of candidates (distillation/service.ts, distillation/providers, the         *)
(* candidate tables of sqlite-store.ts, cli/commands/candidates.ts). The rows  *)
(* of a candidate are inserted one by one; a review reads and writes in two    *)
(* statements; an apply is one transaction.                                    *)

EXTENDS Naturals, FiniteSets

CONSTANTS
  Workers,       \* processes that run the session_distill job
  Reviewers,     \* processes that accept and reject; actors that apply
  Decisions,     \* decision_confirmed events of the session: 1..n, in sequence
  None,
  MaxReviews     \* bound on reviews

(* Candidates are named by the event deterministicCandidateId hashes. *)
Candidates == Decisions

VARIABLES
  passed,        \* decisions with no text, a secret or an injection: no proposal
  cand,          \* derivation_candidates, candidate_evidence, candidate_actions
  memories,      \* memories written for each candidate
  slot,          \* idempotency slot of each candidate: the actor of its request
  work,          \* where each extraction is
  review,        \* a review between its two statements
  reviews        \* reviews so far

vars == <<passed, cand, memories, slot, work, review, reviews>>

NoCandidate == [state |-> "absent", about |-> None, evidence |-> FALSE, action |-> FALSE]
NotAtWork == [step |-> "idle", at |-> 0]
NoReview == [of |-> None, to |-> None]
States == {"absent", "proposed", "accepted", "rejected", "applied"}

TypeOK ==
  /\ passed \subseteq Decisions
  /\ cand \in [Candidates -> [state : States, about : Decisions \cup {None},
                              evidence : BOOLEAN, action : BOOLEAN]]
  /\ memories \in [Candidates -> Nat]
  /\ slot \in [Candidates -> Reviewers \cup {None}]
  /\ work \in [Workers -> [step : {"idle", "candidate", "evidence", "action"}, at : Nat]]
  /\ review \in [Reviewers -> [of : Candidates \cup {None}, to : {"accepted", "rejected", None}]]
  /\ reviews \in 0..MaxReviews

Init ==
  /\ passed \in SUBSET Decisions
  /\ cand = [c \in Candidates |-> NoCandidate]
  /\ memories = [c \in Candidates |-> 0]
  /\ slot = [c \in Candidates |-> None]
  /\ work = [w \in Workers |-> NotAtWork]
  /\ review = [r \in Reviewers |-> NoReview]
  /\ reviews = 0

(* extract: the proposals, in sequence; the i-th is about this decision. *)
Proposals == Cardinality(Decisions \ passed)
About(i) == CHOOSE d \in Decisions \ passed :
              Cardinality({e \in Decisions \ passed : e <= d}) = i

(* pickDecisionEvent counts all decisions, those without a proposal too. *)
Named(i) == i

Works(w, new) == work' = [work EXCEPT ![w] = new]

(* runOnBundle, as the job's executor calls it; a worker whose lease ran out *)
(* may still be at it when another starts.                                   *)
Extract(w) ==
  /\ work[w] = NotAtWork
  /\ Works(w, [step |-> "candidate", at |-> 1])
  /\ UNCHANGED <<passed, cand, memories, slot, review, reviews>>

(* insertCandidate answers false for a candidate that exists, which is then  *)
(* passed over, whatever of it is there.                                     *)
InsertCandidate(w) ==
  /\ work[w].step = "candidate"
  /\ LET i == work[w].at
     IN  IF i > Proposals
         THEN Works(w, NotAtWork) /\ UNCHANGED cand
         ELSE IF cand[Named(i)].state # "absent"
         THEN Works(w, [step |-> "candidate", at |-> i + 1]) /\ UNCHANGED cand
         ELSE /\ cand' = [cand EXCEPT ![Named(i)] =
                           [@ EXCEPT !.state = "proposed", !.about = About(i)]]
              /\ Works(w, [step |-> "evidence", at |-> i])
  /\ UNCHANGED <<passed, memories, slot, review, reviews>>

(* insertCandidateEvidence, then insertCandidateAction. *)
InsertDetail(w) ==
  /\ work[w].step \in {"evidence", "action"}
  /\ cand' = IF work[w].step = "evidence"
             THEN [cand EXCEPT ![Named(work[w].at)].evidence = TRUE]
             ELSE [cand EXCEPT ![Named(work[w].at)].action = TRUE]
  /\ Works(w, IF work[w].step = "evidence" THEN [work[w] EXCEPT !.step = "action"]
              ELSE [step |-> "candidate", at |-> work[w].at + 1])
  /\ UNCHANGED <<passed, memories, slot, review, reviews>>

Crash(w) ==
  /\ work[w] # NotAtWork
  /\ Works(w, NotAtWork)
  /\ UNCHANGED <<passed, cand, memories, slot, review, reviews>>

(* setReview: the read and its check, *)
StartReview(r, c, to) ==
  /\ review[r] = NoReview /\ reviews < MaxReviews
  /\ cand[c].state \in {"proposed", "accepted"}
  /\ review' = [review EXCEPT ![r] = [of |-> c, to |-> to]]
  /\ reviews' = reviews + 1
  /\ UNCHANGED <<passed, cand, memories, slot, work>>

(* and updateCandidateState, which looks at no state. *)
EndReview(r) ==
  /\ review[r] # NoReview
  /\ cand' = [cand EXCEPT ![review[r].of].state = review[r].to]
  /\ review' = [review EXCEPT ![r] = NoReview]
  /\ UNCHANGED <<passed, memories, slot, work, reviews>>

(* Mutant: the memory is written without an idempotency key. *)
RememberedUnkeyed(S) == [c \in Candidates |-> IF c \in S THEN memories[c] + 1 ELSE memories[c]]

(* applyOneAction: remember under a key made of the candidate and its run; a *)
(* key that has its result replays it.                                       *)
Remembered(S) ==
  [c \in Candidates |-> IF c \in S /\ slot[c] = None THEN memories[c] + 1 ELSE memories[c]]

(* apply, for the ids listed before the transaction. It throws, and nothing  *)
(* is applied, if one of them is no longer accepted, has no action, or fails *)
(* to be remembered: the key held by a request of another actor, say.        *)
Apply(r, S) ==
  /\ S # {}
  /\ \A c \in S : cand[c].state = "accepted" /\ cand[c].action /\ slot[c] \in {None, r}
  /\ memories' = Remembered(S)
  /\ slot' = [c \in Candidates |-> IF c \in S THEN r ELSE slot[c]]
  /\ cand' = [c \in Candidates |->
                IF c \in S THEN [cand[c] EXCEPT !.state = "applied"] ELSE cand[c]]
  /\ UNCHANGED <<passed, work, review, reviews>>

Next ==
  \/ \E w \in Workers : Extract(w) \/ InsertCandidate(w) \/ InsertDetail(w) \/ Crash(w)
  \/ \E r \in Reviewers :
       \/ \E c \in Candidates, to \in {"accepted", "rejected"} : StartReview(r, c, to)
       \/ EndReview(r)
       \/ \E S \in SUBSET Candidates : Apply(r, S)

Spec == Init /\ [][Next]_vars

-----------------------------------------------------------------------------
(* Reviews may write over one another and over an apply, and a candidate may *)
(* so become accepted again; still it gives one memory only, and none        *)
(* without the evidence it was drawn from.                                   *)
DistilledOnce == \A c \in Candidates : memories[c] <= 1

MemoriesHaveEvidence == \A c \in Candidates : memories[c] > 0 => cand[c].evidence

Distilled == DistilledOnce /\ MemoriesHaveEvidence

(* A candidate is named after the decision it is about. *)
NamedAfterItsDecision ==
  \A c \in Candidates : cand[c].state # "absent" => cand[c].about = c

(* An applied candidate stays applied. *)
AppliedIsFinal ==
  [][\A c \in Candidates : cand[c].state = "applied" => cand'[c].state = "applied"]_vars
=============================================================================
