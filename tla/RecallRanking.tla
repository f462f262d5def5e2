---------------------------- MODULE RecallRanking ----------------------------
(* How a recall ranks its memories (services/recall-ranker.ts) and the votes   *)
(* that change it (memory_feedback). Scores are in units of 1/10000; the terms *)
(* equal for all candidates of a scope and a moment (scope, recency,           *)
(* confidence, staleness) are left out, the order of their ties is the id's.   *)

EXTENDS Integers, FiniteSets, FiniteSetsExt

CONSTANTS
  Memories,     \* a set of numbers: ids, in their order
  Stock,        \* the memories a database may hold, see Fields
  Actors,
  MaxNotes      \* bound on the rows of memory_feedback

VARIABLES
  mem,          \* memory_entries with their accesses and relations
  feedback      \* memory_feedback: rows <<memory, actor, kind>>

vars == <<mem, feedback>>

Tiers == {"core", "working", "archival"}
Notes == {"up", "down", "pin", "hide"}

(* text: what the query scores in the entry; read: the accesses of each actor, *)
(* which a database from before schema 9 brings; against: the memories the     *)
(* entry supersedes or contradicts, which an import brings; inTime: now is     *)
(* within valid_from and valid_until.                                          *)
Fields ==
  [tier : Tiers, importance : 1..5, text : Nat, writer : Actors,
   read : [Actors -> Nat], against : SUBSET Memories, inTime : BOOLEAN]

TypeOK ==
  /\ DOMAIN mem = Memories /\ \A m \in Memories : mem[m] \in Fields
  /\ feedback \subseteq Memories \X Actors \X Notes

Init ==
  /\ mem \in [Memories -> Stock]
  /\ feedback = {}

-----------------------------------------------------------------------------
Eligible == {m \in Memories : mem[m].inTime}
TierWeight(m) == CASE mem[m].tier = "core" -> 13
                   [] mem[m].tier = "working" -> 10
                   [] OTHER -> 7

Text(m) == Min({mem[m].text, 32})
Accesses(m) == MapThenSumSet(LAMBDA a : mem[m].read[a], Actors)

(* The places in two lists: by text, then tier, then id; *)
TextBefore(m, n) ==
  \/ Text(m) > Text(n)
  \/ Text(m) = Text(n) /\ TierWeight(m) > TierWeight(n)
  \/ Text(m) = Text(n) /\ TierWeight(m) = TierWeight(n) /\ m < n

(* and, of the memories that were ever read, by the actor's accesses, then    *)
(* everybody's.                                                               *)
ReadBefore(a, m, n) ==
  LET mine(k) == mem[k].read[a]
  IN  \/ mine(m) > mine(n)
      \/ mine(m) = mine(n) /\ Accesses(m) > Accesses(n)
      \/ mine(m) = mine(n) /\ Accesses(m) = Accesses(n) /\ m < n

Place(m, among, Before(_, _)) == 1 + Cardinality({n \in among : Before(n, m)})

(* 200 / (60 + place). *)
Fused(place) == 2000000 \div (60 + place)

Relevance(a, m) ==
  LET read == {n \in Eligible : Accesses(n) > 0}
      before(k, n) == ReadBefore(a, k, n)
  IN  Fused(Place(m, Eligible, TextBefore))
        + (IF m \in read THEN Fused(Place(m, read, before)) ELSE 0)

Count(m, kind) == Cardinality({f \in feedback : f[1] = m /\ f[3] = kind})

(* 0.04 of a net of five votes, at most. *)
Votes(m) == 80 * Max({-5, Min({5, Count(m, "up") - Count(m, "down")})})

(* The writer's own, or one the actor has read. *)
Trust(a, m) == IF mem[m].writer = a THEN 600
               ELSE IF mem[m].read[a] > 0 THEN 200 ELSE 0

Penalty(m) == Min({2000, 500 * Cardinality(mem[m].against)})

(* log(1 + n) / log(101), times 0.04. *)
AccessSignal(m) == LET n == Accesses(m) IN IF n = 0 THEN 0 ELSE IF n = 1 THEN 60 ELSE 95

Score(a, m) ==
  Relevance(a, m) + Trust(a, m) + 200 * (mem[m].importance - 1) + AccessSignal(m)
    + Votes(m) + 60 * TierWeight(m) - Penalty(m)

(* rankRecall: by score, tier, importance, id. *)
Precedes(a, m, n) ==
  LET same == Score(a, m) = Score(a, n)
  IN  \/ Score(a, m) > Score(a, n)
      \/ same /\ TierWeight(m) > TierWeight(n)
      \/ same /\ TierWeight(m) = TierWeight(n) /\ mem[m].importance > mem[n].importance
      \/ same /\ TierWeight(m) = TierWeight(n) /\ mem[m].importance = mem[n].importance /\ m < n

Ranking(a) ==
  [m \in Eligible |-> LET before(k, n) == Precedes(a, k, n) IN Place(m, Eligible, before)]

-----------------------------------------------------------------------------
(* memory_feedback: one row for each kind an actor gave, replaced by itself.  *)
RecordFeedback(m, a, kind) ==
  /\ Cardinality(feedback \cup {<<m, a, kind>>}) <= MaxNotes
  /\ feedback' = feedback \cup {<<m, a, kind>>}
  /\ UNCHANGED mem

Next == \E m \in Memories, a \in Actors, kind \in Notes : RecordFeedback(m, a, kind)

Spec == Init /\ [][Next]_vars

-----------------------------------------------------------------------------
(* Every actor gets every eligible memory at a place of its own: the cascade  *)
(* of ties decides, and a topK cuts a prefix.                                 *)
RankingsAreTotal ==
  \A a \in Actors :
    \A p \in 1..Cardinality(Eligible) : \E m \in Eligible : Ranking(a)[m] = p

Alike(m, n) ==
  [mem[m] EXCEPT !.tier = 0, !.text = 0] = [mem[n] EXCEPT !.tier = 0, !.text = 0]

(* From this place on a step down the list of texts costs less than a tier.   *)
LastDecisive == 15

(* The weight of the text dominates the tier's among the best texts: of two    *)
(* memories that differ in nothing else, the one the query fits better comes   *)
(* first.                                                                      *)
TextBeatsTier ==
  \A a \in Actors, m, n \in Eligible :
    /\ Alike(m, n) /\ Accesses(m) = 0 /\ Votes(m) = Votes(n)
    /\ Text(m) > Text(n) /\ Place(n, Eligible, TextBefore) <= LastDecisive
    => Precedes(a, m, n)

RankingHolds == RankingsAreTotal /\ TextBeatsTier

(* A vote for a memory never puts it behind one it preceded, for no actor. *)
PraiseNeverSinks ==
  \A m, n \in Eligible, a, b \in Actors :
    <<m, b, "up">> \in feedback' \ feedback /\ Precedes(a, m, n) => Precedes(a, m, n)'
PraiseStands == [][PraiseNeverSinks]_vars

(* The latest intent of an actor replaces the earlier: no actor is for and    *)
(* against a memory.                                                          *)
OneIntent ==
  \A m \in Memories, a \in Actors :
    ~(<<m, a, "up">> \in feedback /\ <<m, a, "down">> \in feedback)

(* A pinned memory surfaces before one that is not; a hidden one not at all. *)
PinsSurface ==
  \A m, n \in Eligible, a \in Actors :
    <<m, a, "pin">> \in feedback /\ <<n, a, "pin">> \notin feedback => Precedes(a, m, n)

(* What replaces a memory is not ranked behind it for replacing it. *)
ReplacementLeads ==
  \A m, n \in Eligible, a \in Actors :
    n \in mem[m].against /\ [mem[m] EXCEPT !.against = {}] = mem[n] => Precedes(a, m, n)
=============================================================================
