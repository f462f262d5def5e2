--------------------------- MODULE ContextPacking ---------------------------
(* What goes into a context: a channel of the assembler                       *)
(* (context-assembly/assembler.ts), which counts items and characters and     *)
(* pins what its rule requires, and the pack of recall_context                 *)
(* (markdown-exporter.ts boundedJoin), which counts characters only. The       *)
(* entries come ranked: 1 is the best of them.                                 *)

EXTENDS Naturals, FiniteSetsExt

CONSTANTS
  Entries,      \* 1..n, in the order the candidates are ranked
  Costs,        \* the characters an entry may take
  Limits,       \* the characters a rule or a caller may allow
  Items         \* the items a rule may allow

VARIABLES
  mode,         \* "channel" or "pack"
  cost,         \* the characters of each entry
  kind,         \* candidate, filtered (a candidate the rule excludes), or absent
  required,     \* required_refs of the rule
  maxItems, maxChars,
  pos,          \* the entry the loop is at; 0 when it has ended
  included,     \* the entries in the text
  unavailable   \* required_refs_unavailable

vars == <<mode, cost, kind, required, maxItems, maxChars, pos, included, unavailable>>

Used == MapThenSumSet(LAMBDA e : cost[e], included)
Last == Max(Entries)
Candidates == {e \in Entries : kind[e] # "absent"}

TypeOK ==
  /\ pos \in 0..Last + 1
  /\ included \subseteq Candidates /\ unavailable \subseteq required

(* The candidates of a channel: the tiers and sensitivities it admits, pinned *)
(* or named by the rule; a pack takes the active entries of its scope, and    *)
(* has no rule.                                                               *)
Init ==
  /\ mode \in {"channel", "pack"}
  /\ cost \in [Entries -> Costs]
  /\ kind \in [Entries -> {"candidate", "filtered", "absent"}]
  /\ required \in SUBSET Entries
  /\ maxItems \in Items /\ maxChars \in Limits
  /\ mode = "pack" => required = {} /\ maxItems = Last /\ \A e \in Entries : kind[e] # "filtered"
  /\ pos = 1
  /\ included = {}
  /\ unavailable = {}

Frame == UNCHANGED <<mode, cost, kind, required, maxItems, maxChars>>

(* A channel always takes its first item, and one its rule requires; a pack  *)
(* has neither exception.                                                    *)
Fits(e) ==
  \/ Used + cost[e] <= maxChars
  \/ mode = "channel" /\ (included = {} \/ e \in required)

(* Mutant: the first entry that does not fit ends the loop. *)
BreakInstead(e) == Last + 1

(* It is passed over, and the next may fit. *)
After(e) == e + 1

Take ==
  /\ pos \in Entries /\ Cardinality(included) < maxItems
  /\ kind[pos] = "candidate" /\ Fits(pos)
  /\ included' = included \cup {pos}
  /\ pos' = pos + 1
  /\ Frame /\ UNCHANGED unavailable

PassOver ==
  /\ pos \in Entries /\ Cardinality(included) < maxItems
  /\ kind[pos] # "candidate" \/ ~Fits(pos)
  /\ pos' = IF kind[pos] = "candidate" THEN After(pos) ELSE pos + 1
  /\ Frame /\ UNCHANGED <<included, unavailable>>

(* The loop ends with the candidates, or when the items are used up; then the *)
(* required references that were never candidates are reported.               *)
Finish ==
  /\ pos = Last + 1 \/ (pos \in Entries /\ Cardinality(included) >= maxItems)
  /\ unavailable' = required \ (included \cup Candidates)
  /\ pos' = 0
  /\ Frame /\ UNCHANGED included

Next == Take \/ PassOver \/ Finish

Spec == Init /\ [][Next]_vars

-----------------------------------------------------------------------------
(* An oversized entry locks nothing out: while there is room for items, every *)
(* candidate left out is longer than the characters that are left.            *)
NothingThatFits ==
  pos = 0 /\ Cardinality(included) < maxItems =>
    \A e \in Entries \ included : kind[e] = "candidate" => Used + cost[e] > maxChars

(* A required reference is in the text or is reported. *)
RequiredSurfaced == pos = 0 => required \subseteq included \cup unavailable
=============================================================================
