----------------------------- MODULE BatchBudget -----------------------------
(* The budget of an import: projected for the whole batch at preflight and     *)
(* again when it is applied (budget-governor.ts, portability/importer.ts), and *)
(* checked once more for each row that is overwritten (the write service).     *)
(* Characters of the index go the way of the characters and are left out.      *)

EXTENDS Integers, FiniteSets, FiniteSetsExt

CONSTANTS
  Ids,
  Fresh,         \* the ids the store does not have at first
  Stock,         \* rows it may have: topic, characters, status
  Imported,      \* entries a bundle may have: topic, characters
  Topics,
  Budget,        \* max_active_entries, max_total_chars, max_topic_chars
  None

VARIABLES
  rows,          \* memory_entries of the scope
  bundle,        \* the entries of the import, by id
  policy,        \* options.conflict
  old,           \* the rows the plan found, by id
  stage,         \* of the import
  todo,          \* the rows still to be overwritten
  saved,         \* the rows as they were when the transaction began
  touched        \* rows written by others since the plan

vars == <<rows, bundle, policy, old, stage, todo, saved, touched>>

Row == [topic : Topics, chars : Nat, status : {"active", "archived"}]
Store == [Ids -> Row \cup {None}]

TypeOK ==
  /\ rows \in Store /\ old \in Store /\ saved \in Store
  /\ todo \subseteq Ids /\ touched \subseteq Ids

-----------------------------------------------------------------------------
(* getBudgetUsage: what the active rows take. *)
Active(store) == {i \in Ids : store[i] # None /\ store[i].status = "active"}
Chars(store, S) == MapThenSumSet(LAMBDA i : store[i].chars, S)
Usage(store) ==
  [entries |-> Cardinality(Active(store)), chars |-> Chars(store, Active(store)),
   topic |-> [t \in Topics |-> Chars(store, {i \in Active(store) : store[i].topic = t})]]

Fits(usage) ==
  /\ usage.entries <= Budget.entries /\ usage.chars <= Budget.chars
  /\ \A t \in Topics : usage.topic[t] <= Budget.topic

Init ==
  /\ rows \in [Ids -> Stock \cup {None}] /\ \A i \in Fresh : rows[i] = None
  /\ Fits(Usage(rows))
  /\ bundle \in [Ids -> Imported \cup {None}]
  /\ policy \in {"keep", "replace", "merge"}
  /\ old = [i \in Ids |-> None] /\ saved = old
  /\ stage = "new" /\ todo = {} /\ touched = {}

InBundle == {i \in Ids : bundle[i] # None}
Inserts == {i \in InBundle : old[i] = None}
Overwrites == IF policy = "keep" THEN {} ELSE InBundle \ Inserts

(* mergeEntries: the existing entry with the longer body, but the count of    *)
(* characters it had; the update counts anew.                                 *)
MergedRow(i) == [topic |-> old[i].topic, chars |-> old[i].chars]
Written(i) ==
  IF policy = "merge" THEN [old[i] EXCEPT !.chars = Max({old[i].chars, bundle[i].chars})]
  ELSE [topic |-> bundle[i].topic, chars |-> bundle[i].chars, status |-> old[i].status]

(* projectBatchBudget: an overwritten row is released, active or not, and its  *)
(* place among the entries is not taken again; a topic does not fall below 0.  *)
Projected(usage, found, new) ==
  LET inserts == {i \in InBundle : found[i] = None}
      replaced == IF policy = "keep" THEN {} ELSE InBundle \ inserts
      ops == inserts \cup replaced
      topic(t) == Chars(new, {i \in ops : new[i].topic = t}) - Chars(found, {i \in replaced : found[i].topic = t})
  IN  [entries |-> usage.entries + Cardinality(inserts) - Cardinality(replaced),
       chars |-> usage.chars + Chars(new, ops) - Chars(found, replaced),
       topic |-> [t \in Topics |-> Max({0, usage.topic[t] + topic(t)})]]

(* preflightImport and planImport: the rows are found, and the batch is       *)
(* refused when it would not fit.                                             *)
Preflight ==
  /\ stage = "new"
  /\ old' = rows
  /\ stage' = IF Fits(Projected(Usage(rows), rows, bundle)) THEN "planned" ELSE "refused"
  /\ UNCHANGED <<rows, bundle, policy, todo, saved, touched>>

AsPlanned == [i \in Ids |-> IF policy = "merge" /\ i \in Overwrites THEN MergedRow(i) ELSE bundle[i]]

(* applyImport, in a transaction: what is overwritten is still what was       *)
(* planned, the batch still fits; the inserts are written unchecked.          *)
Apply ==
  /\ stage = "planned"
  /\ IF Overwrites \cap touched = {} /\ Fits(Projected(Usage(rows), old, AsPlanned))
     THEN /\ rows' = [i \in Ids |-> IF i \in Inserts
                        THEN [topic |-> bundle[i].topic, chars |-> bundle[i].chars, status |-> "active"]
                        ELSE rows[i]]
          /\ saved' = rows /\ todo' = Overwrites
          /\ stage' = IF Overwrites = {} THEN "applied" ELSE "applying"
     ELSE stage' = "failed" /\ UNCHANGED <<rows, saved, todo>>
  /\ UNCHANGED <<bundle, policy, old, touched>>

(* evaluateBudget: an active row counts with the others, an archived one adds *)
(* nothing to them; of the topics, only its own is looked at.                 *)
RowFits(i, new) ==
  LET others == Usage([rows EXCEPT ![i] = None])
      after == Usage([rows EXCEPT ![i] = new])
      usage == IF new.status = "active" THEN after ELSE others
  IN  /\ usage.entries <= Budget.entries /\ usage.chars <= Budget.chars
      /\ usage.topic[new.topic] <= Budget.topic

(* updateMemory, row by row; the first that does not fit takes all back. *)
Overwrite(i) ==
  /\ stage = "applying" /\ i = Min(todo)
  /\ IF RowFits(i, Written(i))
     THEN /\ rows' = [rows EXCEPT ![i] = Written(i)]
          /\ stage' = IF todo = {i} THEN "applied" ELSE "applying"
     ELSE rows' = saved /\ stage' = "failed"
  /\ todo' = todo \ {i}
  /\ UNCHANGED <<bundle, policy, old, saved, touched>>

(* The write service of another process, between plan and transaction. *)
Other(i, new) ==
  /\ stage = "planned" /\ touched = {}
  /\ IF rows[i] = None THEN i \notin InBundle /\ RowFits(i, new)
     ELSE new = [rows[i] EXCEPT !.status = "archived"]
  /\ rows' = [rows EXCEPT ![i] = new]
  /\ touched' = {i}
  /\ UNCHANGED <<bundle, policy, old, stage, todo, saved>>

Next ==
  \/ Preflight \/ Apply
  \/ \E i \in Ids : Overwrite(i)
  \/ \E i \in Ids : \E new \in Stock : new.status = "active" /\ rows[i] = None /\ Other(i, new)
  \/ \E i \in Ids : rows[i] # None /\ Other(i, [rows[i] EXCEPT !.status = "archived"])

Spec == Init /\ [][Next]_vars

-----------------------------------------------------------------------------
Total(usage) == usage.entries <= Budget.entries /\ usage.chars <= Budget.chars

(* Outside the transaction of an import the scope is within its entries and   *)
(* characters, though inserts are unchecked, the projection counts entries    *)
(* wrong, and others write after the plan.                                    *)
BudgetHolds == stage # "applying" => Total(Usage(rows))

(* The projection is what the batch leaves: no merge, no archived target. *)
ProjectionOfChars ==
  stage = "applied" /\ touched = {} /\ policy # "merge" /\ Overwrites \subseteq Active(old) =>
    Usage(rows).chars = Projected(Usage(old), old, bundle).chars

ImportFits == BudgetHolds /\ ProjectionOfChars

(* "Projected usage after the batch (when all ops succeed)". *)
ProjectionOfEntries ==
  stage = "applied" /\ touched = {} => Usage(rows).entries = Projected(Usage(old), old, bundle).entries

(* "so the preflight can refuse an aggregate overshoot before any mutation":  *)
(* what it lets pass does not fail for its budget.                            *)
PreflightDecides == touched = {} => stage # "failed"

(* No topic is over its budget. *)
TopicsFit == stage # "applying" => Fits(Usage(rows))
=============================================================================
