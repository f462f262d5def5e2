---------------------------- MODULE MCServices ----------------------------
(* A small instance of Services for TLC: the constants that a configuration    *)
(* file cannot write.                                                          *)
EXTENDS Services

(* The memories that are ranked, one apart from the first in each field; the   *)
(* rows and entries that are counted against a budget.                         *)
MCRankedStock ==
  LET plain == [tier |-> "working", importance |-> 3, text |-> 8, writer |-> "a",
                read |-> [x \in {"a", "b"} |-> 0], against |-> {}, inTime |-> TRUE]
  IN  {plain, [plain EXCEPT !.tier = "core", !.text = 0], [plain EXCEPT !.importance = 4],
       [plain EXCEPT !.writer = "b"], [plain EXCEPT !.against = {1}],
       [plain EXCEPT !.read["b"] = 1], [plain EXCEPT !.inTime = FALSE]}
MCImportedStock == {[topic |-> "t1", chars |-> 1], [topic |-> "t2", chars |-> 2]}
MCStoredStock ==
  {[topic |-> "t1", chars |-> 1, status |-> "active"], [topic |-> "t2", chars |-> 2, status |-> "active"],
   [topic |-> "t1", chars |-> 2, status |-> "archived"]}
MCBudget == [entries |-> 3, chars |-> 4, topic |-> 2]
MCReadCeiling == [c \in {"c1", "c2"} |-> IF c = "c1" THEN 1 ELSE 2]
=============================================================================
