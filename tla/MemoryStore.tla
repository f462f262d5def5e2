------------------------------ MODULE MemoryStore ------------------------------
(***************************************************************************)
(* The row-level operations of src/sqlite-store.ts that every writer of    *)
(* memory_entries goes through: what an entry row holds, how a patch is    *)
(* merged into it, and what the two UPDATE statements really store.  The   *)
(* module has no state of its own; MemoryWrites and MaintenancePlans own   *)
(* the tables.                                                             *)
(*                                                                         *)
(* Data abstraction: title and text are lengths (text is body plus tags,   *)
(* which are always cleared and measured together); every column that no   *)
(* property tells apart (topic, type, importance, timestamps, ...) is left *)
(* out.  tier stays because the two UPDATE statements treat it differently.*)
(***************************************************************************)
EXTENDS Naturals

CONSTANTS
    Ids,        \* memory ids; createMemoryId draws an unused one
    Tiers,      \* values of the tier column
    None        \* absent: a missing row, an unset field, a NULL column

ASSUME NoneAssumption == None \notin Ids \cup Tiers \cup Nat

Statuses == {"active", "archived", "superseded", "forgotten"}

ASSUME NoneIsNoStatus == None \notin Statuses

Entry ==
    [status : Statuses, title : Nat, text : Nat, tier : Tiers, chars : Nat,
     rev : Nat \ {0}, by : Ids \cup {None}, sup : SUBSET Ids]

ASSUME NoneIsNoRow == None \notin Entry

\* Fields an update may set; None leaves the column as it is.
Patch ==
    [status : Statuses \cup {None}, title : Nat \cup {None},
     text : Nat \cup {None}, tier : Tiers \cup {None},
     chars : Nat \cup {None}, by : Ids \cup {None}]

NoPatch ==
    [status |-> None, title |-> None, text |-> None, tier |-> None,
     chars |-> None, by |-> None]

Size(title, text) == title + text

Given(new, old) == IF new = None THEN old ELSE new

\* { ...current, ...sanitizeEntryPatch(patch), revision: current.revision + 1 }
Patched(e, p) ==
    [status |-> Given(p.status, e.status),
     title  |-> Given(p.title, e.title),
     text   |-> Given(p.text, e.text),
     tier   |-> Given(p.tier, e.tier),
     chars  |-> Given(p.chars, e.chars),
     rev    |-> e.rev + 1,
     by     |-> Given(p.by, e.by),
     sup    |-> e.sup]

\* updateEntry sets every column, tier included ...
UpdatedRow(e, p) == Patched(e, p)

\* ... the UPDATE of updateEntryWithRevision has no tier column.
CasUpdatedRow(e, p) == [Patched(e, p) EXCEPT !.tier = e.tier]

\* buildEntry: a new row is at revision 1, with its size computed; its status
\* and the list of what it supersedes are those of the input.
NewEntry(status, title, text, tier, olds) ==
    [status |-> status, title |-> title, text |-> text, tier |-> tier,
     chars |-> Size(title, text), rev |-> 1, by |-> None, sup |-> olds]

\* Mutant: forgetting keeps the body.
ForgettingStatusOnly == [NoPatch EXCEPT !.status = "forgotten"]

Forgetting == [NoPatch EXCEPT !.status = "forgotten", !.text = 0, !.chars = 0]

Superseding(new) == [NoPatch EXCEPT !.status = "superseded", !.by = new]

Live(e) == e # None /\ e.status = "active"

\* A row and its snapshot say the same, the tier column aside.
SameButTier(e, f) == [e EXCEPT !.tier = f.tier] = f
================================================================================
