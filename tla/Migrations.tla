----------------------------- MODULE Migrations -----------------------------
(* The schema of a database file (sqlite-store.ts): the base tables every open *)
(* creates, and the chain of migrations that `migrate` runs, one transaction   *)
(* for each version but the second, whose statements commit one by one. The    *)
(* version is read before the first of them, outside any transaction. The      *)
(* tables most versions only add are left out; those a version rebuilds are    *)
(* here, with whether they hold their rows.                                    *)

EXTENDS Naturals

CONSTANTS
  Procs,        \* processes that open and migrate the file
  Last,         \* CURRENT_SCHEMA_VERSION
  Started       \* versions of the files there may be

VARIABLES
  version,      \* PRAGMA user_version
  audit,        \* audit_events: its form, and whether it holds its events
  aside,        \* audit_events_v2
  plans,        \* maintenance_plans: its form, its rows, their applied results
  items,        \* maintenance_plan_items holds its rows
  ambiguous,    \* two projects share a path in project_scopes
  proc          \* the step of each process, and the version it migrates to

vars == <<version, audit, aside, plans, items, ambiguous, proc>>

NoTable == [form |-> "none", rows |-> FALSE]
Idle == [at |-> "idle", to |-> 0]
Steps == {"idle", "read", "next", "create", "copy", "drop", "rename", "bump"}

TypeOK ==
  /\ version \in 1..Last
  /\ audit \in [form : {"none", "checked", "free"}, rows : BOOLEAN]
  /\ aside \in [form : {"none", "free"}, rows : BOOLEAN]
  /\ plans \in [form : {"none", "v6", "v11"}, rows : BOOLEAN, applied : BOOLEAN]
  /\ items \in BOOLEAN /\ ambiguous \in BOOLEAN
  /\ proc \in [Procs -> [at : Steps, to : 0..Last]]

(* A file an earlier release wrote: one of version 1 with the CHECK on its    *)
(* actors, one of version 6 to 10 with plans.                                 *)
Init ==
  /\ version \in Started
  /\ audit = [form |-> IF version = 1 THEN "checked" ELSE "free", rows |-> TRUE]
  /\ aside = NoTable
  /\ plans = [form |-> IF version < 6 THEN "none" ELSE IF version < 11 THEN "v6" ELSE "v11",
              rows |-> version >= 6, applied |-> FALSE]
  /\ items = (version >= 6)
  /\ ambiguous \in BOOLEAN
  /\ proc = [p \in Procs |-> Idle]

Goes(p, at, to) == proc' = [proc EXCEPT ![p] = [at |-> at, to |-> to]]
Throws(p) == proc' = [proc EXCEPT ![p] = Idle]

(* ensureBaseSchema: an audit_events that is missing is created empty. *)
Open(p) ==
  /\ proc[p] = Idle
  /\ audit' = IF audit.form = "none" THEN [form |-> "free", rows |-> FALSE] ELSE audit
  /\ Goes(p, "read", 0)
  /\ UNCHANGED <<version, aside, plans, items, ambiguous>>

(* migrateForward reads the version and counts on from there. *)
ReadVersion(p) ==
  /\ proc[p].at = "read"
  /\ IF version >= Last THEN Throws(p) ELSE Goes(p, "next", version + 1)
  /\ UNCHANGED <<version, audit, aside, plans, items, ambiguous>>

(* Mutant: the loop runs once too often. *)
MigratedPast(p, to) == version' = to /\ Goes(p, "next", to + 1)

(* A transaction that ends with the new version; the last one ends the loop. *)
Migrated(p, to) ==
  /\ version' = to
  /\ IF to = Last THEN Throws(p) ELSE Goes(p, "next", to + 1)

(* To version 2: nothing to do, or five statements. *)
RebuildAudit(p) ==
  /\ proc[p] = [at |-> "next", to |-> 2]
  /\ IF audit.form # "checked" THEN Migrated(p, 2) ELSE Goes(p, "create", 2) /\ UNCHANGED version
  /\ UNCHANGED <<audit, aside, plans, items, ambiguous>>

(* CREATE TABLE fails if the table is there. *)
CreateAside(p) ==
  /\ proc[p].at = "create"
  /\ IF aside.form = "none"
     THEN Goes(p, "copy", 2) /\ aside' = [form |-> "free", rows |-> FALSE]
     ELSE Throws(p) /\ UNCHANGED aside
  /\ UNCHANGED <<version, audit, plans, items, ambiguous>>

Copy(p) ==
  /\ proc[p].at = "copy"
  /\ aside' = [aside EXCEPT !.rows = @ \/ audit.rows]
  /\ Goes(p, "drop", 2)
  /\ UNCHANGED <<version, audit, plans, items, ambiguous>>

Drop(p) ==
  /\ proc[p].at = "drop"
  /\ audit' = NoTable
  /\ Goes(p, "rename", 2)
  /\ UNCHANGED <<version, aside, plans, items, ambiguous>>

(* RENAME fails if an open has created the table meanwhile. *)
Rename(p) ==
  /\ proc[p].at = "rename"
  /\ IF audit.form = "none"
     THEN Goes(p, "bump", 2) /\ audit' = aside /\ aside' = NoTable
     ELSE Throws(p) /\ UNCHANGED <<audit, aside>>
  /\ UNCHANGED <<version, plans, items, ambiguous>>

Bump(p) ==
  /\ proc[p].at = "bump"
  /\ Migrated(p, 2)
  /\ UNCHANGED <<audit, aside, plans, items, ambiguous>>

(* To version 6: the tables, if they are missing. *)
AddPlans(p) ==
  /\ proc[p] = [at |-> "next", to |-> 6]
  /\ plans' = IF plans.form = "none" THEN [plans EXCEPT !.form = "v6"] ELSE plans
  /\ Migrated(p, 6)
  /\ UNCHANGED <<audit, aside, items, ambiguous>>

(* Mutant: a table that has the columns is rebuilt again. *)
Rebuilds == TRUE

(* To version 11: the plans are rebuilt unless they have the new columns; the *)
(* columns both forms have are copied, and dropping the old table deletes its *)
(* rows, which foreign_keys = ON cascades to the items.                       *)
RebuildsPlans == plans.form = "v6"

RebuildPlans(p) ==
  /\ proc[p] = [at |-> "next", to |-> 11]
  /\ plans' = IF RebuildsPlans THEN [plans EXCEPT !.form = "v11", !.applied = FALSE] ELSE plans
  /\ items' = (items /\ ~RebuildsPlans)
  /\ Migrated(p, 11)
  /\ UNCHANGED <<audit, aside, ambiguous>>

(* To version 12: the backfill throws on an ambiguous path, and rolls back. *)
Backfill(p) ==
  /\ proc[p] = [at |-> "next", to |-> 12]
  /\ IF ambiguous THEN Throws(p) /\ UNCHANGED version ELSE Migrated(p, 12)
  /\ UNCHANGED <<audit, aside, plans, items, ambiguous>>

(* To any other version: tables and columns are added where they are missing. *)
AddTables(p) ==
  /\ proc[p].at = "next" /\ proc[p].to \notin {2, 6, 11, 12}
  /\ Migrated(p, proc[p].to)
  /\ UNCHANGED <<audit, aside, plans, items, ambiguous>>

(* What is done between: a plan of a migrated file is applied, *)
ApplyPlan ==
  /\ version = Last /\ plans.rows /\ plans.form = "v11"
  /\ plans' = [plans EXCEPT !.applied = TRUE]
  /\ UNCHANGED <<version, audit, aside, items, ambiguous, proc>>

(* the user removes the ambiguity the backfill reported, *)
Disambiguate ==
  /\ ambiguous /\ ambiguous' = FALSE
  /\ UNCHANGED <<version, audit, aside, plans, items, proc>>

(* and a process dies between two statements, or had only opened the file. *)
Crash(p) ==
  /\ proc[p] # Idle
  /\ Throws(p)
  /\ UNCHANGED <<version, audit, aside, plans, items, ambiguous>>

Next ==
  \/ \E p \in Procs :
       \/ Open(p) \/ ReadVersion(p) \/ RebuildAudit(p) \/ CreateAside(p) \/ Copy(p)
       \/ Drop(p) \/ Rename(p) \/ Bump(p) \/ AddPlans(p) \/ RebuildPlans(p)
       \/ Backfill(p) \/ AddTables(p) \/ Crash(p)
  \/ ApplyPlan \/ Disambiguate

Spec == Init /\ [][Next]_vars

-----------------------------------------------------------------------------
(* However many processes migrate, and wherever they die, the events of the   *)
(* audit are in one of the two tables.                                        *)
EventsAreSomewhere == audit.rows \/ aside.rows

(* A plan and what it was applied with survive a slower process that runs the *)
(* old migrations over a file already migrated.                               *)
KeepsApplied == plans.applied => plans'.applied /\ plans'.rows
AppliedStaysApplied == [][KeepsApplied]_vars

(* The rebuild of the plans keeps every row. *)
ItemsSurvive == plans.rows => items

(* No step of a migration takes the file back to an earlier version. *)
VersionNeverFalls == [][version' >= version]_vars

(* Nobody migrating, the events are where they are read from. *)
EventsAreRead == (\A p \in Procs : proc[p] = Idle) => audit.rows
=============================================================================
