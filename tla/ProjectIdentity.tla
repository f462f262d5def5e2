--------------------------- MODULE ProjectIdentity ---------------------------
(* Projects and the paths that stand for them (scope-resolver.ts over          *)
(* project_identities and project_aliases_new). A call names a path, and may   *)
(* name a project; nothing holds a transaction from its first read to its      *)
(* last insert. The id derived from a path is a hash of it: the path itself    *)
(* here.                                                                       *)

EXTENDS Naturals

CONSTANTS
  Procs,       \* processes that resolve
  Paths,       \* canonical paths
  Given,       \* project ids a caller may give
  None,        \* no row, no value
  MaxCalls     \* bound on the calls

VARIABLES
  identity,    \* project_identities: the canonical_path of each id
  alias,       \* project_aliases_new: the project and path of each alias
  call,        \* what each process is resolving
  calls,       \* calls so far
  answers      \* what registrations have answered

vars == <<identity, alias, call, calls, answers>>

Ids == Paths \cup Given
NoAlias == [project |-> None, path |-> None]
Alias == [project : Ids, path : Paths] \cup {NoAlias}
Idle == [at |-> "idle", path |-> None, id |-> None, seen |-> None, named |-> FALSE, stored |-> None]

TypeOK ==
  /\ identity \in [Ids -> Paths \cup {None}]
  /\ alias \in [Paths -> Alias]
  /\ \A p \in Procs : call[p].at \in {"idle", "upsert", "insert", "alias"}
  /\ calls \in 0..MaxCalls
  /\ answers \subseteq [path : Paths, named : BOOLEAN, id : Ids, stored : Paths]

Init ==
  /\ identity = [i \in Ids |-> None]
  /\ alias = [x \in Paths |-> NoAlias]
  /\ call = [p \in Procs |-> Idle]
  /\ calls = 0
  /\ answers = {}

(* The id asked for: the one given, or the one derived from the path. *)
Requested(given, path) == IF given = None THEN path ELSE given

(* A given id may not be another's than the alias's. *)
Conflict(given, path) == given # None /\ alias[path].project \notin {None, given}

(* mode 'register': the alias is read, once. *)
Register(p, given, path) ==
  /\ call[p] = Idle /\ calls < MaxCalls
  /\ calls' = calls + 1
  /\ ~Conflict(given, path)
  /\ call' = [call EXCEPT ![p] = [at |-> "upsert", path |-> path, id |-> Requested(given, path),
                                  seen |-> alias[path].project, named |-> given # None, stored |-> None]]
  /\ UNCHANGED <<identity, alias, answers>>

(* upsertProjectIdentity reads the identity; one that exists keeps its path. *)
Look(p) ==
  /\ call[p].at = "upsert"
  /\ LET stored == identity[call[p].id]
     IN  call' = [call EXCEPT ![p] =
           IF stored = None THEN [@ EXCEPT !.at = "insert", !.stored = call[p].path]
           ELSE [@ EXCEPT !.at = "alias", !.stored = stored]]
  /\ UNCHANGED <<identity, alias, calls, answers>>

(* INSERT OR IGNORE: a row that came in between stays, and the path answered *)
(* is the caller's all the same.                                             *)
Insert(p) ==
  /\ call[p].at = "insert"
  /\ identity' = [identity EXCEPT ![call[p].id] = IF @ = None THEN call[p].path ELSE @]
  /\ call' = [call EXCEPT ![p].at = "alias"]
  /\ UNCHANGED <<alias, calls, answers>>

(* INSERT OR IGNORE *)
Kept(old, new) == IF old = NoAlias THEN new ELSE old

(* registerAlias, when no alias had been read; then the answer. A worktree of *)
(* the same repository records its alias again: it is there, and is ignored.  *)
RegisterAlias(p) ==
  /\ call[p].at = "alias"
  /\ alias' = IF call[p].seen # None THEN alias
              ELSE [alias EXCEPT ![call[p].path] =
                     Kept(@, [project |-> call[p].id, path |-> call[p].stored])]
  /\ answers' = answers \cup {[path |-> call[p].path, named |-> call[p].named,
                               id |-> call[p].id, stored |-> call[p].stored]}
  /\ call' = [call EXCEPT ![p] = Idle]
  /\ UNCHANGED <<identity, calls>>

Crash(p) ==
  /\ call[p] # Idle
  /\ call' = [call EXCEPT ![p] = Idle]
  /\ UNCHANGED <<identity, alias, calls, answers>>

Next == \E p \in Procs :
  \/ \E given \in Given \cup {None}, path \in Paths : Register(p, given, path)
  \/ Look(p) \/ Insert(p) \/ RegisterAlias(p) \/ Crash(p)

Spec == Init /\ [][Next]_vars

-----------------------------------------------------------------------------
(* What 'strict_existing' and 'lookup' answer at this state: the project of a *)
(* path (None: a conflict, or absent), without writing.                       *)
StrictExisting(given, path) ==
  IF Conflict(given, path) THEN None
  ELSE IF alias[path] # NoAlias /\ identity[alias[path].project] # None THEN alias[path].project
  ELSE IF identity[Requested(given, path)] = None THEN None ELSE Requested(given, path)

Lookup(given, path) ==
  IF identity[Requested(given, path)] = None THEN None ELSE Requested(given, path)

-----------------------------------------------------------------------------
(* However registrations overlap and wherever they die, an alias names a      *)
(* project that is known, and no later call moves an alias or an identity.    *)
AliasesAreKnown == \A x \in Paths : alias[x] # NoAlias => identity[alias[x].project] # None

KeepsAliases ==
  /\ \A x \in Paths : alias[x] # NoAlias => alias'[x] = alias[x]
  /\ \A i \in Ids : identity[i] # None => identity'[i] = identity[i]
AliasesStand == [][KeepsAliases]_vars

(* Two registrations that name their project are never both told that one     *)
(* path is theirs.                                                            *)
OneProjectPerPath ==
  \A a, b \in answers : a.named /\ b.named /\ a.path = b.path => a.id = b.id

(* The path a registration is told is the one its project is stored with.     *)
AnswerIsStored == \A a \in answers : identity[a.id] = a.stored

(* Registering a path and asking strictly for it name the same project.       *)
ModesAgree == \A a \in answers : ~a.named => StrictExisting(None, a.path) = a.id
=============================================================================
