------------------------------- MODULE Loadouts -------------------------------
(* Loadouts: the versions of their rules and the bindings that choose one for  *)
(* a call (loadouts/service.ts and its command, over the loadout tables of     *)
(* sqlite-store.ts). The rules of a version are known by the process that      *)
(* wrote them.                                                                 *)

EXTENDS Naturals, Sequences, SequencesExt

CONSTANTS
  Procs,         \* processes that update the loadout
  Channels,      \* bootstrap, query, tool_only
  Actors, Projects, Tasks,  \* what a call and a binding may name
  Priorities,    \* the priority of a binding
  Unset,           \* NULL in a binding, not given in a call
  None,
  MaxVersion,    \* bound on the versions of the loadout
  MaxBindings    \* bound on its bindings

VARIABLES
  head,          \* agent_loadouts.version
  rules,         \* loadout_rules: the writer of each version's channels
  bindings,      \* loadout_bindings, in the order they were created
  update         \* what each process is updating

vars == <<head, rules, bindings, update>>

Versions == 1..MaxVersion
Binding == [actor : Actors \cup {Unset}, project : Projects \cup {Unset},
            task : Tasks \cup {Unset}, priority : Priorities]
Idle == [version |-> 0, channels |-> {}]

TypeOK ==
  /\ head \in Versions
  /\ rules \in [Versions -> [Channels -> Procs \cup {None}]]
  /\ bindings \in Seq(Binding) /\ Len(bindings) <= MaxBindings
  /\ update \in [Procs -> [version : 0..MaxVersion, channels : SUBSET Channels]]

(* create: version 1, a draft, without rules. *)
Init ==
  /\ head = 1
  /\ rules = [v \in Versions |-> [c \in Channels |-> None]]
  /\ bindings = <<>>
  /\ update = [p \in Procs |-> Idle]

(* updateRules reads the version, *)
StartUpdate(p, channels) ==
  /\ update[p] = Idle /\ channels # {} /\ head < MaxVersion
  /\ update' = [update EXCEPT ![p] = [version |-> head + 1, channels |-> channels]]
  /\ UNCHANGED <<head, rules, bindings>>

(* loadout_rules is keyed by version and channel. *)
FreeOfOthers(p) == \A c \in update[p].channels : rules[update[p].version][c] = None

(* Plain inserts, then a compare-and-set of the version. *)
StillFree(p) == FreeOfOthers(p) /\ head = update[p].version - 1

(* and writes rules and version in one transaction, or nothing. *)
EndUpdate(p) ==
  LET v == update[p].version
  IN  /\ update[p] # Idle
      /\ IF StillFree(p)
         THEN /\ rules' = [rules EXCEPT ![v] =
                   [c \in Channels |-> IF c \in update[p].channels THEN p ELSE @[c]]]
              /\ head' = v
         ELSE UNCHANGED <<rules, head>>
      /\ update' = [update EXCEPT ![p] = Idle]
      /\ UNCHANGED bindings

Crash(p) ==
  /\ update[p] # Idle
  /\ update' = [update EXCEPT ![p] = Idle]
  /\ UNCHANGED <<head, rules, bindings>>

Bind(b) ==
  /\ Len(bindings) < MaxBindings
  /\ bindings' = Append(bindings, b)
  /\ UNCHANGED <<head, rules, update>>

Unbind(i) ==
  /\ bindings' = RemoveAt(bindings, i)
  /\ UNCHANGED <<head, rules, update>>

Next ==
  \/ \E p \in Procs : (\E channels \in SUBSET Channels : StartUpdate(p, channels)) \/ EndUpdate(p) \/ Crash(p)
  \/ \E b \in Binding : Bind(b)
  \/ \E i \in DOMAIN bindings : Unbind(i)

Spec == Init /\ [][Next]_vars

-----------------------------------------------------------------------------
(* resolveLoadout: the bindings each level finds for a call, *)
Level(level, b, call) ==
  CASE level = "actor_project_task" ->
         /\ call.task # Unset /\ b.task = call.task
         /\ b.actor \in {call.actor, Unset} /\ b.project \in {call.project, Unset}
    [] level = "actor_project" ->
         b.task = Unset /\ b.actor \in {call.actor, Unset} /\ b.project \in {call.project, Unset}
    [] level = "project_default" ->
         b.task = Unset /\ b.actor = Unset /\ b.project \in {call.project, Unset}
    [] level = "global_default" ->
         b.task = Unset /\ b.actor = Unset /\ b.project = Unset

Levels == <<"actor_project_task", "actor_project", "project_default", "global_default">>
Found(level, call) == {i \in DOMAIN bindings : Level(level, bindings[i], call)}

(* the first of them: the highest priority, then the oldest, *)
FirstOf(found) ==
  CHOOSE i \in found : \A j \in found :
    \/ bindings[i].priority > bindings[j].priority
    \/ bindings[i].priority = bindings[j].priority /\ i <= j

(* and the first level that finds one; none, and the built-in loadout is used. *)
Resolved(call) ==
  LET hits == {k \in DOMAIN Levels : Found(Levels[k], call) # {}}
      first == Levels[Min(hits)]
  IN  IF hits = {} THEN [level |-> "legacy", binding |-> 0]
      ELSE [level |-> first, binding |-> FirstOf(Found(first, call))]

Calls == [actor : Actors, project : Projects \cup {Unset}, task : Tasks \cup {Unset}]

-----------------------------------------------------------------------------
(* However updates overlap: the rules of a version come from one update, and *)
(* no version has rules before the head has reached it.                      *)
RulesOfOneUpdate ==
  \A v \in Versions : \A c, d \in Channels :
    /\ rules[v][c] # None /\ rules[v][d] # None => rules[v][c] = rules[v][d]
    /\ rules[v][c] # None => v <= head

(* A binding that names the actor is never passed over for one that names    *)
(* nobody (neither of them naming a task).                                   *)
SpecificWins ==
  \A call \in Calls :
    LET r == Resolved(call)
    IN  r.binding # 0 /\ bindings[r.binding].task = Unset /\ bindings[r.binding].actor = Unset
          => ~\E i \in DOMAIN bindings :
                /\ Level("actor_project", bindings[i], call)
                /\ bindings[i].actor = call.actor /\ bindings[i].project = call.project

(* The other levels ask for more than the second does, so that what they find *)
(* it has found: no call is answered by a project's or the global default as *)
(* such.                                                                     *)
DefaultsAreNotReached ==
  \A call \in Calls : Resolved(call).level \notin {"project_default", "global_default"}

LoadoutsHold == RulesOfOneUpdate /\ DefaultsAreNotReached
=============================================================================
