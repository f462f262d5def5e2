---------------------------- MODULE AssetVersions ----------------------------
(* Assets, their versions and the payload each version has in a table of its   *)
(* own: memory references, skills and external references                      *)
(* (assets/service.ts, skills/service.ts, external-refs/service.ts and their   *)
(* commands, over the asset tables of sqlite-store.ts). Envelope, version and  *)
(* payload are written one after the other by processes that may die between.  *)

EXTENDS Naturals, FiniteSets

CONSTANTS
  Procs,         \* processes
  Assets,        \* asset ids randomUUID gives out
  Contents,      \* content hashes
  None,
  MaxVersion     \* bound on the versions of an asset

VARIABLES
  asset,         \* assets: lifecycle state, current version
  version,       \* asset_versions: the content hash of each version
  payload,       \* skills, memory_ref_bindings, external_references: the same
  verified,      \* external_references with a last_verified_at
  call           \* what each process is doing

vars == <<asset, version, payload, verified, call>>

Lifecycles == {"draft", "active", "archived"}
Kinds == {"memory_ref", "skill", "external_reference"}
Versions == 1..MaxVersion
NoAsset == [kind |-> None, state |-> None, head |-> 0]
NoCall == [step |-> "idle", asset |-> None, version |-> 0, content |-> None, state |-> None]

TypeOK ==
  /\ asset \in [Assets -> [kind : Kinds \cup {None}, state : Lifecycles \cup {None}, head : 0..MaxVersion]]
  /\ version \in [Assets -> [Versions -> Contents \cup {None}]]
  /\ payload \in [Assets -> [Versions -> Contents \cup {None}]]
  /\ verified \subseteq Assets
  /\ call \in [Procs ->
       [step : {"idle", "version", "payload", "lifecycle", "verify"}, asset : Assets \cup {None},
        version : 0..MaxVersion, content : Contents \cup {None}, state : Lifecycles \cup {None}]]

Init ==
  /\ asset = [a \in Assets |-> NoAsset]
  /\ version = [a \in Assets |-> [v \in Versions |-> None]]
  /\ payload = [a \in Assets |-> [v \in Versions |-> None]]
  /\ verified = {}
  /\ call = [p \in Procs |-> NoCall]

Exists(a) == asset[a] # NoAsset
Does(p, new) == call' = [call EXCEPT ![p] = new]

(* The envelope, at version 0; its content is a hash of what was parsed. *)
Create(p, a, kind, c) ==
  /\ call[p] = NoCall /\ ~Exists(a)
  /\ asset' = [asset EXCEPT ![a] = [kind |-> kind, state |-> "draft", head |-> 0]]
  /\ Does(p, [step |-> "version", asset |-> a, version |-> 1, content |-> c, state |-> None])
  /\ UNCHANGED <<version, payload, verified>>

CreateMemoryRef(p, a, c) == Create(p, a, "memory_ref", c)
ImportSkillMd(p, a, c) == Create(p, a, "skill", c)
CreateReference(p, a, c) == Create(p, a, "external_reference", c)

(* appendSkillVersion: the head is read, in whatever state the skill is. *)
StartAppend(p, a, c) ==
  /\ call[p] = NoCall
  /\ asset[a].kind = "skill" /\ asset[a].head < MaxVersion
  /\ Does(p, [step |-> "version", asset |-> a, version |-> asset[a].head + 1,
               content |-> c, state |-> None])
  /\ UNCHANGED <<asset, version, payload, verified>>

(* Mutant: INSERT OR REPLACE, and no compare. *)
AdvancesAnyway(a, v) == TRUE

(* appendAssetVersion inserts under (asset, version) and compares the head in *)
(* one transaction.                                                           *)
Advances(a, v) == version[a][v] = None /\ asset[a].head = v - 1

AppendVersion(p) ==
  LET a == call[p].asset  v == call[p].version
  IN  /\ call[p].step = "version"
      /\ IF Advances(a, v)
         THEN /\ version' = [version EXCEPT ![a][v] = call[p].content]
              /\ asset' = [asset EXCEPT ![a].head = v]
              /\ Does(p, [call[p] EXCEPT !.step = "payload"])
         ELSE Does(p, NoCall) /\ UNCHANGED <<version, asset>>
      /\ UNCHANGED <<payload, verified>>

(* insertMemoryRefBinding, insertSkillRow, insertExternalReference: a        *)
(* statement of its own.                                                     *)
InsertPayload(p) ==
  LET a == call[p].asset  v == call[p].version
  IN  /\ call[p].step = "payload"
      /\ payload' = [payload EXCEPT ![a][v] = IF @ = None THEN call[p].content ELSE @]
      /\ Does(p, NoCall)
      /\ UNCHANGED <<asset, version, verified>>

(* setLifecycle: the state is read; archived is left for nothing else; *)
StartLifecycle(p, a) ==
  /\ call[p] = NoCall /\ Exists(a)
  /\ Does(p, [step |-> "lifecycle", asset |-> a, version |-> 0, content |-> None,
               state |-> asset[a].state])
  /\ UNCHANGED <<asset, version, payload, verified>>

StillIn(p) == asset[call[p].asset].state = call[p].state

(* a compare-and-set on the state that was read. *)
EndLifecycle(p, state) ==
  /\ call[p].step = "lifecycle"
  /\ call[p].state = "archived" => state = "archived"
  /\ asset' = IF StillIn(p) THEN [asset EXCEPT ![call[p].asset].state = state] ELSE asset
  /\ Does(p, NoCall)
  /\ UNCHANGED <<version, payload, verified>>

(* verify: the envelope is not archived, and the latest row is the version    *)
(* that was asked for;                                                        *)
StartVerify(p, a) ==
  /\ call[p] = NoCall
  /\ asset[a].kind = "external_reference" /\ asset[a].state # "archived"
  /\ payload[a][1] # None
  /\ Does(p, [step |-> "verify", asset |-> a, version |-> 1, content |-> None, state |-> None])
  /\ UNCHANGED <<asset, version, payload, verified>>

(* the update asks for the row of that version, and nothing else. *)
EndVerify(p) ==
  /\ call[p].step = "verify"
  /\ verified' = verified \cup {call[p].asset}
  /\ Does(p, NoCall)
  /\ UNCHANGED <<asset, version, payload>>

Crash(p) ==
  /\ call[p] # NoCall
  /\ Does(p, NoCall)
  /\ UNCHANGED <<asset, version, payload, verified>>

Next ==
  \E p \in Procs :
    \/ \E a \in Assets, c \in Contents :
         \/ CreateMemoryRef(p, a, c) \/ ImportSkillMd(p, a, c) \/ CreateReference(p, a, c)
         \/ StartAppend(p, a, c)
    \/ \E a \in Assets : StartLifecycle(p, a) \/ StartVerify(p, a)
    \/ EndVerify(p)
    \/ \E state \in Lifecycles : EndLifecycle(p, state)
    \/ AppendVersion(p) \/ InsertPayload(p) \/ Crash(p)

Spec == Init /\ [][Next]_vars

-----------------------------------------------------------------------------
(* SkillService.get of a version: the payload row, found or not. *)
Shown(a, v) == payload[a][v]

(* However creations, appends, archivings and crashes overlap: the versions  *)
(* of an asset are 1 up to its head, and a payload is the one the version     *)
(* names.                                                                     *)
VersionsAreContiguous ==
  \A a \in Assets, v \in Versions : (version[a][v] # None) <=> (v <= asset[a].head)

PayloadsMatch ==
  \A a \in Assets, v \in Versions : Shown(a, v) \in {None, version[a][v]}

VersionsHold == VersionsAreContiguous /\ PayloadsMatch

(* An archived asset stays archived. *)
KeepsArchived ==
  \A a \in Assets : asset[a].state = "archived" => asset'[a].state = "archived"
ArchivedIsFinal == [][KeepsArchived]_vars

(* An archived reference is not verified any more: verify refuses it. *)
VerifiesLive ==
  [][\A a \in verified' \ verified : asset[a].state # "archived"]_vars

(* The head of an asset has its payload once its writer is done. *)
HeadHasPayload ==
  \A a \in Assets :
    asset[a].head > 0 /\ (\A p \in Procs : call[p].asset # a) => Shown(a, asset[a].head) # None
=============================================================================
