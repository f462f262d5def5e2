---------------------------- MODULE ServicesProofs ----------------------------
(* What holds of assets, loadouts, projects and reads in Services for every   *)
(* value of its constants; and the properties that are about several parts,   *)
(* from the invariants of all of them.                                        *)

EXTENDS ServersProofs, SessionsProofs, FilesProofs

-----------------------------------------------------------------------------
(* Asset versions: AV in Services. *)

(* What the proof takes of the constants. *)
AssetBounds == MaxAssetVersion \in Nat \ {0} /\ None \notin Contents /\ None \notin AV!Lifecycles

(* The records of the tables and of the calls. *)
AssetRows == [kind : AV!Kinds \cup {None}, state : AV!Lifecycles \cup {None}, head : 0..MaxAssetVersion]
AssetChanges == [step : {"idle", "version", "payload", "lifecycle", "verify"}, asset : Assets \cup {None},
            version : 0..MaxAssetVersion, content : Contents \cup {None}, state : AV!Lifecycles \cup {None}]

(* A call that is not idle has an asset; one that appends has a version and a  *)
(* content, which the version has when the payload is to be inserted.          *)
AssetCallOK(p) ==
  /\ assetCall[p].step # "idle" => assetCall[p].asset \in Assets
  /\ assetCall[p].step \in {"version", "payload"} => assetCall[p].version \in AV!Versions /\ assetCall[p].content \in Contents
  /\ assetCall[p].step = "payload" => assetVersion[assetCall[p].asset][assetCall[p].version] = assetCall[p].content

(* The inductive invariant. *)
AssetInv ==
  /\ AV!TypeOK
  /\ \A p \in Procs : AssetCallOK(p)
  /\ AV!VersionsHold


(* The types of the variables, one by one. *)
LEMMA AssetTypesOf ==
  ASSUME AV!TypeOK
  PROVE  /\ asset \in [Assets -> AssetRows] /\ assetCall \in [Procs -> AssetChanges]
         /\ assetVersion \in [Assets -> [AV!Versions -> Contents \cup {None}]]
         /\ payload \in [Assets -> [AV!Versions -> Contents \cup {None}]]
BY DEF AV!TypeOK, AssetRows, AssetChanges

(* The types of the variables after a step. *)
LEMMA AssetTypesNext ==
  ASSUME asset' \in [Assets -> AssetRows], assetCall' \in [Procs -> AssetChanges],
         assetVersion' \in [Assets -> [AV!Versions -> Contents \cup {None}]],
         payload' \in [Assets -> [AV!Versions -> Contents \cup {None}]], verified' \subseteq Assets
  PROVE  AV!TypeOK'
BY DEF AV!TypeOK, AssetRows, AssetChanges

(* A record put together from values of its fields is a change. *)
LEMMA AssetChangeType ==
  ASSUME NEW s \in {"idle", "version", "payload", "lifecycle", "verify"}, NEW a \in Assets \cup {None},
         NEW v \in 0..MaxAssetVersion, NEW c \in Contents \cup {None}, NEW t \in AV!Lifecycles \cup {None}
  PROVE  [step |-> s, asset |-> a, version |-> v, content |-> c, state |-> t] \in AssetChanges
BY DEF AssetChanges

(* A call that is over, and an asset that is not there. *)
LEMMA AssetRests ==
  ASSUME AssetBounds
  PROVE  AV!NoCall \in AssetChanges /\ AV!NoCall.step = "idle" /\ AV!NoAsset \in AssetRows /\ AV!NoAsset.head = 0 /\ AV!NoAsset.state = None
BY DEF AV!NoCall, AssetChanges, AV!NoAsset, AssetRows, AssetBounds

(* It holds at first. *)
LEMMA AssetTypeInit == ASSUME AssetBounds PROVE AV!Init => AssetInv
<1> SUFFICES ASSUME AV!Init PROVE AssetInv
  OBVIOUS
<1>1. AV!TypeOK
  BY AssetRests DEF AV!Init, AV!TypeOK, AssetRows, AssetChanges
<1>2. \A p \in Procs : AssetCallOK(p)
  BY AssetRests DEF AV!Init, AssetCallOK
<1>3. AV!VersionsAreContiguous
  <2> SUFFICES ASSUME NEW a \in Assets, NEW v \in AV!Versions PROVE (assetVersion[a][v] # None) <=> (v <= asset[a].head)
    BY DEF AV!VersionsAreContiguous
  <2>1. assetVersion[a][v] = None /\ asset[a].head = 0
    BY AssetRests DEF AV!Init
  <2> QED BY <2>1 DEF AV!Versions
<1>4. AV!PayloadsMatch
  BY DEF AV!Init, AV!PayloadsMatch, AV!Shown
<1> QED BY <1>1, <1>2, <1>3, <1>4 DEF AssetInv, AV!VersionsHold

(* A step of one call that writes no version and at most an asset's state. *)
LEMMA AssetMove ==
  ASSUME AssetBounds, AssetInv, NEW p \in Procs, NEW k \in AssetChanges, assetCall' = [assetCall EXCEPT ![p] = k],
         asset' \in [Assets -> AssetRows], \A a \in Assets : asset'[a].head = asset[a].head,
         UNCHANGED assetVersion, payload' \in [Assets -> [AV!Versions -> Contents \cup {None}]],
         \A a \in Assets, v \in AV!Versions : payload'[a][v] \in {payload[a][v], assetVersion[a][v]},
         verified' \subseteq Assets,
         k.step # "idle" => k.asset \in Assets,
         k.step \in {"version", "payload"} => k.version \in AV!Versions /\ k.content \in Contents,
         k.step # "payload"
  PROVE  AssetInv'
<1>0. assetCall \in [Procs -> AssetChanges] /\ assetVersion \in [Assets -> [AV!Versions -> Contents \cup {None}]]
  BY AssetTypesOf DEF AssetInv
<1>1. assetCall' \in [Procs -> AssetChanges] /\ \A q \in Procs : assetCall'[q] = IF q = p THEN k ELSE assetCall[q]
  BY <1>0
<1>2. AV!TypeOK'
  BY <1>0, <1>1, AssetTypesNext
<1>3. \A q \in Procs : AssetCallOK(q)'
  BY <1>1 DEF AssetInv, AssetCallOK
<1>4. AV!VersionsAreContiguous'
  BY DEF AssetInv, AV!VersionsHold, AV!VersionsAreContiguous
<1>5. AV!PayloadsMatch'
  BY DEF AssetInv, AV!VersionsHold, AV!PayloadsMatch, AV!Shown
<1> QED BY <1>2, <1>3, <1>4, <1>5 DEF AssetInv, AV!VersionsHold

(* A step that moves one call and leaves the tables. *)
LEMMA AssetMoveOnly ==
  ASSUME AssetBounds, AssetInv, NEW p \in Procs, NEW k \in AssetChanges, assetCall' = [assetCall EXCEPT ![p] = k],
         UNCHANGED <<asset, assetVersion, payload>>, verified' \subseteq Assets,
         k.step # "idle" => k.asset \in Assets,
         k.step \in {"version", "payload"} => k.version \in AV!Versions /\ k.content \in Contents,
         k.step # "payload"
  PROVE  AssetInv' /\ AV!KeepsArchived
<1>1. asset' \in [Assets -> AssetRows] /\ payload' \in [Assets -> [AV!Versions -> Contents \cup {None}]]
  BY AssetTypesOf DEF AssetInv
<1>2. AssetInv'
  BY <1>1, AssetMove
<1> QED BY <1>2 DEF AV!KeepsArchived

(* An asset is created with its first version. *)
LEMMA AssetCreateKeeps ==
  ASSUME AssetBounds, AssetInv, NEW p \in Procs, NEW a \in Assets, NEW c \in Contents, NEW kind \in AV!Kinds, AV!Create(p, a, kind, c)
  PROVE  AssetInv' /\ AV!KeepsArchived
<1>0. asset \in [Assets -> AssetRows] /\ payload \in [Assets -> [AV!Versions -> Contents \cup {None}]]
  BY AssetTypesOf DEF AssetInv
<1> PICK k : k = [step |-> "version", asset |-> a, version |-> 1, content |-> c, state |-> None]
  OBVIOUS
<1>2. 1 \in 0..MaxAssetVersion /\ 1 \in AV!Versions
  BY DEF AssetBounds, AV!Versions
<1>3. k \in AssetChanges /\ k.step = "version" /\ k.asset = a /\ k.version = 1 /\ k.content = c
  <2>1. k \in AssetChanges
    BY <1>2, AssetChangeType
  <2> QED BY <2>1
<1> PICK r : r = [kind |-> kind, state |-> "draft", head |-> 0]
  OBVIOUS
<1>4. r \in AssetRows /\ r.head = 0
  BY DEF AssetRows, AV!Lifecycles, AssetBounds
<1>5. assetCall' = [assetCall EXCEPT ![p] = k] /\ asset' = [asset EXCEPT ![a] = r] /\ asset[a] = AV!NoAsset
      /\ UNCHANGED <<assetVersion, payload, verified>>
  BY DEF AV!Create, AV!Does, AV!Exists
<1>6. asset' \in [Assets -> AssetRows] /\ \A b \in Assets : asset'[b] = IF b = a THEN r ELSE asset[b]
  BY <1>0, <1>4, <1>5
<1>7. \A b \in Assets : asset'[b].head = asset[b].head
  BY <1>4, <1>5, <1>6, AssetRests
<1>8. verified' \subseteq Assets
  BY <1>5 DEF AssetInv, AV!TypeOK
<1>9. AssetInv'
  BY <1>0, <1>2, <1>3, <1>5, <1>6, <1>7, <1>8, AssetMove
<1>10. asset[a].state # "archived"
  BY <1>5, AssetRests DEF AssetBounds, AV!Lifecycles
<1>11. AV!KeepsArchived
  BY <1>6, <1>10 DEF AV!KeepsArchived
<1> QED BY <1>9, <1>11

(* A call reads the asset it is to change. *)
LEMMA AssetStartsKeep ==
  ASSUME AssetBounds, AssetInv, NEW p \in Procs, NEW a \in Assets,
         (\E c \in Contents : AV!StartAppend(p, a, c)) \/ AV!StartLifecycle(p, a) \/ AV!StartVerify(p, a)
  PROVE  AssetInv' /\ AV!KeepsArchived
<1>0. asset[a] \in AssetRows /\ asset[a].head \in 0..MaxAssetVersion /\ asset[a].state \in AV!Lifecycles \cup {None}
      /\ verified \subseteq Assets
  BY AssetTypesOf DEF AssetInv, AssetRows, AV!TypeOK
<1>a. 0 \in 0..MaxAssetVersion /\ 1 \in 0..MaxAssetVersion
  BY DEF AssetBounds
<1>1. ASSUME NEW c \in Contents, AV!StartAppend(p, a, c) PROVE AssetInv' /\ AV!KeepsArchived
  <2> PICK v : v = asset[a].head + 1
    OBVIOUS
  <2> PICK k : k = [step |-> "version", asset |-> a, version |-> v, content |-> c, state |-> None]
    OBVIOUS
  <2>0. asset[a].head < MaxAssetVersion
    BY <1>1 DEF AV!StartAppend
  <2>2. v \in 0..MaxAssetVersion /\ v \in AV!Versions
    BY <1>0, <2>0 DEF AssetBounds, AV!Versions
  <2>3. k \in AssetChanges /\ k.step = "version" /\ k.asset = a /\ k.version \in AV!Versions /\ k.content = c
    <3>1. k \in AssetChanges
      BY <2>2, AssetChangeType
    <3> QED BY <2>2, <3>1
  <2>4. assetCall' = [assetCall EXCEPT ![p] = k] /\ UNCHANGED <<asset, assetVersion, payload, verified>>
    BY <1>1 DEF AV!StartAppend, AV!Does
  <2> QED BY <1>0, <2>3, <2>4, AssetMoveOnly
<1>2. CASE AV!StartLifecycle(p, a)
  <2> PICK t \in AV!Lifecycles \cup {None} : t = asset[a].state
    BY <1>0
  <2> PICK k : k = [step |-> "lifecycle", asset |-> a, version |-> 0, content |-> None, state |-> t]
    OBVIOUS
  <2>2. k \in AssetChanges /\ k.step = "lifecycle" /\ k.asset = a
    <3>1. k \in AssetChanges
      BY <1>a, AssetChangeType
    <3> QED BY <3>1
  <2>3. assetCall' = [assetCall EXCEPT ![p] = k] /\ UNCHANGED <<asset, assetVersion, payload, verified>>
    BY <1>2 DEF AV!StartLifecycle, AV!Does
  <2> QED BY <1>0, <2>2, <2>3, AssetMoveOnly
<1>3. CASE AV!StartVerify(p, a)
  <2> PICK k : k = [step |-> "verify", asset |-> a, version |-> 1, content |-> None, state |-> None]
    OBVIOUS
  <2>2. k \in AssetChanges /\ k.step = "verify" /\ k.asset = a
    <3>1. k \in AssetChanges
      BY <1>a, AssetChangeType
    <3> QED BY <3>1
  <2>3. assetCall' = [assetCall EXCEPT ![p] = k] /\ UNCHANGED <<asset, assetVersion, payload, verified>>
    BY <1>3 DEF AV!StartVerify, AV!Does
  <2> QED BY <1>0, <2>2, <2>3, AssetMoveOnly
<1> QED BY <1>1, <1>2, <1>3

(* The version row is appended. *)
LEMMA AssetAppendKeeps ==
  ASSUME AssetBounds, AssetInv, NEW p \in Procs, AV!AppendVersion(p) PROVE AssetInv' /\ AV!KeepsArchived
<1>0. /\ asset \in [Assets -> AssetRows] /\ assetCall \in [Procs -> AssetChanges] /\ assetCall[p] \in AssetChanges
      /\ assetVersion \in [Assets -> [AV!Versions -> Contents \cup {None}]]
      /\ payload \in [Assets -> [AV!Versions -> Contents \cup {None}]] /\ verified \subseteq Assets
  BY AssetTypesOf DEF AssetInv, AV!TypeOK
<1> PICK a : a = assetCall[p].asset
  OBVIOUS
<1> PICK v : v = assetCall[p].version
  OBVIOUS
<1> PICK c : c = assetCall[p].content
  OBVIOUS
<1>1. a \in Assets /\ v \in AV!Versions /\ c \in Contents /\ c # None /\ UNCHANGED <<payload, verified>>
  BY DEF AV!AppendVersion, AssetInv, AssetCallOK, AssetBounds
<1>2. CASE ~AV!Advances(a, v)
  <2>1. assetCall' = [assetCall EXCEPT ![p] = AV!NoCall] /\ UNCHANGED <<assetVersion, asset>>
    BY <1>2 DEF AV!AppendVersion, AV!Does
  <2> QED BY <1>0, <1>1, <2>1, AssetRests, AssetMoveOnly
<1>3. CASE AV!Advances(a, v)
  <2> PICK k : k = [assetCall[p] EXCEPT !.step = "payload"]
    OBVIOUS
  <2>1. k \in AssetChanges /\ k.step = "payload" /\ k.asset = a /\ k.version = v /\ k.content = c
    BY <1>0 DEF AssetChanges
  <2>2. assetCall' = [assetCall EXCEPT ![p] = k]
    BY <1>3 DEF AV!AppendVersion, AV!Does
  <2> PICK s : s = [assetVersion[a] EXCEPT ![v] = c]
    OBVIOUS
  <2>3. s \in [AV!Versions -> Contents \cup {None}] /\ \A u \in AV!Versions : s[u] = IF u = v THEN c ELSE assetVersion[a][u]
    BY <1>0, <1>1
  <2>4. assetVersion' = [assetVersion EXCEPT ![a] = s]
    BY <1>3 DEF AV!AppendVersion
  <2> PICK r : r = [asset[a] EXCEPT !.head = v]
    OBVIOUS
  <2>5. r \in AssetRows /\ r.head = v /\ r.state = asset[a].state
    <3>1. v \in 0..MaxAssetVersion
      BY <1>1 DEF AV!Versions
    <3> QED BY <1>0, <1>1, <3>1 DEF AssetRows
  <2>6. asset' = [asset EXCEPT ![a] = r]
    BY <1>3 DEF AV!AppendVersion
  <2>7. assetVersion' \in [Assets -> [AV!Versions -> Contents \cup {None}]]
        /\ \A b \in Assets : assetVersion'[b] = IF b = a THEN s ELSE assetVersion[b]
    BY <1>0, <1>1, <2>3, <2>4
  <2>8. asset' \in [Assets -> AssetRows] /\ \A b \in Assets : asset'[b] = IF b = a THEN r ELSE asset[b]
    BY <1>0, <1>1, <2>5, <2>6
  <2>9. assetCall' \in [Procs -> AssetChanges] /\ \A q \in Procs : assetCall'[q] = IF q = p THEN k ELSE assetCall[q]
    BY <1>0, <2>1, <2>2
  <2>10. assetVersion[a][v] = None /\ asset[a].head = v - 1
    BY <1>3 DEF AV!Advances
  <2>11. \A b \in Assets, u \in AV!Versions : assetVersion[b][u] # None => assetVersion'[b][u] = assetVersion[b][u]
    BY <2>3, <2>7, <2>10
  <2>12. AV!TypeOK'
    BY <1>0, <1>1, <2>7, <2>8, <2>9, AssetTypesNext
  <2>13. ASSUME NEW q \in Procs PROVE AssetCallOK(q)'
    <3>1. CASE q = p
      <4>1. assetVersion'[a][v] = c
        BY <1>1, <2>3, <2>7
      <4> QED BY <1>1, <2>1, <2>9, <3>1, <4>1 DEF AssetCallOK
    <3>2. CASE q # p
      <4>1. assetCall'[q] = assetCall[q] /\ AssetCallOK(q)
        BY <2>9, <3>2 DEF AssetInv
      <4>2. assetCall[q].step = "payload" => assetVersion[assetCall[q].asset][assetCall[q].version] # None
        BY <4>1 DEF AssetCallOK, AssetBounds
      <4> QED BY <2>11, <4>1, <4>2 DEF AssetCallOK
    <3> QED BY <3>1, <3>2
  <2>14. AV!VersionsAreContiguous'
    <3> SUFFICES ASSUME NEW b \in Assets, NEW u \in AV!Versions PROVE (assetVersion'[b][u] # None) <=> (u <= asset'[b].head)
      BY DEF AV!VersionsAreContiguous
    <3>1. (assetVersion[b][u] # None) <=> (u <= asset[b].head)
      BY DEF AssetInv, AV!VersionsHold, AV!VersionsAreContiguous
    <3>2. CASE b # a
      BY <2>7, <2>8, <3>1, <3>2
    <3>3. CASE b = a
      <4>1. asset'[b].head = v /\ assetVersion'[b][u] = IF u = v THEN c ELSE assetVersion[a][u]
        BY <2>3, <2>5, <2>7, <2>8, <3>3
      <4>2. u \in Nat /\ v \in Nat
        BY <1>1 DEF AV!Versions
      <4> QED BY <1>1, <2>10, <3>1, <3>3, <4>1, <4>2
    <3> QED BY <3>2, <3>3
  <2>15. AV!PayloadsMatch'
    <3> SUFFICES ASSUME NEW b \in Assets, NEW u \in AV!Versions PROVE payload[b][u] \in {None, assetVersion'[b][u]}
      BY <1>1 DEF AV!PayloadsMatch, AV!Shown
    <3>1. payload[b][u] \in {None, assetVersion[b][u]}
      BY DEF AssetInv, AV!VersionsHold, AV!PayloadsMatch, AV!Shown
    <3> QED BY <2>11, <3>1
  <2>16. AV!KeepsArchived
    BY <2>5, <2>8 DEF AV!KeepsArchived
  <2> QED BY <2>12, <2>13, <2>14, <2>15, <2>16 DEF AssetInv, AV!VersionsHold
<1> QED BY <1>2, <1>3

(* The payload of the version is written. *)
LEMMA AssetPayloadKeeps ==
  ASSUME AssetBounds, AssetInv, NEW p \in Procs, AV!InsertPayload(p) PROVE AssetInv' /\ AV!KeepsArchived
<1>0. /\ asset \in [Assets -> AssetRows] /\ payload \in [Assets -> [AV!Versions -> Contents \cup {None}]]
      /\ assetVersion \in [Assets -> [AV!Versions -> Contents \cup {None}]] /\ verified \subseteq Assets
  BY AssetTypesOf DEF AssetInv, AV!TypeOK
<1> PICK a : a = assetCall[p].asset
  OBVIOUS
<1> PICK v : v = assetCall[p].version
  OBVIOUS
<1>1. a \in Assets /\ v \in AV!Versions /\ assetCall[p].content \in Contents /\ assetVersion[a][v] = assetCall[p].content
  BY DEF AV!InsertPayload, AssetInv, AssetCallOK
<1> PICK n : n = IF payload[a][v] = None THEN assetCall[p].content ELSE payload[a][v]
  OBVIOUS
<1> PICK s : s = [payload[a] EXCEPT ![v] = n]
  OBVIOUS
<1>2. n \in Contents \cup {None} /\ n \in {payload[a][v], assetVersion[a][v]}
  BY <1>0, <1>1
<1>3. s \in [AV!Versions -> Contents \cup {None}] /\ \A u \in AV!Versions : s[u] = IF u = v THEN n ELSE payload[a][u]
  BY <1>0, <1>1, <1>2
<1>4. payload' = [payload EXCEPT ![a] = s] /\ assetCall' = [assetCall EXCEPT ![p] = AV!NoCall] /\ UNCHANGED <<asset, assetVersion, verified>>
  BY DEF AV!InsertPayload, AV!Does
<1>5. payload' \in [Assets -> [AV!Versions -> Contents \cup {None}]]
      /\ \A b \in Assets : payload'[b] = IF b = a THEN s ELSE payload[b]
  BY <1>0, <1>1, <1>3, <1>4
<1>6. \A b \in Assets, u \in AV!Versions : payload'[b][u] \in {payload[b][u], assetVersion[b][u]}
  BY <1>2, <1>3, <1>5
<1>7. AssetInv'
  BY <1>0, <1>4, <1>5, <1>6, AssetRests, AssetMove
<1> QED BY <1>4, <1>7 DEF AV!KeepsArchived

(* A call ends: its lifecycle, its verification, its failure. *)
LEMMA AssetEndsKeep ==
  ASSUME AssetBounds, AssetInv, NEW p \in Procs, AV!EndVerify(p) \/ AV!Crash(p) \/ \E state \in AV!Lifecycles : AV!EndLifecycle(p, state)
  PROVE  AssetInv' /\ AV!KeepsArchived
<1>0. asset \in [Assets -> AssetRows] /\ verified \subseteq Assets
      /\ payload \in [Assets -> [AV!Versions -> Contents \cup {None}]]
  BY AssetTypesOf DEF AssetInv, AV!TypeOK
<1>1. CASE AV!EndVerify(p)
  <2>1. assetCall' = [assetCall EXCEPT ![p] = AV!NoCall] /\ verified' = verified \cup {assetCall[p].asset} /\ UNCHANGED <<asset, assetVersion, payload>>
    BY <1>1 DEF AV!EndVerify, AV!Does
  <2>2. assetCall[p].asset \in Assets
    BY <1>1 DEF AV!EndVerify, AssetInv, AssetCallOK
  <2> QED BY <1>0, <2>1, <2>2, AssetRests, AssetMoveOnly
<1>2. CASE AV!Crash(p)
  <2>1. assetCall' = [assetCall EXCEPT ![p] = AV!NoCall] /\ UNCHANGED <<asset, assetVersion, payload, verified>>
    BY <1>2 DEF AV!Crash, AV!Does
  <2> QED BY <1>0, <2>1, AssetRests, AssetMoveOnly
<1>3. ASSUME NEW state \in AV!Lifecycles, AV!EndLifecycle(p, state) PROVE AssetInv' /\ AV!KeepsArchived
  <2> PICK a : a = assetCall[p].asset
    OBVIOUS
  <2>1. a \in Assets /\ (assetCall[p].state = "archived" => state = "archived")
    BY <1>3 DEF AV!EndLifecycle, AssetInv, AssetCallOK
  <2>2. assetCall' = [assetCall EXCEPT ![p] = AV!NoCall] /\ UNCHANGED <<assetVersion, payload, verified>>
    BY <1>3 DEF AV!EndLifecycle, AV!Does
  <2>3. CASE ~AV!StillIn(p)
    <3>1. asset' = asset
      BY <1>3, <2>3 DEF AV!EndLifecycle
    <3> QED BY <1>0, <2>2, <3>1, AssetRests, AssetMoveOnly
  <2>4. CASE AV!StillIn(p)
    <3> PICK r : r = [asset[a] EXCEPT !.state = state]
      OBVIOUS
    <3>1. r \in AssetRows /\ r.head = asset[a].head /\ r.state = state
      BY <1>0, <2>1 DEF AssetRows
    <3>2. asset' = [asset EXCEPT ![a] = r]
      BY <1>3, <2>4 DEF AV!EndLifecycle
    <3>3. asset' \in [Assets -> AssetRows] /\ \A b \in Assets : asset'[b] = IF b = a THEN r ELSE asset[b]
      BY <1>0, <2>1, <3>1, <3>2
    <3>4. \A b \in Assets : asset'[b].head = asset[b].head
      BY <3>1, <3>3
    <3>5. asset[a].state = "archived" => state = "archived"
      BY <2>1, <2>4 DEF AV!StillIn
    <3>6. AV!KeepsArchived
      BY <3>1, <3>3, <3>5 DEF AV!KeepsArchived
    <3>7. AssetInv'
      BY <1>0, <2>2, <3>3, <3>4, AssetRests, AssetMove
    <3> QED BY <3>6, <3>7
  <2> QED BY <2>3, <2>4
<1> QED BY <1>1, <1>2, <1>3

(* So every step keeps the invariant. *)
LEMMA AssetNextKeeps == ASSUME AssetBounds PROVE AssetInv /\ [AV!Next]_(AV!vars) => AssetInv' /\ AV!KeepsArchived
<1> SUFFICES ASSUME AssetInv, [AV!Next]_(AV!vars) PROVE AssetInv' /\ AV!KeepsArchived
  OBVIOUS
<1>1. CASE UNCHANGED AV!vars
  BY <1>1 DEF AV!vars, AssetInv, AV!TypeOK, AssetCallOK, AV!VersionsHold, AV!VersionsAreContiguous, AV!PayloadsMatch, AV!Shown, AV!KeepsArchived
<1>2. CASE AV!Next
  <2>1. {"memory_ref", "skill", "external_reference"} = AV!Kinds
    BY DEF AV!Kinds
  <2> QED BY <1>2, <2>1, AssetCreateKeeps, AssetStartsKeep, AssetAppendKeeps, AssetPayloadKeeps, AssetEndsKeep
        DEF AV!Next, AV!CreateMemoryRef, AV!ImportSkillMd, AV!CreateReference
<1> QED BY <1>1, <1>2

(* The constants are so. *)
LEMMA AssetBoundsHold == AssetBounds
BY AbsentAssumption, BoundsAssumption DEF AssetBounds

(* A step of the whole is one of this part, if it is its turn. *)
LEMMA AssetTurn ==
  ASSUME [Next]_vars
  PROVE  part' = part /\ (part = "assets" => [AV!Next]_(AV!vars))
<1>1. part' = part
  BY DEF Next, vars, Only
<1>2. part = "assets" => [AV!Next]_(AV!vars)
  BY DEF Next, vars, Only, AV!vars, assetsVars
<1> QED BY <1>1, <1>2

(* So the invariant holds whenever this part moves. *)
LEMMA AssetAlways == Spec => [](part = "assets" => AssetInv)
<1>1. Init => (part = "assets" => AssetInv)
  BY AssetBoundsHold, AssetTypeInit DEF Init
<1>2. (part = "assets" => AssetInv) /\ [Next]_vars => (part = "assets" => AssetInv)'
  BY AssetBoundsHold, AssetNextKeeps, AssetTurn
<1> QED BY <1>1, <1>2, PTL DEF Spec

-----------------------------------------------------------------------------
(* Loadouts: LO in Services. *)

(* The set operators of the instance are those of this module. *)
LEMMA LoadoutSame ==
  /\ \A S : LO!Min(S) = Min(S)
<1>1. \A S : LO!Min(S) = Min(S)
  BY DEF LO!Min, Min
<1> QED BY <1>1

(* What the proof takes of the constants. *)
LoadoutBounds == MaxLoadoutVersion \in Nat \ {0} /\ MaxBindings \in Nat

(* The records of the updates. *)
LoadoutUpdates == [version : 0..MaxLoadoutVersion, channels : SUBSET Channels]

(* The inductive invariant. *)
LoadoutInv ==
  /\ LO!TypeOK
  /\ \A p \in Procs : loadoutsUpdate[p] # LO!Idle => loadoutsUpdate[p].version \in LO!Versions
  /\ LO!RulesOfOneUpdate

(* Two sequences joined. *)
LEMMA LoadoutJoined ==
  ASSUME NEW S, NEW s \in Seq(S), NEW t \in Seq(S)
  PROVE  s \o t \in Seq(S) /\ Len(s \o t) = Len(s) + Len(t) /\ Len(s) \in Nat /\ Len(t) \in Nat
<1>1. s \o t \in Seq(S)
  OBVIOUS
<1>2. Len(s \o t) = Len(s) + Len(t)
  OBVIOUS
<1>3. Len(s) \in Nat /\ Len(t) \in Nat
  OBVIOUS
<1> QED BY <1>1, <1>2, <1>3

(* A sequence without one of its elements. *)
LEMMA LoadoutBound ==
  ASSUME NEW b \in Seq(LO!Binding), NEW i \in 1..Len(b)
  PROVE  LO!RemoveAt(b, i) \in Seq(LO!Binding) /\ Len(LO!RemoveAt(b, i)) <= Len(b)
<1>1. /\ SubSeq(b, 1, i-1) \in Seq(LO!Binding) /\ SubSeq(b, i+1, Len(b)) \in Seq(LO!Binding)
      /\ Len(SubSeq(b, 1, i-1)) = i - 1 /\ Len(SubSeq(b, i+1, Len(b))) = Len(b) - i
  OBVIOUS
<1>2. PICK s \in Seq(LO!Binding), t \in Seq(LO!Binding) : LO!RemoveAt(b, i) = s \o t /\ Len(s) = i - 1 /\ Len(t) = Len(b) - i
  BY <1>1 DEF LO!RemoveAt
<1>3. s \o t \in Seq(LO!Binding) /\ Len(s \o t) = Len(s) + Len(t)
  BY <1>2, LoadoutJoined
<1>4. Len(b) \in Nat
  OBVIOUS
<1>5. (i - 1) + (Len(b) - i) <= Len(b)
  BY <1>4
<1> QED BY <1>2, <1>3, <1>5

(* It holds at first. *)
LEMMA LoadoutTypeInit == ASSUME LoadoutBounds PROVE LO!Init => LoadoutInv
<1> SUFFICES ASSUME LO!Init PROVE LoadoutInv
  OBVIOUS
<1>1. 1 \in LO!Versions /\ 0 \in 0..MaxLoadoutVersion /\ 0 <= MaxBindings
  BY DEF LoadoutBounds, LO!Versions
<1>2. rules \in [LO!Versions -> [Channels -> Procs \cup {None}]]
  BY DEF LO!Init
<1>3. bindings \in Seq(LO!Binding) /\ Len(bindings) = 0
  BY DEF LO!Init
<1>4. loadoutsUpdate \in [Procs -> LoadoutUpdates]
  BY <1>1 DEF LO!Init, LO!Idle, LoadoutUpdates
<1>5. LO!TypeOK
  BY <1>1, <1>2, <1>3, <1>4 DEF LO!Init, LO!TypeOK, LoadoutUpdates
<1>6. LO!RulesOfOneUpdate
  BY DEF LO!Init, LO!RulesOfOneUpdate
<1> QED BY <1>5, <1>6 DEF LO!Init, LoadoutInv

(* A step that moves one update and leaves the tables. *)
LEMMA LoadoutStartKeeps ==
  ASSUME LoadoutBounds, LoadoutInv, NEW p \in Procs, NEW u, loadoutsUpdate' = [loadoutsUpdate EXCEPT ![p] = u],
         u = LO!Idle \/ (u \in LoadoutUpdates /\ u.version \in LO!Versions), UNCHANGED <<loadoutsHead, rules, bindings>>
  PROVE  LoadoutInv'
<1>0. loadoutsUpdate \in [Procs -> LoadoutUpdates]
  BY DEF LoadoutInv, LO!TypeOK, LoadoutUpdates
<1>1. u \in LoadoutUpdates
  BY DEF LoadoutUpdates, LO!Idle, LoadoutBounds
<1>2. loadoutsUpdate' \in [Procs -> LoadoutUpdates] /\ \A q \in Procs : loadoutsUpdate'[q] = IF q = p THEN u ELSE loadoutsUpdate[q]
  BY <1>0, <1>1
<1>3. LO!TypeOK'
  BY <1>2 DEF LoadoutInv, LO!TypeOK, LoadoutUpdates
<1>4. \A q \in Procs : loadoutsUpdate'[q] # LO!Idle => loadoutsUpdate'[q].version \in LO!Versions
  BY <1>2 DEF LoadoutInv
<1> QED BY <1>3, <1>4 DEF LoadoutInv, LO!RulesOfOneUpdate

(* An update writes its rules. *)
LEMMA LoadoutEndKeeps ==
  ASSUME LoadoutBounds, LoadoutInv, NEW p \in Procs, LO!EndUpdate(p), LO!StillFree(p) PROVE LoadoutInv'
<1> PICK v : v = loadoutsUpdate[p].version
  OBVIOUS
<1> PICK cs : cs = loadoutsUpdate[p].channels
  OBVIOUS
<1>0. loadoutsUpdate \in [Procs -> LoadoutUpdates] /\ rules \in [LO!Versions -> [Channels -> Procs \cup {None}]] /\ loadoutsHead \in LO!Versions
  BY DEF LoadoutInv, LO!TypeOK, LoadoutUpdates
<1>1. v \in LO!Versions /\ loadoutsHead = v - 1 /\ \A c \in cs : rules[v][c] = None
  BY DEF LO!EndUpdate, LO!StillFree, LO!FreeOfOthers, LoadoutInv
<1> PICK r : r = [c \in Channels |-> IF c \in cs THEN p ELSE rules[v][c]]
  OBVIOUS
<1>2. r \in [Channels -> Procs \cup {None}] /\ \A c \in Channels : r[c] = IF c \in cs THEN p ELSE rules[v][c]
  BY <1>0, <1>1
<1>3. rules' = [rules EXCEPT ![v] = r] /\ loadoutsHead' = v /\ loadoutsUpdate' = [loadoutsUpdate EXCEPT ![p] = LO!Idle] /\ UNCHANGED bindings
  BY <1>1 DEF LO!EndUpdate
<1>4. rules' \in [LO!Versions -> [Channels -> Procs \cup {None}]]
      /\ \A w \in LO!Versions : rules'[w] = IF w = v THEN r ELSE rules[w]
  BY <1>0, <1>1, <1>2, <1>3
<1>5. LO!Idle \in LoadoutUpdates
  BY DEF LO!Idle, LoadoutUpdates, LoadoutBounds
<1>6. loadoutsUpdate' \in [Procs -> LoadoutUpdates] /\ \A q \in Procs : loadoutsUpdate'[q] = IF q = p THEN LO!Idle ELSE loadoutsUpdate[q]
  BY <1>0, <1>3, <1>5
<1>7. LO!TypeOK'
  BY <1>1, <1>3, <1>4, <1>6 DEF LoadoutInv, LO!TypeOK, LoadoutUpdates
<1>8. LO!RulesOfOneUpdate'
  <2> SUFFICES ASSUME NEW w \in LO!Versions, NEW c \in Channels, NEW d \in Channels
               PROVE  /\ rules'[w][c] # None /\ rules'[w][d] # None => rules'[w][c] = rules'[w][d]
                      /\ rules'[w][c] # None => w <= loadoutsHead'
    BY DEF LO!RulesOfOneUpdate
  <2>1. /\ rules[w][c] # None /\ rules[w][d] # None => rules[w][c] = rules[w][d]
        /\ rules[w][c] # None => w <= loadoutsHead
        /\ rules[w][d] # None => w <= loadoutsHead
    BY DEF LoadoutInv, LO!RulesOfOneUpdate
  <2>2. w \in Nat /\ v \in Nat
    BY <1>1 DEF LO!Versions
  <2>3. CASE w = v
    BY <1>1, <1>2, <1>3, <1>4, <2>1, <2>2, <2>3
  <2>4. CASE w # v
    BY <1>1, <1>3, <1>4, <2>1, <2>2, <2>4
  <2> QED BY <2>3, <2>4
<1>9. \A q \in Procs : loadoutsUpdate'[q] # LO!Idle => loadoutsUpdate'[q].version \in LO!Versions
  BY <1>6 DEF LoadoutInv
<1> QED BY <1>7, <1>8, <1>9 DEF LoadoutInv

(* A binding is added or removed. *)
LEMMA LoadoutBindKeeps ==
  ASSUME LoadoutBounds, LoadoutInv, (\E b \in LO!Binding : LO!Bind(b)) \/ \E i \in DOMAIN bindings : LO!Unbind(i) PROVE LoadoutInv'
<1>0. bindings \in Seq(LO!Binding) /\ Len(bindings) <= MaxBindings /\ Len(bindings) \in Nat
  BY DEF LoadoutInv, LO!TypeOK
<1>1. bindings' \in Seq(LO!Binding) /\ Len(bindings') <= MaxBindings /\ UNCHANGED <<loadoutsHead, rules, loadoutsUpdate>>
  <2>1. ASSUME NEW b \in LO!Binding, LO!Bind(b) PROVE bindings' \in Seq(LO!Binding) /\ Len(bindings') <= MaxBindings
    <3>1. bindings' = Append(bindings, b) /\ Len(bindings) < MaxBindings
      BY <2>1 DEF LO!Bind
    <3>2. Append(bindings, b) \in Seq(LO!Binding) /\ Len(Append(bindings, b)) = Len(bindings) + 1
      BY <1>0
    <3> QED BY <1>0, <3>1, <3>2 DEF LoadoutBounds
  <2>2. ASSUME NEW i \in DOMAIN bindings, LO!Unbind(i) PROVE bindings' \in Seq(LO!Binding) /\ Len(bindings') <= MaxBindings
    <3>1. i \in 1..Len(bindings)
      BY <1>0
    <3>2. bindings' = LO!RemoveAt(bindings, i)
      BY <2>2 DEF LO!Unbind
    <3>3. LO!RemoveAt(bindings, i) \in Seq(LO!Binding) /\ Len(LO!RemoveAt(bindings, i)) <= Len(bindings)
      BY <1>0, <3>1, LoadoutBound
    <3>4. Len(LO!RemoveAt(bindings, i)) \in Nat
      BY <3>3
    <3> QED BY <1>0, <3>2, <3>3, <3>4 DEF LoadoutBounds
  <2> QED BY <2>1, <2>2 DEF LO!Bind, LO!Unbind
<1>2. LO!TypeOK'
  BY <1>1 DEF LoadoutInv, LO!TypeOK
<1> QED BY <1>1, <1>2 DEF LoadoutInv, LO!RulesOfOneUpdate

(* So every step keeps the invariant. *)
LEMMA LoadoutNextKeeps == ASSUME LoadoutBounds, LoadoutInv, [LO!Next]_(LO!vars) PROVE LoadoutInv'
<1>1. ASSUME NEW p \in Procs, NEW channels \in SUBSET Channels, LO!StartUpdate(p, channels) PROVE LoadoutInv'
  <2> PICK n : n = loadoutsHead + 1
    OBVIOUS
  <2> PICK u : u = [version |-> n, channels |-> channels]
    OBVIOUS
  <2>1. n \in 0..MaxLoadoutVersion /\ n \in LO!Versions
    BY <1>1 DEF LO!StartUpdate, LoadoutInv, LO!TypeOK, LO!Versions, LoadoutBounds
  <2>2. u \in LoadoutUpdates /\ u.version \in LO!Versions
    BY <2>1 DEF LoadoutUpdates
  <2>3. loadoutsUpdate' = [loadoutsUpdate EXCEPT ![p] = u] /\ UNCHANGED <<loadoutsHead, rules, bindings>>
    BY <1>1 DEF LO!StartUpdate
  <2> QED BY <2>2, <2>3, LoadoutStartKeeps
<1>2. ASSUME NEW p \in Procs, LO!EndUpdate(p) \/ LO!Crash(p) PROVE LoadoutInv'
  <2>1. CASE LO!EndUpdate(p) /\ LO!StillFree(p)
    BY <2>1, LoadoutEndKeeps
  <2>2. CASE LO!Crash(p) \/ (LO!EndUpdate(p) /\ ~LO!StillFree(p))
    <3>1. loadoutsUpdate' = [loadoutsUpdate EXCEPT ![p] = LO!Idle] /\ UNCHANGED <<loadoutsHead, rules, bindings>>
      BY <2>2 DEF LO!EndUpdate, LO!Crash
    <3> QED BY <3>1, LoadoutStartKeeps
  <2> QED BY <1>2, <2>1, <2>2
<1>3. CASE (\E b \in LO!Binding : LO!Bind(b)) \/ \E i \in DOMAIN bindings : LO!Unbind(i)
  BY <1>3, LoadoutBindKeeps
<1>4. CASE UNCHANGED LO!vars
  <2>1. LO!TypeOK'
    BY <1>4 DEF LO!vars, LoadoutInv, LO!TypeOK
  <2> QED BY <1>4, <2>1 DEF LO!vars, LoadoutInv, LO!RulesOfOneUpdate
<1> QED BY <1>1, <1>2, <1>3, <1>4 DEF LO!Next

(* What a default would find the level of actor and project has found. *)
LEMMA LoadoutDefaults == LO!DefaultsAreNotReached
<1> SUFFICES ASSUME NEW call \in LO!Calls PROVE LO!Resolved(call).level \notin {"project_default", "global_default"}
  BY DEF LO!DefaultsAreNotReached
<1> DEFINE hits == {k \in DOMAIN LO!Levels : LO!Found(LO!Levels[k], call) # {}}
<1>1. DOMAIN LO!Levels = 1..4 /\ LO!Levels[1] = "actor_project_task" /\ LO!Levels[2] = "actor_project"
      /\ LO!Levels[3] = "project_default" /\ LO!Levels[4] = "global_default"
  BY DEF LO!Levels
<1>2. \A b : LO!Level("project_default", b, call) \/ LO!Level("global_default", b, call) => LO!Level("actor_project", b, call)
  BY DEF LO!Level
<1>3. 3 \in hits \/ 4 \in hits => 2 \in hits
  BY <1>1, <1>2 DEF LO!Found
<1>4. ASSUME hits # {} PROVE Min(hits) \in {1, 2}
  <2>1. 1 \in hits \/ 2 \in hits
    BY <1>1, <1>3, <1>4
  <2>2. hits \subseteq 1..4
    BY <1>1
  <2> HIDE DEF hits
  <2>3. \E x \in hits : \A y \in hits : x <= y
    BY <2>1, <2>2
  <2> PICK m : m = Min(hits)
    OBVIOUS
  <2>4. m \in hits /\ \A y \in hits : m <= y
    BY <2>3 DEF Min
  <2>5. m \in 1..4 /\ (m <= 1 \/ m <= 2)
    BY <2>1, <2>2, <2>4
  <2> QED BY <2>5
<1>5. CASE hits = {}
  BY <1>5 DEF LO!Resolved
<1>6. CASE hits # {}
  <2>1. LO!Resolved(call).level = LO!Levels[Min(hits)]
    BY LoadoutSame, <1>6 DEF LO!Resolved
  <2> HIDE DEF hits
  <2> QED BY <1>1, <1>4, <1>6, <2>1
<1> QED BY <1>5, <1>6

(* What the run checks follows. *)
LEMMA LoadoutHeld == ASSUME LoadoutInv PROVE LO!LoadoutsHold
BY LoadoutDefaults DEF LoadoutInv, LO!LoadoutsHold

(* The constants are so. *)
LEMMA LoadoutBoundsHold == LoadoutBounds
BY BoundsAssumption DEF LoadoutBounds

(* A step of the whole is one of this part, if it is its turn. *)
LEMMA LoadoutTurn ==
  ASSUME [Next]_vars
  PROVE  part' = part /\ (part = "loadouts" => [LO!Next]_(LO!vars))
<1>1. part' = part
  BY DEF Next, vars, Only
<1>2. part = "loadouts" => [LO!Next]_(LO!vars)
  BY DEF Next, vars, Only, LO!vars, loadoutsVars
<1> QED BY <1>1, <1>2

(* So the invariant holds whenever this part moves. *)
LEMMA LoadoutAlways == Spec => [](part = "loadouts" => LoadoutInv)
<1>1. Init => (part = "loadouts" => LoadoutInv)
  BY LoadoutBoundsHold, LoadoutTypeInit DEF Init
<1>2. (part = "loadouts" => LoadoutInv) /\ [Next]_vars => (part = "loadouts" => LoadoutInv)'
  BY LoadoutBoundsHold, LoadoutNextKeeps, LoadoutTurn
<1> QED BY <1>1, <1>2, PTL DEF Spec

-----------------------------------------------------------------------------
(* Project identity: PI in Services. *)

(* The records of the calls. *)
ProjectCalls ==
  [at : {"upsert", "insert", "alias"}, path : Paths, id : PI!Ids, seen : PI!Ids \cup {None},
   named : BOOLEAN, stored : Paths \cup {None}]

(* A call about to write its alias has seen an identity, or has written one.   *)
ProjectResolved(c) ==
  /\ c.at \in {"insert", "alias"} => c.stored \in Paths
  /\ c.at = "alias" => identity[c.id] # None

(* The inductive part of the invariant. *)
ProjectCore ==
  /\ identity \in [PI!Ids -> Paths \cup {None}]
  /\ alias \in [Paths -> PI!Alias]
  /\ projectCall \in [Procs -> ProjectCalls \cup {PI!Idle}]
  /\ \A p \in Procs : ProjectResolved(projectCall[p])
  /\ PI!AliasesAreKnown

(* A call that is not idle names a path and an id. *)
LEMMA ProjectCallAt ==
  ASSUME ProjectCore, NEW p \in Procs, projectCall[p].at # "idle"
  PROVE  projectCall[p] \in ProjectCalls
BY DEF ProjectCore, PI!Idle

(* Nothing is known at first. *)
LEMMA ProjectInitInv == PI!Init => ProjectCore
BY DEF PI!Init, ProjectCore, ProjectResolved, PI!Idle, PI!Alias, PI!NoAlias, PI!AliasesAreKnown

(* A step that moves one call and leaves the tables alone. *)
LEMMA ProjectMoveCall ==
  ASSUME ProjectCore, NEW p \in Procs, NEW c \in ProjectCalls \cup {PI!Idle}, ProjectResolved(c),
         projectCall' = [projectCall EXCEPT ![p] = c], UNCHANGED <<identity, alias>>
  PROVE  ProjectCore'
<1>1. \A q \in Procs : projectCall'[q] = IF q = p THEN c ELSE projectCall[q]
  BY DEF ProjectCore
<1>2. \A q \in Procs : ProjectResolved(projectCall[q])'
  BY <1>1 DEF ProjectCore, ProjectResolved
<1> QED BY <1>2 DEF ProjectCore, PI!AliasesAreKnown

(* Reading the alias. *)
LEMMA ProjectRegisterInv ==
  ASSUME ProjectCore, NEW p \in Procs, NEW given \in Given \cup {None}, NEW path \in Paths,
         PI!Register(p, given, path)
  PROVE  ProjectCore'
<1> DEFINE c == [at |-> "upsert", path |-> path, id |-> PI!Requested(given, path),
                 seen |-> alias[path].project, named |-> given # None, stored |-> None]
<1>1. PI!Requested(given, path) \in PI!Ids
  BY DEF PI!Requested, PI!Ids
<1>2. alias[path].project \in PI!Ids \cup {None}
  BY DEF ProjectCore, PI!Alias, PI!NoAlias
<1>3. c \in ProjectCalls /\ ProjectResolved(c)
  BY <1>1, <1>2 DEF ProjectCalls, ProjectResolved
<1>4. projectCall' = [projectCall EXCEPT ![p] = c] /\ UNCHANGED <<identity, alias>>
  BY DEF PI!Register
<1> HIDE DEF c
<1> QED BY <1>3, <1>4, ProjectMoveCall

(* Reading the identity. *)
LEMMA ProjectLookInv ==
  ASSUME ProjectCore, NEW p \in Procs, PI!Look(p)
  PROVE  ProjectCore'
<1>1. PICK x \in ProjectCalls : x = projectCall[p]
  BY ProjectCallAt DEF PI!Look
<1>2. identity[x.id] \in Paths \cup {None} /\ x.path \in Paths
  BY DEF ProjectCore, ProjectCalls
<1> DEFINE c == IF identity[x.id] = None THEN [x EXCEPT !.at = "insert", !.stored = x.path]
                ELSE [x EXCEPT !.at = "alias", !.stored = identity[x.id]]
<1>3. c \in ProjectCalls /\ ProjectResolved(c)
  BY <1>2 DEF ProjectCalls, ProjectResolved
<1>4. projectCall' = [projectCall EXCEPT ![p] = c] /\ UNCHANGED <<identity, alias>>
  BY <1>1 DEF PI!Look
<1> HIDE DEF c
<1> QED BY <1>3, <1>4, ProjectMoveCall

(* Writing the identity, unless another did meanwhile. *)
LEMMA ProjectInsertInv ==
  ASSUME None \notin Paths, ProjectCore, NEW p \in Procs, PI!Insert(p)
  PROVE  ProjectCore'
<1>1. PICK x \in ProjectCalls : x = projectCall[p] /\ x.at = "insert"
  BY ProjectCallAt DEF PI!Insert
<1>2. x.id \in PI!Ids /\ x.path \in Paths
  BY DEF ProjectCalls
<1>3. /\ identity' = [identity EXCEPT ![x.id] = IF @ = None THEN x.path ELSE @]
      /\ UNCHANGED alias
  BY <1>1 DEF PI!Insert
<1>4. /\ identity' \in [PI!Ids -> Paths \cup {None}]
      /\ \A i \in PI!Ids : identity[i] # None => identity'[i] # None
      /\ identity'[x.id] # None
  BY <1>2, <1>3 DEF ProjectCore
<1> DEFINE c == [x EXCEPT !.at = "alias"]
<1>5. c \in ProjectCalls /\ c.at = "alias" /\ c.id = x.id /\ c.stored = x.stored
  BY DEF ProjectCalls
<1>6. \A q \in Procs : projectCall'[q] = IF q = p THEN c ELSE projectCall[q]
  BY <1>1 DEF PI!Insert, ProjectCore
<1>7. projectCall' \in [Procs -> ProjectCalls \cup {PI!Idle}]
  BY <1>1, <1>5 DEF PI!Insert, ProjectCore
<1> HIDE DEF c
<1>8. ASSUME NEW q \in Procs PROVE ProjectResolved(projectCall[q])'
  <2>1. x.stored \in Paths
    BY <1>1 DEF ProjectCore, ProjectResolved
  <2>2. CASE q = p
    BY <1>4, <1>5, <1>6, <2>1, <2>2 DEF ProjectResolved
  <2>3. CASE q # p
    <3>1. projectCall'[q] = projectCall[q] /\ ProjectResolved(projectCall[q])
      BY <1>6, <2>3 DEF ProjectCore
    <3>2. projectCall[q].at = "alias" => projectCall[q].id \in PI!Ids
      BY ProjectCallAt DEF ProjectCalls
    <3> QED BY <1>4, <3>1, <3>2 DEF ProjectResolved
  <2> QED BY <2>2, <2>3
<1>9. PI!AliasesAreKnown'
  <2>1. \A x1 \in Paths : alias[x1] # PI!NoAlias => alias[x1].project \in PI!Ids
    BY DEF ProjectCore, PI!Alias
  <2> QED BY <1>3, <1>4, <2>1 DEF ProjectCore, PI!AliasesAreKnown
<1> QED BY <1>3, <1>4, <1>7, <1>8, <1>9 DEF ProjectCore, ProjectResolved

(* Writing the alias: its identity is there. *)
LEMMA ProjectRegisterAliasInv ==
  ASSUME ProjectCore, NEW p \in Procs, PI!RegisterAlias(p)
  PROVE  ProjectCore'
<1>1. PICK x \in ProjectCalls : x = projectCall[p] /\ x.at = "alias"
  BY ProjectCallAt DEF PI!RegisterAlias
<1>2. x.id \in PI!Ids /\ x.path \in Paths /\ x.stored \in Paths /\ identity[x.id] # None
  BY <1>1 DEF ProjectCore, ProjectResolved, ProjectCalls
<1> DEFINE new == [project |-> x.id, path |-> x.stored]
<1>3. \/ UNCHANGED alias
      \/ alias' = [alias EXCEPT ![x.path] = PI!Kept(@, new)]
  BY <1>1 DEF PI!RegisterAlias
<1>4. new \in PI!Alias /\ new.project = x.id
  BY <1>2 DEF PI!Alias
<1> HIDE DEF new
<1>5. alias' \in [Paths -> PI!Alias] /\ \A y \in Paths : alias'[y] = alias[y] \/ alias'[y] = new
  BY <1>2, <1>3, <1>4 DEF ProjectCore, PI!Kept
<1>6. UNCHANGED identity /\ \A q \in Procs : projectCall'[q] = IF q = p THEN PI!Idle ELSE projectCall[q]
  BY DEF PI!RegisterAlias, ProjectCore
<1>7. projectCall' \in [Procs -> ProjectCalls \cup {PI!Idle}]
  BY DEF PI!RegisterAlias, ProjectCore
<1>8. PI!AliasesAreKnown'
  BY <1>2, <1>4, <1>5, <1>6 DEF ProjectCore, PI!AliasesAreKnown
<1>9. \A q \in Procs : ProjectResolved(projectCall[q])'
  BY <1>6 DEF ProjectCore, ProjectResolved, PI!Idle
<1> QED BY <1>5, <1>6, <1>7, <1>8, <1>9 DEF ProjectCore

(* A call that is lost. *)
LEMMA ProjectCrashInv ==
  ASSUME ProjectCore, NEW p \in Procs, PI!Crash(p)
  PROVE  ProjectCore'
<1>1. ProjectResolved(PI!Idle)
  BY DEF ProjectResolved, PI!Idle
<1> QED BY <1>1, ProjectMoveCall DEF PI!Crash

(* Every step keeps the invariant. *)
LEMMA ProjectNextInv == ASSUME None \notin Paths PROVE ProjectCore /\ [PI!Next]_(PI!vars) => ProjectCore'
<1> SUFFICES ASSUME ProjectCore, [PI!Next]_(PI!vars) PROVE ProjectCore'
  OBVIOUS
<1>1. CASE UNCHANGED PI!vars
  BY <1>1 DEF PI!vars, ProjectCore, ProjectResolved, PI!AliasesAreKnown
<1>2. ASSUME NEW p \in Procs, NEW given \in Given \cup {None}, NEW path \in Paths,
             PI!Register(p, given, path)
      PROVE  ProjectCore'
  BY <1>2, ProjectRegisterInv
<1>3. ASSUME NEW p \in Procs, PI!Look(p) \/ PI!Insert(p) \/ PI!RegisterAlias(p) \/ PI!Crash(p)
      PROVE  ProjectCore'
  BY <1>3, ProjectLookInv, ProjectInsertInv, ProjectRegisterAliasInv, ProjectCrashInv
<1> QED BY <1>1, <1>2, <1>3 DEF PI!Next

(* Every variable keeps its type.                                              *)
ProjectInv == PI!TypeOK /\ ProjectCore

(* It holds at first. *)
LEMMA ProjectTypeInit == ASSUME MaxCalls \in Nat PROVE PI!Init => ProjectInv
<1> SUFFICES ASSUME PI!Init PROVE PI!TypeOK /\ ProjectCore
  BY DEF ProjectInv
<1>1. ProjectCore
  BY ProjectInitInv
<1>2. \A p \in Procs : projectCall[p].at = "idle"
  BY DEF PI!Init, PI!Idle
<1> QED BY <1>1, <1>2 DEF PI!Init, PI!TypeOK, ProjectCore

(* So every step keeps the invariant. *)
LEMMA ProjectTypeStep ==
  ASSUME None \notin Paths, MaxCalls \in Nat PROVE ProjectInv /\ [PI!Next]_(PI!vars) => ProjectInv'
<1> SUFFICES ASSUME ProjectInv, [PI!Next]_(PI!vars) PROVE PI!TypeOK' /\ ProjectCore'
  BY DEF ProjectInv
<1>1. ProjectCore'
  BY ProjectNextInv DEF ProjectInv
<1>2. projectCalls' \in 0 .. MaxCalls
  <2>1. projectCalls' = projectCalls \/ (projectCalls < MaxCalls /\ projectCalls' = projectCalls + 1)
    BY DEF PI!Next, PI!vars, PI!Register, PI!Look, PI!Insert, PI!RegisterAlias, PI!Crash
  <2> QED BY <2>1 DEF ProjectInv, PI!TypeOK
<1>3. answers' \subseteq [path : Paths, named : BOOLEAN, id : PI!Ids, stored : Paths]
  <2>1. CASE UNCHANGED answers
    BY <2>1 DEF ProjectInv, PI!TypeOK
  <2>2. ASSUME NEW p \in Procs, PI!RegisterAlias(p)
        PROVE  answers' \subseteq [path : Paths, named : BOOLEAN, id : PI!Ids, stored : Paths]
    <3>1. projectCall[p] \in ProjectCalls /\ projectCall[p].stored \in Paths
      BY <2>2, ProjectCallAt DEF PI!RegisterAlias, ProjectInv, ProjectCore, ProjectResolved
    <3> QED BY <2>2, <3>1 DEF PI!RegisterAlias, ProjectInv, PI!TypeOK, ProjectCalls
  <2> QED BY <2>1, <2>2 DEF PI!Next, PI!vars, PI!Register, PI!Look, PI!Insert, PI!Crash
<1>4. \A p \in Procs : projectCall'[p].at \in {"idle", "upsert", "insert", "alias"}
  BY <1>1 DEF ProjectCore, ProjectCalls, PI!Idle
<1> QED BY <1>1, <1>2, <1>3, <1>4 DEF PI!TypeOK, ProjectCore

(* No registration moves an alias or an identity that is there.                *)
LEMMA ProjectStands == ASSUME ProjectCore, [PI!Next]_(PI!vars) PROVE PI!KeepsAliases
<1>1. CASE UNCHANGED <<identity, alias>>
  BY <1>1 DEF PI!KeepsAliases
<1>2. ASSUME NEW p \in Procs, PI!Insert(p) \/ PI!RegisterAlias(p) PROVE PI!KeepsAliases
  BY <1>2 DEF PI!Insert, PI!RegisterAlias, PI!Kept, PI!KeepsAliases, ProjectCore
<1> QED BY <1>1, <1>2 DEF PI!Next, PI!vars, PI!Register, PI!Look, PI!Crash

(* A step of the whole is one of this part, if it is its turn. *)
LEMMA ProjectTurn ==
  ASSUME [Next]_vars
  PROVE  part' = part /\ (part = "projects" => [PI!Next]_(PI!vars))
<1>1. part' = part
  BY DEF Next, vars, Only
<1>2. part = "projects" => [PI!Next]_(PI!vars)
  BY DEF Next, vars, Only, PI!vars, projectsVars
<1> QED BY <1>1, <1>2

(* So the invariant holds whenever this part moves. *)
LEMMA ProjectAlways == Spec => [](part = "projects" => ProjectInv)
<1>1. Init => (part = "projects" => ProjectInv)
  BY AbsentAssumption, BoundsAssumption, ProjectTypeInit DEF Init
<1>2. (part = "projects" => ProjectInv) /\ [Next]_vars => (part = "projects" => ProjectInv)'
  BY AbsentAssumption, BoundsAssumption, ProjectTypeStep, ProjectTurn
<1> QED BY <1>1, <1>2, PTL DEF Spec

-----------------------------------------------------------------------------
(* Context packing: CP in Services. *)

(* The set operators of the instance are those of this module. *)
LEMMA PackSame ==
  /\ \A S : CP!Max(S) = Max(S)
  /\ \A S : CP!Cardinality(S) = Cardinality(S)
<1>1. \A S : CP!Max(S) = Max(S)
  BY DEF CP!Max, Max
<1>2. \A S : CP!Cardinality(S) = Cardinality(S)
  BY DEF CP!Cardinality, Cardinality
<1> QED BY <1>1, <1>2

(* What the proof takes of the constants. *)
PackBounds == (\E n \in Nat \ {0} : Entries = 1..n) /\ Costs \subseteq Nat /\ Limits \subseteq Nat /\ Items \subseteq Nat

(* Of the entries the loop has passed, those left out did not fit and would    *)
(* not now.                                                                    *)
PackPassed ==
  packingPos # 0 =>
    /\ included \subseteq 1..packingPos - 1
    /\ \A e \in 1..packingPos - 1 : packingKind[e] = "candidate" /\ e \notin included => CP!Used + packingCost[e] > maxChars

(* The inductive invariant. *)
PackInv == CP!TypeOK /\ maxItems \in Items /\ packingCost \in [Entries -> Costs] /\ maxChars \in Limits /\ PackPassed /\ CP!NothingThatFits

(* The entries are numbered from 1 to the last. *)
LEMMA PackLastIs == ASSUME PackBounds PROVE CP!Last \in Nat \ {0} /\ Entries = 1..CP!Last
<1>1. PICK n \in Nat \ {0} : Entries = 1..n
  BY DEF PackBounds
<1>2. n \in Entries /\ \A y \in Entries : n >= y
  BY <1>1
<1> PICK m : m = Max(Entries)
  OBVIOUS
<1>3. m \in Entries /\ \A y \in Entries : m >= y
  BY <1>2 DEF Max
<1>4. m = n
  BY <1>1, <1>2, <1>3
<1> QED BY PackSame, <1>1, <1>4 DEF CP!Last

(* The characters in use are the sum over what is included. *)
LEMMA PackUsedIs ==
  ASSUME PackBounds, packingCost \in [Entries -> Costs], included \subseteq Entries
  PROVE  /\ CP!Used = SumOf(packingCost, included) /\ CP!Used \in Nat /\ IsFiniteSet(included)
         /\ \A i \in included : packingCost[i] \in Nat
<1>1. IsFiniteSet(Entries)
  BY PackLastIs, FS_Interval DEF PackBounds
<1>2. included \in SUBSET Entries
  OBVIOUS
<1>3. IsFiniteSet(included)
  BY <1>1, <1>2, FS_Subset
<1>4. \A i \in included : packingCost[i] \in Nat
  BY DEF PackBounds
<1>5. CP!Used = SumOf(packingCost, included)
  BY PackSame DEF CP!Used, SumOf, CP!MapThenSumSet, CP!MapThenFoldSet, MapThenSumSet, MapThenFoldSet
<1>6. SumOf(packingCost, included) \in Nat
  BY <1>3, <1>4, SumType
<1> QED BY <1>3, <1>4, <1>5, <1>6

(* They stay with what is included, and grow by the entry that is taken. *)
LEMMA PackUsedNext ==
  ASSUME PackBounds, packingCost \in [Entries -> Costs], included \subseteq Entries, packingCost' = packingCost
  PROVE  /\ included' = included => CP!Used' = CP!Used
         /\ \A e \in Entries \ included : included' = included \cup {e} => CP!Used' = CP!Used + packingCost[e]
<1> PICK s : s = included'
  OBVIOUS
<1>1. CP!Used' = SumOf(packingCost, included')
  <2>1. CP!Used' = MapThenSumSet(LAMBDA e : packingCost[e], s)
    BY PackSame DEF CP!Used, CP!MapThenSumSet, CP!MapThenFoldSet, MapThenSumSet, MapThenFoldSet
  <2>2. MapThenSumSet(LAMBDA e : packingCost[e], s) = SumOf(packingCost, s)
    BY DEF SumOf
  <2> QED BY <2>1, <2>2
<1>2. ASSUME NEW e \in Entries \ included PROVE SumOf(packingCost, included \cup {e}) = SumOf(packingCost, included) + packingCost[e]
  <2>1. packingCost[e] \in Nat
    BY DEF PackBounds
  <2> QED BY <2>1, PackUsedIs, SumAdd
<1> QED BY <1>1, <1>2, PackUsedIs

(* It holds at first. *)
LEMMA PackTypeInit == ASSUME PackBounds PROVE CP!Init => PackInv
<1> SUFFICES ASSUME CP!Init PROVE PackInv
  OBVIOUS
<1>1. 1 \in 0..CP!Last + 1
  BY PackLastIs
<1>2. CP!TypeOK
  BY <1>1 DEF CP!Init, CP!TypeOK
<1>3. PackPassed /\ CP!NothingThatFits
  BY DEF CP!Init, PackPassed, CP!NothingThatFits
<1> QED BY <1>2, <1>3 DEF CP!Init, PackInv

(* What the steps need of the invariant. *)
LEMMA PackFacts ==
  ASSUME PackBounds, PackInv
  PROVE  /\ CP!Last \in Nat \ {0} /\ Entries = 1..CP!Last /\ packingPos \in 0..CP!Last + 1 /\ included \subseteq Entries
         /\ packingCost \in [Entries -> Costs] /\ CP!Used \in Nat /\ maxChars \in Nat /\ \A e \in Entries : packingCost[e] \in Nat
<1>1. included \subseteq Entries
  BY DEF PackInv, CP!TypeOK, CP!Candidates
<1>2. maxChars \in Nat /\ \A e \in Entries : packingCost[e] \in Nat
  BY DEF PackInv, PackBounds
<1>3. CP!Used \in Nat
  BY <1>1, PackUsedIs DEF PackInv
<1> QED BY <1>1, <1>2, <1>3, PackLastIs DEF PackInv, CP!TypeOK

(* An entry is taken. *)
LEMMA PackTakeKeeps == ASSUME PackBounds, PackInv, CP!Take PROVE PackInv'
<1>0. packingPos \in Entries /\ packingPos # 0 /\ packingKind[packingPos] = "candidate" /\ included' = included \cup {packingPos} /\ packingPos' = packingPos + 1
      /\ UNCHANGED <<packingMode, packingCost, packingKind, packingRequired, maxItems, maxChars, unavailable>>
  BY PackFacts DEF CP!Take, CP!Frame
<1>1. packingPos \in Nat /\ packingPos' \in 1..CP!Last + 1 /\ 1..packingPos' - 1 = (1..packingPos - 1) \cup {packingPos} /\ packingPos \notin 1..packingPos - 1
  BY <1>0, PackFacts
<1>2. packingPos \notin included
  BY <1>0, <1>1 DEF PackInv, PackPassed
<1>3. CP!Used' = CP!Used + packingCost[packingPos]
  BY <1>0, <1>2, PackFacts, PackUsedNext
<1>4. CP!TypeOK'
  BY <1>0, <1>1 DEF PackInv, CP!TypeOK, CP!Candidates
<1>5. ASSUME NEW e \in 1..packingPos' - 1, packingKind[e] = "candidate", e \notin included' PROVE CP!Used' + packingCost[e] > maxChars
  <2>1. e \in 1..packingPos - 1 /\ e \notin included
    BY <1>0, <1>1, <1>5
  <2>2. CP!Used + packingCost[e] > maxChars
    BY <1>0, <1>5, <2>1 DEF PackInv, PackPassed
  <2>3. e \in Entries
    BY <1>0, <2>1, PackFacts
  <2>4. packingCost[e] \in Nat /\ packingCost[packingPos] \in Nat /\ CP!Used \in Nat /\ maxChars \in Nat
    BY <1>0, <2>3, PackFacts
  <2> QED BY <1>3, <2>2, <2>4
<1>6. included' \subseteq 1..packingPos' - 1
  BY <1>0, <1>1 DEF PackInv, PackPassed
<1>7. PackPassed'
  BY <1>0, <1>5, <1>6 DEF PackPassed
<1>8. CP!NothingThatFits'
  BY <1>1 DEF CP!NothingThatFits
<1> QED BY <1>0, <1>4, <1>7, <1>8 DEF PackInv

(* An entry is passed over. *)
LEMMA PackPassKeeps == ASSUME PackBounds, PackInv, CP!PassOver PROVE PackInv'
<1>0. packingPos \in Entries /\ packingPos # 0 /\ included' = included /\ packingPos' = packingPos + 1 /\ (packingKind[packingPos] # "candidate" \/ ~CP!Fits(packingPos))
      /\ UNCHANGED <<packingMode, packingCost, packingKind, packingRequired, maxItems, maxChars, unavailable>>
  BY PackFacts DEF CP!PassOver, CP!Frame, CP!After
<1>1. packingPos \in Nat /\ packingPos' \in 1..CP!Last + 1 /\ 1..packingPos' - 1 = (1..packingPos - 1) \cup {packingPos}
  BY <1>0, PackFacts
<1>2. CP!Used' = CP!Used
  BY <1>0, PackFacts, PackUsedNext
<1>3. CP!TypeOK'
  BY <1>0, <1>1 DEF PackInv, CP!TypeOK, CP!Candidates
<1>4. ASSUME NEW e \in 1..packingPos' - 1, packingKind[e] = "candidate", e \notin included PROVE CP!Used + packingCost[e] > maxChars
  <2>1. CASE e = packingPos
    <3>1. ~(CP!Used + packingCost[packingPos] <= maxChars)
      BY <1>0, <1>4, <2>1 DEF CP!Fits
    <3>2. packingCost[packingPos] \in Nat /\ CP!Used \in Nat /\ maxChars \in Nat
      BY <1>0, PackFacts
    <3> QED BY <2>1, <3>1, <3>2
  <2>2. CASE e \in 1..packingPos - 1
    BY <1>0, <1>4, <2>2 DEF PackInv, PackPassed
  <2> QED BY <1>1, <2>1, <2>2
<1>5. included' \subseteq 1..packingPos' - 1
  BY <1>0, <1>1 DEF PackInv, PackPassed
<1>6. PackPassed'
  BY <1>0, <1>2, <1>4, <1>5 DEF PackPassed
<1>7. CP!NothingThatFits'
  BY <1>1 DEF CP!NothingThatFits
<1> QED BY <1>0, <1>3, <1>6, <1>7 DEF PackInv

(* The loop ends. *)
LEMMA PackFinishKeeps == ASSUME PackBounds, PackInv, CP!Finish PROVE PackInv'
<1>0. /\ packingPos' = 0 /\ UNCHANGED <<packingMode, packingCost, packingKind, packingRequired, maxItems, maxChars, included>>
      /\ unavailable' = packingRequired \ (included \cup CP!Candidates)
      /\ packingPos = CP!Last + 1 \/ (packingPos \in Entries /\ Cardinality(included) >= maxItems)
  BY PackSame DEF CP!Finish, CP!Frame
<1>1. CP!Used' = CP!Used
  BY <1>0, PackFacts, PackUsedNext
<1>2. CP!TypeOK'
  BY <1>0, PackFacts DEF PackInv, CP!TypeOK, CP!Candidates
<1>3. CASE packingPos = CP!Last + 1
  <2>1. packingPos # 0 /\ Entries = 1..packingPos - 1
    BY <1>3, PackFacts
  <2> QED BY <1>0, <1>1, <1>2, <2>1 DEF PackInv, PackPassed, CP!NothingThatFits
<1>4. CASE Cardinality(included) >= maxItems
  <2>1. Cardinality(included) \in Nat
    BY PackFacts, PackUsedIs, FS_CardinalityType
  <2>2. maxItems \in Nat /\ ~(Cardinality(included) < maxItems)
    BY <1>4, <2>1 DEF PackInv, PackBounds
  <2>3. CP!NothingThatFits'
    BY PackSame, <1>0, <2>2 DEF CP!NothingThatFits
  <2> QED BY <1>0, <1>2, <2>3 DEF PackInv, PackPassed
<1> QED BY <1>0, <1>3, <1>4

(* So every step keeps the invariant. *)
LEMMA PackNextKeeps == ASSUME PackBounds, PackInv, [CP!Next]_(CP!vars) PROVE PackInv'
<1>1. CASE UNCHANGED CP!vars
  <2>1. CP!Used' = CP!Used
    BY <1>1, PackFacts, PackUsedNext DEF CP!vars
  <2>2. CP!TypeOK'
    BY <1>1 DEF CP!vars, PackInv, CP!TypeOK, CP!Candidates
  <2> QED BY <1>1, <2>1, <2>2 DEF CP!vars, PackInv, PackPassed, CP!NothingThatFits
<1> QED BY <1>1, PackTakeKeeps, PackPassKeeps, PackFinishKeeps DEF CP!Next

(* The constants are so. *)
LEMMA PackBoundsHold == PackBounds
<1>1. Cardinality(Entries) \in Nat \ {0}
  BY NumbersAssumption, FS_CardinalityType, FS_EmptySet
<1> QED BY <1>1, NumbersAssumption DEF PackBounds

(* A step of the whole is one of this part, if it is its turn. *)
LEMMA PackTurn ==
  ASSUME [Next]_vars
  PROVE  part' = part /\ (part = "packing" => [CP!Next]_(CP!vars))
<1>1. part' = part
  BY DEF Next, vars, Only
<1>2. part = "packing" => [CP!Next]_(CP!vars)
  BY DEF Next, vars, Only, CP!vars, packingVars
<1> QED BY <1>1, <1>2

(* So the invariant holds whenever this part moves. *)
LEMMA PackAlways == Spec => [](part = "packing" => PackInv)
<1>1. Init => (part = "packing" => PackInv)
  BY PackBoundsHold, PackTypeInit DEF Init
<1>2. (part = "packing" => PackInv) /\ [Next]_vars => (part = "packing" => PackInv)'
  BY PackBoundsHold, PackNextKeeps, PackTurn
<1> QED BY <1>1, <1>2, PTL DEF Spec

-----------------------------------------------------------------------------
(* Recall ranking: RR in Services. *)

(* The set operators of the instance are those of this module. *)
LEMMA RankSame ==
  /\ \A S : RR!Max(S) = Max(S)
  /\ \A S : RR!Min(S) = Min(S)
  /\ \A S : RR!Cardinality(S) = Cardinality(S)
<1>1. \A S : RR!Max(S) = Max(S)
  BY DEF RR!Max, Max
<1>2. \A S : RR!Min(S) = Min(S)
  BY DEF RR!Min, Min
<1>3. \A S : RR!Cardinality(S) = Cardinality(S)
  BY DEF RR!Cardinality, Cardinality
<1> QED BY <1>1, <1>2, <1>3

(* What the proof takes of the constants. *)
RankBounds == IsFiniteSet(Memories) /\ Memories \subseteq Int /\ IsFiniteSet(Voters) /\ RankedStock \subseteq RR!Fields

(* The inductive invariant. *)
RankInv == RR!TypeOK /\ IsFiniteSet(rankedFeedback)

(* It holds at first. *)
LEMMA RankTypeInit == ASSUME RankBounds PROVE RR!Init => RankInv
BY FS_EmptySet DEF RankBounds, RR!Init, RankInv, RR!TypeOK

(* So every step keeps the invariant. *)
LEMMA RankNextKeeps == ASSUME RankInv, [RR!Next]_(RR!vars) PROVE RankInv'
<1>1. ASSUME NEW m \in Memories, NEW a \in Voters, NEW kind \in RR!Notes, RR!RecordFeedback(m, a, kind)
      PROVE  RankInv'
  <2>1. rankedFeedback' = rankedFeedback \cup {<<m, a, kind>>} /\ rankedMem' = rankedMem
    BY <1>1 DEF RR!RecordFeedback
  <2>2. IsFiniteSet(rankedFeedback')
    BY <2>1, FS_AddElement DEF RankInv
  <2>3. <<m, a, kind>> \in Memories \X Voters \X RR!Notes
    BY <1>1
  <2>4. rankedFeedback' \subseteq Memories \X Voters \X RR!Notes
    BY <2>1, <2>3 DEF RankInv, RR!TypeOK
  <2> QED BY <2>1, <2>2, <2>4 DEF RankInv, RR!TypeOK
<1>2. CASE UNCHANGED RR!vars
  BY <1>2 DEF RankInv, RR!TypeOK, RR!vars
<1> QED BY <1>1, <1>2 DEF RR!Next

(* The fields of a memory. *)
LEMMA RankFieldsOf ==
  ASSUME RankBounds, RankInv, NEW m \in Memories
  PROVE  /\ rankedMem[m].tier \in RR!Tiers /\ rankedMem[m].importance \in 1..5 /\ rankedMem[m].text \in Nat
         /\ rankedMem[m].read \in [Voters -> Nat] /\ rankedMem[m].against \in SUBSET Memories
         /\ rankedMem[m] \in RR!Fields
BY DEF RankInv, RR!TypeOK, RR!Fields

(* The memories to be ranked are finitely many. *)
LEMMA RankElig == ASSUME RankBounds PROVE RR!Eligible \subseteq Memories /\ IsFiniteSet(RR!Eligible)
<1>1. RR!Eligible \in SUBSET Memories
  BY DEF RR!Eligible
<1>2. IsFiniteSet(Memories)
  BY DEF RankBounds
<1> QED BY <1>1, <1>2, FS_Subset

\* What an entry is scored by is a number.

(* The terms of a score are numbers. *)
LEMMA RankTerms ==
  ASSUME RankBounds, RankInv, NEW m \in Memories
  PROVE  /\ RR!Text(m) \in Nat /\ RR!Accesses(m) \in Nat /\ RR!TierWeight(m) \in {7, 10, 13}
         /\ RR!AccessSignal(m) \in Nat /\ RR!Penalty(m) \in Nat
<1>1. RR!Text(m) \in Nat
  BY RankSame, RankFieldsOf, MinTwo DEF RR!Text
<1>2. RR!Accesses(m) \in Nat
  <2>1. IsFiniteSet(Voters) /\ \A a \in Voters : rankedMem[m].read[a] \in Nat
    BY RankFieldsOf DEF RankBounds
  <2>2. SumOf(rankedMem[m].read, Voters) \in Nat
    BY <2>1, SumType
  <2> QED BY RankSame, <2>2 DEF RR!Accesses, SumOf, RR!MapThenSumSet, RR!MapThenFoldSet, MapThenSumSet, MapThenFoldSet
<1>3. RR!TierWeight(m) \in {7, 10, 13}
  BY DEF RR!TierWeight
<1>4. RR!AccessSignal(m) \in Nat
  BY DEF RR!AccessSignal
<1>5. RR!Penalty(m) \in Nat
  <2>1. Cardinality(rankedMem[m].against) \in Nat
    BY RankFieldsOf, FS_Subset, FS_CardinalityType DEF RankBounds
  <2>2. PICK k : k = 500 * Cardinality(rankedMem[m].against)
    OBVIOUS
  <2>3. k \in Nat
    BY <2>1, <2>2
  <2> QED BY RankSame, <2>2, <2>3, MinTwo DEF RR!Penalty
<1> QED BY <1>1, <1>2, <1>3, <1>4, <1>5

\* The notes on a memory can be counted.

(* So is the count of a kind of vote. *)
LEMMA RankCounted ==
  ASSUME RankInv, NEW m, NEW kind
  PROVE  RR!Count(m, kind) \in Nat
<1>1. {f \in rankedFeedback : f[1] = m /\ f[3] = kind} \in SUBSET rankedFeedback
  OBVIOUS
<1> QED BY RankSame, <1>1, FS_Subset, FS_CardinalityType DEF RankInv, RR!Count

\* Net votes, within five, times 80.

(* The votes count up to five either way. *)
LEMMA RankVotesAre ==
  ASSUME NEW u \in Int, NEW d \in Int
  PROVE  80 * Max({-5, Min({5, u - d})})
           = 80 * (IF u - d >= 5 THEN 5 ELSE IF u - d <= -5 THEN -5 ELSE u - d)
<1>1. PICK k : k = u - d
  OBVIOUS
<1>2. k \in Int /\ Min({5, k}) = IF 5 <= k THEN 5 ELSE k
  BY <1>1, MinTwo
<1>3. PICK l : l = Min({5, k})
  OBVIOUS
<1>4. l \in Int /\ Max({-5, l}) = IF -5 >= l THEN -5 ELSE l
  BY <1>2, <1>3, MaxTwo
<1>5. Max({-5, l}) = IF u - d >= 5 THEN 5 ELSE IF u - d <= -5 THEN -5 ELSE u - d
  BY <1>1, <1>2, <1>3, <1>4
<1> QED BY <1>1, <1>3, <1>5

(* The term of the votes is a number. *)
LEMMA RankVotesType == ASSUME RankInv, NEW m PROVE RR!Votes(m) \in Int
<1> PICK u : u = RR!Count(m, "up")
  OBVIOUS
<1> PICK d : d = RR!Count(m, "down")
  OBVIOUS
<1>1. u \in Int /\ d \in Int
  BY RankCounted
<1>2. RR!Votes(m) = 80 * Max({-5, Min({5, u - d})})
  BY RankSame DEF RR!Votes
<1>3. (IF u - d >= 5 THEN 5 ELSE IF u - d <= -5 THEN -5 ELSE u - d) \in Int
  BY <1>1
<1> PICK e : e = IF u - d >= 5 THEN 5 ELSE IF u - d <= -5 THEN -5 ELSE u - d
  OBVIOUS
<1>4. RR!Votes(m) = 80 * e /\ e \in Int
  BY <1>1, <1>2, <1>3, RankVotesAre
<1> QED BY <1>4

(* Also after a step. *)
LEMMA RankVotesNext == ASSUME RankInv', NEW m PROVE RR!Votes(m)' \in Int
<1>1. \A kind : {f \in rankedFeedback' : f[1] = m /\ f[3] = kind} \in SUBSET rankedFeedback'
  OBVIOUS
<1>2. \A kind : RR!Count(m, kind)' \in Nat
  BY RankSame, <1>1, FS_Subset, FS_CardinalityType DEF RankInv, RR!Count
<1> PICK u : u = RR!Count(m, "up")'
  OBVIOUS
<1> PICK d : d = RR!Count(m, "down")'
  OBVIOUS
<1>3. u \in Int /\ d \in Int
  BY <1>2
<1>4. RR!Votes(m)' = 80 * Max({-5, Min({5, u - d})})
  BY RankSame DEF RR!Votes
<1>5. (IF u - d >= 5 THEN 5 ELSE IF u - d <= -5 THEN -5 ELSE u - d) \in Int
  BY <1>3
<1> PICK e : e = IF u - d >= 5 THEN 5 ELSE IF u - d <= -5 THEN -5 ELSE u - d
  OBVIOUS
<1>6. RR!Votes(m)' = 80 * e /\ e \in Int
  BY <1>3, <1>4, <1>5, RankVotesAre
<1> QED BY <1>6

(* The fused rank is a number. *)
LEMMA RankFusedType == ASSUME NEW p \in Nat PROVE RR!Fused(p) \in Nat
BY DEF RR!Fused

(* The relevance is a number. *)
LEMMA RankRelevanceType ==
  ASSUME RankBounds, RankInv, NEW a \in Voters, NEW m \in Memories
  PROVE  RR!Relevance(a, m) \in Nat
<1> PICK read : read = {n \in RR!Eligible : RR!Accesses(n) > 0}
  OBVIOUS
<1>1. IsFiniteSet(read) /\ IsFiniteSet(RR!Eligible)
  BY RankElig, FS_Subset
<1>2. {n \in RR!Eligible : RR!TextBefore(n, m)} \in SUBSET RR!Eligible /\ {n \in read : RR!ReadBefore(a, n, m)} \in SUBSET read
  OBVIOUS
<1> PICK p : p = 1 + Cardinality({n \in RR!Eligible : RR!TextBefore(n, m)})
  OBVIOUS
<1> PICK q : q = 1 + Cardinality({n \in read : RR!ReadBefore(a, n, m)})
  OBVIOUS
<1>3. p \in Nat /\ q \in Nat
  BY <1>1, <1>2, FS_Subset, FS_CardinalityType
<1>4. RR!Relevance(a, m) = RR!Fused(p) + (IF m \in read THEN RR!Fused(q) ELSE 0)
  BY RankSame DEF RR!Relevance, RR!Place
<1> QED BY <1>3, <1>4, RankFusedType

(* The score is a number. *)
LEMMA RankScoreType ==
  ASSUME RankBounds, RankInv, NEW a \in Voters, NEW m \in Memories
  PROVE  RR!Score(a, m) \in Int
<1>1. RR!Relevance(a, m) \in Nat /\ RR!Votes(m) \in Int
  BY RankRelevanceType, RankVotesType
<1>2. RR!Trust(a, m) \in Nat
  BY DEF RR!Trust
<1>3. 200 * (rankedMem[m].importance - 1) \in Int
  BY RankFieldsOf
<1> QED BY <1>1, <1>2, <1>3, RankTerms DEF RR!Score

\* The order of a recall is strict and total.

(* Who precedes whom is a strict total order. *)
LEMMA RankOrder ==
  ASSUME RankBounds, RankInv, NEW a \in Voters
  PROVE  /\ \A m \in Memories : ~RR!Precedes(a, m, m)
         /\ \A m, n \in Memories : m # n => RR!Precedes(a, m, n) \/ RR!Precedes(a, n, m)
         /\ \A k, m, n \in Memories : RR!Precedes(a, k, m) /\ RR!Precedes(a, m, n) => RR!Precedes(a, k, n)
<1>1. \A m \in Memories : RR!Score(a, m) \in Int
  BY RankScoreType
<1>2. \A m \in Memories : RR!TierWeight(m) \in Int
  BY RankTerms
<1>3. \A m \in Memories : rankedMem[m].importance \in Int /\ m \in Int
  BY RankFieldsOf DEF RankBounds
<1>4. \A m \in Memories : ~RR!Precedes(a, m, m)
  BY <1>1, <1>2, <1>3 DEF RR!Precedes
<1>5. \A m, n \in Memories : m # n => RR!Precedes(a, m, n) \/ RR!Precedes(a, n, m)
  BY <1>1, <1>2, <1>3 DEF RR!Precedes
<1>6. ASSUME NEW k \in Memories, NEW m \in Memories, NEW n \in Memories, RR!Precedes(a, k, m), RR!Precedes(a, m, n)
      PROVE  RR!Precedes(a, k, n)
  BY <1>1, <1>2, <1>3, <1>6 DEF RR!Precedes
<1> QED BY <1>4, <1>5, <1>6

\* The memories before one.

(* The memories ahead of one. *)
RankAhead(a, m) == {n \in RR!Eligible : RR!Precedes(a, n, m)}

(* The place of a memory is one more than how many are ahead. *)
LEMMA RankAheadIs ==
  ASSUME RankBounds, RankInv, NEW a \in Voters, NEW m \in RR!Eligible
  PROVE  /\ RankAhead(a, m) \in SUBSET RR!Eligible /\ m \notin RankAhead(a, m) /\ IsFiniteSet(RankAhead(a, m))
         /\ RR!Ranking(a)[m] = 1 + Cardinality(RankAhead(a, m)) /\ Cardinality(RankAhead(a, m)) \in Nat
         /\ Cardinality(RankAhead(a, m)) < Cardinality(RR!Eligible)
<1>1. RankAhead(a, m) \in SUBSET RR!Eligible
  BY DEF RankAhead
<1>2. m \notin RankAhead(a, m)
  BY RankOrder, RankElig DEF RankAhead
<1>3. IsFiniteSet(RankAhead(a, m)) /\ Cardinality(RankAhead(a, m)) <= Cardinality(RR!Eligible) /\ Cardinality(RankAhead(a, m)) \in Nat
      /\ Cardinality(RR!Eligible) \in Nat /\ Cardinality(RankAhead(a, m)) # Cardinality(RR!Eligible)
  BY <1>1, <1>2, RankElig, FS_Subset, FS_CardinalityType
<1>4. RR!Ranking(a)[m] = 1 + Cardinality(RankAhead(a, m))
  BY RankSame DEF RR!Ranking, RR!Place, RankAhead
<1> QED BY <1>1, <1>2, <1>3, <1>4

(* Of two memories the later has more ahead. *)
LEMMA RankAheadGrows ==
  ASSUME RankBounds, RankInv, NEW a \in Voters, NEW m \in RR!Eligible, NEW n \in RR!Eligible, RR!Precedes(a, m, n)
  PROVE  Cardinality(RankAhead(a, m)) < Cardinality(RankAhead(a, n))
<1>1. RankAhead(a, m) \in SUBSET RankAhead(a, n)
  BY RankOrder, RankElig DEF RankAhead
<1>2. m \in RankAhead(a, n) /\ m \notin RankAhead(a, m)
  BY RankAheadIs DEF RankAhead
<1> QED BY <1>1, <1>2, RankAheadIs, FS_Subset

(* A ranking has every memory at one place. *)
LEMMA RankTotal == ASSUME RankBounds, RankInv PROVE RR!RankingsAreTotal
<1> SUFFICES ASSUME NEW a \in Voters, NEW p \in 1..Cardinality(RR!Eligible)
             PROVE  \E m \in RR!Eligible : RR!Ranking(a)[m] = p
  BY RankSame DEF RR!RankingsAreTotal
<1> PICK E : E = RR!Eligible
  OBVIOUS
<1> PICK c : c = Cardinality(E)
  OBVIOUS
<1> PICK f : f = [m \in E |-> 1 + Cardinality(RankAhead(a, m))]
  OBVIOUS
<1>1. IsFiniteSet(E) /\ c \in Nat /\ E \subseteq Memories
  BY RankElig, FS_CardinalityType
<1>2. \A m \in E : f[m] \in 1..c
  BY <1>1, RankAheadIs
<1>3. \A m, n \in E : f[m] = f[n] => m = n
  <2> SUFFICES ASSUME NEW m \in E, NEW n \in E, m # n PROVE f[m] # f[n]
    OBVIOUS
  <2>1. RR!Precedes(a, m, n) \/ RR!Precedes(a, n, m)
    BY <1>1, RankOrder
  <2>2. Cardinality(RankAhead(a, m)) # Cardinality(RankAhead(a, n))
    BY <2>1, RankAheadGrows, RankAheadIs
  <2> QED BY <2>2, RankAheadIs
<1>4. f \in Injection(E, 1..c)
  BY <1>2, <1>3 DEF Injection, IsInjective
<1>5. IsFiniteSet(1..c) /\ Cardinality(1..c) = c
  BY <1>1, FS_Interval
<1>6. f \in Surjection(E, 1..c)
  BY <1>4, <1>5, FS_Injection
<1>7. PICK m \in E : f[m] = p
  BY <1>6 DEF Surjection
<1> QED BY <1>7, RankAheadIs

\* Down to place 15 a step in the list by text is worth more than a tier.

(* Up to the fifteenth place a step of the text rank outweighs a step of the tier. *)
LEMMA RankStepsDown ==
  ASSUME NEW p \in 1..15, NEW q \in 1..15, p < q
  PROVE  RR!Fused(p) > RR!Fused(q) + 360
<1>1. /\ RR!Fused(1) = 32786 /\ RR!Fused(2) = 32258 /\ RR!Fused(3) = 31746 /\ RR!Fused(4) = 31250 /\ RR!Fused(5) = 30769
      /\ RR!Fused(6) = 30303 /\ RR!Fused(7) = 29850 /\ RR!Fused(8) = 29411 /\ RR!Fused(9) = 28985 /\ RR!Fused(10) = 28571
      /\ RR!Fused(11) = 28169 /\ RR!Fused(12) = 27777 /\ RR!Fused(13) = 27397 /\ RR!Fused(14) = 27027 /\ RR!Fused(15) = 26666
  BY DEF RR!Fused
<1> QED BY <1>1

(* The memories with a better text. *)
RankTextAhead(m) == {k \in RR!Eligible : RR!TextBefore(k, m)}

(* Of two memories the one with the worse text has more of them. *)
LEMMA RankBetterText ==
  ASSUME RankBounds, RankInv, NEW m \in RR!Eligible, NEW n \in RR!Eligible, RR!Text(m) > RR!Text(n)
  PROVE  /\ Cardinality(RankTextAhead(m)) < Cardinality(RankTextAhead(n))
         /\ Cardinality(RankTextAhead(m)) \in Nat /\ Cardinality(RankTextAhead(n)) \in Nat
<1>1. ASSUME NEW k \in RR!Eligible PROVE RR!Text(k) \in Int /\ RR!TierWeight(k) \in Int /\ k \in Int
  <2>1. k \in Memories
    BY RankElig
  <2>2. k \in Int
    BY <2>1 DEF RankBounds
  <2>3. RR!Text(k) \in Nat /\ RR!TierWeight(k) \in {7, 10, 13}
    BY <2>1, RankTerms
  <2> QED BY <2>2, <2>3
<1>2. RankTextAhead(m) \in SUBSET RankTextAhead(n) /\ m \in RankTextAhead(n) /\ m \notin RankTextAhead(m)
  BY <1>1 DEF RankTextAhead, RR!TextBefore
<1>3. RankTextAhead(n) \in SUBSET RR!Eligible
  BY DEF RankTextAhead
<1>4. IsFiniteSet(RankTextAhead(n))
  BY <1>3, RankElig, FS_Subset
<1> QED BY <1>2, <1>4, FS_Subset, FS_CardinalityType

(* What two memories alike but for text and tier share. *)
LEMMA RankAlikeAre ==
  ASSUME RankBounds, RankInv, NEW m \in Memories, NEW n \in Memories, RR!Alike(m, n)
  PROVE  /\ rankedMem[m].importance = rankedMem[n].importance /\ rankedMem[m].read = rankedMem[n].read
         /\ rankedMem[m].against = rankedMem[n].against /\ rankedMem[m].writer = rankedMem[n].writer
<1> PICK x : x = rankedMem[m]
  OBVIOUS
<1> PICK y : y = rankedMem[n]
  OBVIOUS
<1>1. x \in RR!Fields /\ y \in RR!Fields
  BY RankFieldsOf
<1>2. [x EXCEPT !.tier = 0, !.text = 0] = [y EXCEPT !.tier = 0, !.text = 0]
  BY DEF RR!Alike
<1>3. /\ x.importance = y.importance /\ x.read = y.read /\ x.against = y.against /\ x.writer = y.writer
  BY <1>1, <1>2 DEF RR!Fields
<1> QED BY <1>3

(* A better text comes before a better tier. *)
LEMMA RankTextWins == ASSUME RankBounds, RankInv PROVE RR!TextBeatsTier
<1> SUFFICES ASSUME NEW a \in Voters, NEW m \in RR!Eligible, NEW n \in RR!Eligible,
                    RR!Alike(m, n), RR!Accesses(m) = 0, RR!Votes(m) = RR!Votes(n), RR!Text(m) > RR!Text(n),
                    RR!Place(n, RR!Eligible, RR!TextBefore) <= RR!LastDecisive
             PROVE  RR!Precedes(a, m, n)
  BY DEF RR!TextBeatsTier
<1>0. m \in Memories /\ n \in Memories
  BY RankElig
<1>1. /\ rankedMem[m].importance = rankedMem[n].importance /\ rankedMem[m].read = rankedMem[n].read
      /\ rankedMem[m].against = rankedMem[n].against /\ rankedMem[m].writer = rankedMem[n].writer
  BY <1>0, RankAlikeAre
<1>2. RR!Accesses(n) = 0
  BY <1>1 DEF RR!Accesses
<1> PICK p : p = 1 + Cardinality(RankTextAhead(m))
  OBVIOUS
<1> PICK q : q = 1 + Cardinality(RankTextAhead(n))
  OBVIOUS
<1>3. p \in 1..15 /\ q \in 1..15 /\ p < q
  <2>1. RR!Place(n, RR!Eligible, RR!TextBefore) = q
    BY RankSame DEF RR!Place, RankTextAhead
  <2> QED BY <2>1, RankBetterText DEF RR!LastDecisive
<1>4. RR!Relevance(a, m) = RR!Fused(p) + 0 /\ RR!Relevance(a, n) = RR!Fused(q) + 0
  BY RankSame, <1>2 DEF RR!Relevance, RR!Place, RankTextAhead
<1>5. RR!Trust(a, m) = RR!Trust(a, n) /\ RR!AccessSignal(m) = RR!AccessSignal(n) /\ RR!Penalty(m) = RR!Penalty(n)
  BY <1>1, <1>2 DEF RR!Trust, RR!AccessSignal, RR!Penalty
<1>6. RR!Fused(p) > RR!Fused(q) + 360 /\ RR!Fused(p) \in Nat /\ RR!Fused(q) \in Nat
  BY <1>3, RankStepsDown, RankFusedType
<1>7. RR!Score(a, m) > RR!Score(a, n)
  <2>1. RR!Trust(a, m) \in Nat /\ RR!Votes(m) \in Int /\ 200 * (rankedMem[m].importance - 1) \in Int
    BY <1>0, RankFieldsOf, RankVotesType DEF RR!Trust
  <2>2. RR!TierWeight(m) \in {7, 10, 13} /\ RR!TierWeight(n) \in {7, 10, 13} /\ RR!AccessSignal(m) \in Nat /\ RR!Penalty(m) \in Nat
    BY <1>0, RankTerms
  <2>3. PICK k : k = 200 * (rankedMem[m].importance - 1)
    OBVIOUS
  <2>4. k = 200 * (rankedMem[n].importance - 1)
    BY <1>1, <2>3
  <2> QED BY <1>4, <1>5, <1>6, <2>1, <2>2, <2>3, <2>4 DEF RR!Score
<1> QED BY <1>7 DEF RR!Precedes

\* Notes change nothing of a score but the votes.

(* A vote leaves the terms it does not count in. *)
LEMMA RankSameTerms ==
  ASSUME rankedMem' = rankedMem, NEW a \in Voters, NEW m \in Memories
  PROVE  /\ RR!Relevance(a, m)' = RR!Relevance(a, m) /\ RR!Trust(a, m)' = RR!Trust(a, m)
         /\ RR!AccessSignal(m)' = RR!AccessSignal(m) /\ RR!TierWeight(m)' = RR!TierWeight(m) /\ RR!Penalty(m)' = RR!Penalty(m)
<1>1. \A k : RR!Accesses(k)' = RR!Accesses(k)
  BY RankSame DEF RR!Accesses, RR!MapThenSumSet, RR!MapThenFoldSet, MapThenSumSet, MapThenFoldSet
<1>2. RR!Eligible' = RR!Eligible
  BY DEF RR!Eligible
<1>3. \A k : RR!Text(k)' = RR!Text(k) /\ RR!TierWeight(k)' = RR!TierWeight(k)
  BY DEF RR!Text, RR!TierWeight
<1>4. \A k, n : RR!TextBefore(k, n)' = RR!TextBefore(k, n)
  BY <1>3 DEF RR!TextBefore
<1>5. \A k, n : RR!ReadBefore(a, k, n)' = RR!ReadBefore(a, k, n)
  BY <1>1 DEF RR!ReadBefore
<1>6. RR!Relevance(a, m)' = RR!Relevance(a, m)
  BY <1>1, <1>2, <1>4, <1>5 DEF RR!Relevance, RR!Place
<1>7. RR!Trust(a, m)' = RR!Trust(a, m) /\ RR!AccessSignal(m)' = RR!AccessSignal(m) /\ RR!Penalty(m)' = RR!Penalty(m)
  BY <1>1 DEF RR!Trust, RR!AccessSignal, RR!Penalty
<1> QED BY <1>3, <1>6, <1>7

(* A vote for a memory puts nothing before it that it preceded. *)
LEMMA RankPraise == ASSUME RankBounds, RankInv, [RR!Next]_(RR!vars) PROVE RR!PraiseNeverSinks
<1> SUFFICES ASSUME NEW m \in RR!Eligible, NEW n \in RR!Eligible, NEW a \in Voters, NEW b \in Voters,
                    <<m, b, "up">> \in rankedFeedback' \ rankedFeedback, RR!Precedes(a, m, n)
             PROVE  RR!Precedes(a, m, n)'
  BY DEF RR!PraiseNeverSinks
<1>1. PICK x \in Memories, y \in Voters, kind \in RR!Notes : RR!RecordFeedback(x, y, kind)
  BY DEF RR!Next, RR!vars
<1>2. rankedFeedback' = rankedFeedback \cup {<<m, b, "up">>} /\ rankedMem' = rankedMem
  BY <1>1 DEF RR!RecordFeedback
<1>3. m \in Memories /\ n \in Memories /\ m # n
  BY RankElig, RankOrder
<1>4. /\ {f \in rankedFeedback' : f[1] = n /\ f[3] = "up"} = {f \in rankedFeedback : f[1] = n /\ f[3] = "up"}
      /\ {f \in rankedFeedback' : f[1] = n /\ f[3] = "down"} = {f \in rankedFeedback : f[1] = n /\ f[3] = "down"}
      /\ {f \in rankedFeedback' : f[1] = m /\ f[3] = "down"} = {f \in rankedFeedback : f[1] = m /\ f[3] = "down"}
  BY <1>2, <1>3
<1>5. /\ RR!Count(n, "up")' = RR!Count(n, "up") /\ RR!Count(n, "down")' = RR!Count(n, "down")
      /\ RR!Count(m, "down")' = RR!Count(m, "down")
  BY <1>4 DEF RR!Count
<1> PICK U : U = {f \in rankedFeedback : f[1] = m /\ f[3] = "up"}
  OBVIOUS
<1>6. {f \in rankedFeedback' : f[1] = m /\ f[3] = "up"} = U \cup {<<m, b, "up">>}
  BY <1>2
<1>7. RR!Count(m, "up")' = RR!Count(m, "up") + 1
  <2>1. IsFiniteSet(U) /\ <<m, b, "up">> \notin U
    BY FS_Subset DEF RankInv
  <2>2. Cardinality(U \cup {<<m, b, "up">>}) = Cardinality(U) + 1
    BY <2>1, FS_AddElement
  <2> QED BY RankSame, <1>6, <2>2 DEF RR!Count
<1>8. RR!Votes(n)' = RR!Votes(n)
  BY <1>5 DEF RR!Votes
<1>9. RR!Votes(m)' >= RR!Votes(m)
  <2> PICK u : u = RR!Count(m, "up")
    OBVIOUS
  <2> PICK d : d = RR!Count(m, "down")
    OBVIOUS
  <2>1. u \in Int /\ d \in Int /\ u + 1 \in Int
    BY RankCounted
  <2>2. RR!Votes(m) = 80 * Max({-5, Min({5, u - d})})
    BY RankSame DEF RR!Votes
  <2>3. RR!Votes(m)' = 80 * Max({-5, Min({5, (u + 1) - d})})
    BY RankSame, <1>5, <1>7 DEF RR!Votes
  <2>4. /\ RR!Votes(m) = 80 * (IF u - d >= 5 THEN 5 ELSE IF u - d <= -5 THEN -5 ELSE u - d)
        /\ RR!Votes(m)' = 80 * (IF (u + 1) - d >= 5 THEN 5 ELSE IF (u + 1) - d <= -5 THEN -5 ELSE (u + 1) - d)
    BY RankSame, <2>1, <2>2, <2>3, RankVotesAre
  <2> PICK e : e = IF u - d >= 5 THEN 5 ELSE IF u - d <= -5 THEN -5 ELSE u - d
    OBVIOUS
  <2> PICK g : g = IF (u + 1) - d >= 5 THEN 5 ELSE IF (u + 1) - d <= -5 THEN -5 ELSE (u + 1) - d
    OBVIOUS
  <2>5. e \in Int /\ g \in Int /\ g >= e
    BY <2>1
  <2>6. RR!Votes(m) = 80 * e /\ RR!Votes(m)' = 80 * g
    BY <2>4
  <2> QED BY <2>5, <2>6
<1> PICK v : v = RR!Votes(m)
  OBVIOUS
<1> PICK w : w = RR!Votes(m)'
  OBVIOUS
<1>10. v \in Int /\ w \in Int /\ w >= v
  <2>1. RankInv'
    BY RankNextKeeps
  <2>2. v \in Int
    BY RankVotesType
  <2>3. w \in Int
    BY <2>1, RankVotesNext
  <2> QED BY <1>9, <2>2, <2>3
<1>11. RR!Score(a, n)' = RR!Score(a, n)
  BY <1>2, <1>3, <1>8, RankSameTerms DEF RR!Score
<1>12. RR!Score(a, m)' >= RR!Score(a, m) /\ RR!Score(a, m)' \in Int
  <2>1. RR!Relevance(a, m) \in Nat /\ RR!Trust(a, m) \in Nat
    BY <1>3, RankRelevanceType DEF RR!Trust
  <2>2. RR!TierWeight(m) \in {7, 10, 13} /\ RR!AccessSignal(m) \in Nat /\ RR!Penalty(m) \in Nat
    BY <1>3, RankTerms
  <2>3. PICK k : k = 200 * (rankedMem[m].importance - 1)
    OBVIOUS
  <2>4. k \in Int
    BY <1>3, <2>3, RankFieldsOf
  <2>5. RR!Score(a, m) = RR!Relevance(a, m) + RR!Trust(a, m) + k + RR!AccessSignal(m) + v + 60 * RR!TierWeight(m) - RR!Penalty(m)
    BY <2>3 DEF RR!Score
  <2>6. RR!Score(a, m)' = RR!Relevance(a, m) + RR!Trust(a, m) + k + RR!AccessSignal(m) + w + 60 * RR!TierWeight(m) - RR!Penalty(m)
    BY <1>2, <1>3, <2>3, RankSameTerms DEF RR!Score
  <2> QED BY <1>10, <2>1, <2>2, <2>4, <2>5, <2>6
<1>13. /\ RR!TierWeight(m)' = RR!TierWeight(m) /\ RR!TierWeight(n)' = RR!TierWeight(n) /\ rankedMem' = rankedMem
       /\ RR!TierWeight(m) \in Int /\ RR!TierWeight(n) \in Int
  BY <1>2, <1>3, RankSameTerms, RankTerms
<1>14. /\ RR!Score(a, m) \in Int /\ RR!Score(a, n) \in Int /\ rankedMem[m].importance \in Int /\ rankedMem[n].importance \in Int
       /\ m \in Int /\ n \in Int
  BY <1>3, RankScoreType, RankFieldsOf DEF RankBounds
<1> QED BY <1>11, <1>12, <1>13, <1>14 DEF RR!Precedes

(* What the run checks follows. *)
LEMMA RankHolds == ASSUME RankBounds, RankInv PROVE RR!RankingHolds
BY RankTotal, RankTextWins DEF RR!RankingHolds

(* The constants are so. *)
LEMMA RankBoundsHold == RankBounds
<1>1. IsFiniteSet(Memories)
  <2>1. CASE Memories = {}
    BY <2>1, FS_EmptySet
  <2>2. CASE Memories # {}
    <3>1. PICK n \in Nat : Memories \subseteq 0..n
      BY <2>2, NumbersAssumption
    <3>2. IsFiniteSet(0..n)
      BY FS_Interval
    <3> QED BY <3>1, <3>2, FS_Subset
  <2> QED BY <2>1, <2>2
<1> QED BY <1>1, NumbersAssumption, StockAssumption DEF RankBounds

(* A step of the whole is one of this part, if it is its turn. *)
LEMMA RankTurn ==
  ASSUME [Next]_vars
  PROVE  part' = part /\ (part = "ranking" => [RR!Next]_(RR!vars))
<1>1. part' = part
  BY DEF Next, vars, Only
<1>2. part = "ranking" => [RR!Next]_(RR!vars)
  BY DEF Next, vars, Only, RR!vars, rankingVars
<1> QED BY <1>1, <1>2

(* So the invariant holds whenever this part moves. *)
LEMMA RankAlways == Spec => [](part = "ranking" => RankInv)
<1>1. Init => (part = "ranking" => RankInv)
  BY RankBoundsHold, RankTypeInit DEF Init
<1>2. (part = "ranking" => RankInv) /\ [Next]_vars => (part = "ranking" => RankInv)'
  BY RankBoundsHold, RankNextKeeps, RankTurn
<1> QED BY <1>1, <1>2, PTL DEF Spec

-----------------------------------------------------------------------------
(* Entry reads: ER in Services. *)

(* The set operators of the instance are those of this module. *)
LEMMA ReadSame ==
  /\ \A S : ER!Cardinality(S) = Cardinality(S)
<1>1. \A S : ER!Cardinality(S) = Cardinality(S)
  BY DEF ER!Cardinality, Cardinality
<1> QED BY <1>1

(* What the proof takes of the constants. *)
ReadBounds == /\ MaxReadRev \in Nat \ {0} /\ Sensitivities \subseteq Nat \ {0} /\ IsFiniteSet(Sensitivities)
              /\ ReadCeiling \in [Clients -> Nat]

(* The steps and the records of the calls. *)
ReadSteps == {"idle", "link", "write", "audit", "elevated", "peek", "row", "trail",
          "found", "not_found", "forbidden_visibility"}
ReadReads == [step : ReadSteps, row : ER!Rows, trail : SUBSET (1..MaxReadRev)]

(* No row, or more than one sensitivity. *)
ReadSeveral(S) == 0 \in S \/ Cardinality(S) > 1

(* A confirmation writes a row it read, whose text has its event, as has the   *)
(* text that is shown; a reader has seen the sensitivity the row has.          *)
ReadCallOK(c) ==
  /\ readCall[c].step = "write" => readCall[c].row.rev \in 1..MaxReadRev - 1
  /\ readCall[c].step = "audit" => readCall[c].row.rev \in 1..MaxReadRev
  /\ readCall[c].step \in {"write", "audit", "trail"} => readCall[c].row.text \in readTrail
  /\ readCall[c].step = "found" => readCall[c].row.text \in readCall[c].trail
  /\ readCall[c].step = "row" => readRow.rev # 0

(* The sensitivities a reader has seen account for the step it is at. *)
ReadSeenOK(c) ==
  /\ readCall[c].step \in {"elevated", "peek", "row", "trail"} => readRow.level \in readSeen[c]
  /\ readCall[c].step = "elevated" => 0 \in readSeen[c] \/ \E l \in readSeen[c] : l > ReadCeiling[c]
  /\ readCall[c].step = "peek" => \E l \in readSeen[c] : l <= ReadCeiling[c]
  /\ readCall[c].step = "not_found" => ReadSeveral(readSeen[c])

(* The text of a row has its event. *)
ReadRowOK == IF readRow.rev = 0 THEN readRow = ER!NoRow /\ readTrail = {} ELSE readRow.text \in readTrail

(* The inductive invariant. *)
ReadInv == ER!TypeOK /\ ReadRowOK /\ \A c \in Clients : ReadCallOK(c) /\ ReadSeenOK(c)

(* The types of the variables, one by one. *)
LEMMA ReadTypesOf ==
  ASSUME ER!TypeOK
  PROVE  /\ readRow \in ER!Rows /\ readCall \in [Clients -> ReadReads] /\ readSeen \in [Clients -> SUBSET (Sensitivities \cup {0})]
         /\ \A c \in Clients : readCall[c] \in ReadReads /\ readCall[c].row \in ER!Rows /\ readCall[c].trail \subseteq 1..MaxReadRev
         /\ readHistory \subseteq 1..MaxReadRev /\ readTrail \subseteq 1..MaxReadRev /\ readLinks \subseteq Clients
BY DEF ER!TypeOK, ReadReads, ReadSteps

(* The types of the variables after a step. *)
LEMMA ReadTypesNext ==
  ASSUME readRow' \in ER!Rows, readCall' \in [Clients -> ReadReads], readSeen' \in [Clients -> SUBSET (Sensitivities \cup {0})],
         readHistory' \subseteq 1..MaxReadRev, readTrail' \subseteq 1..MaxReadRev, readLinks' \subseteq Clients
  PROVE  ER!TypeOK'
BY DEF ER!TypeOK, ReadReads, ReadSteps

(* A row that is not there, a call that is over. *)
LEMMA ReadRests ==
  ASSUME ReadBounds
  PROVE  ER!NoRow \in ER!Rows /\ ER!NoRow.rev = 0 /\ ER!NoRow.level = 0 /\ ER!NoCall \in ReadReads /\ ER!NoCall.step = "idle"
<1>1. ER!NoRow \in ER!Rows /\ ER!NoRow.rev = 0 /\ ER!NoRow.level = 0
  BY DEF ER!NoRow, ER!Rows, ReadBounds
<1>2. ER!NoCall \in ReadReads /\ ER!NoCall.step = "idle"
  BY <1>1 DEF ER!NoCall, ReadReads, ReadSteps
<1> QED BY <1>1, <1>2

(* Two sensitivities are several. *)
LEMMA ReadTwo ==
  ASSUME ReadBounds, NEW S \in SUBSET (Sensitivities \cup {0}), NEW a \in S, NEW b \in S, a # b
  PROVE  ReadSeveral(S)
<1>1. IsFiniteSet(Sensitivities \cup {0})
  BY FS_AddElement DEF ReadBounds
<1>2. IsFiniteSet(S)
  BY <1>1, FS_Subset
<1>3. IsFiniteSet({a}) /\ Cardinality({a}) = 1
  BY FS_Singleton
<1>4. Cardinality({a} \cup {b}) = 2
  BY <1>3, FS_AddElement
<1>5. ({a} \cup {b}) \in SUBSET S
  OBVIOUS
<1>6. Cardinality({a} \cup {b}) <= Cardinality(S) /\ Cardinality(S) \in Nat
  BY <1>2, <1>5, FS_Subset, FS_CardinalityType
<1> QED BY <1>4, <1>6 DEF ReadSeveral

(* It holds at first. *)
LEMMA ReadTypeInit == ASSUME ReadBounds PROVE ER!Init => ReadInv
<1> SUFFICES ASSUME ER!Init PROVE ReadInv
  OBVIOUS
<1>1. ER!TypeOK
  BY ReadRests DEF ER!Init, ER!TypeOK, ReadReads, ReadSteps
<1>2. ReadRowOK /\ \A c \in Clients : ReadCallOK(c) /\ ReadSeenOK(c)
  BY ReadRests DEF ER!Init, ReadRowOK, ReadCallOK, ReadSeenOK
<1> QED BY <1>1, <1>2 DEF ReadInv

(* A step of one client that leaves the row as it is. *)
LEMMA ReadMoves ==
  ASSUME ReadBounds, ReadInv, NEW c \in Clients, NEW k \in ReadReads, readCall' = [readCall EXCEPT ![c] = k], NEW s \in SUBSET (Sensitivities \cup {0}),
         readSeen' = [readSeen EXCEPT ![c] = s], readRow' = readRow, readHistory' \subseteq 1..MaxReadRev,
         readTrail \subseteq readTrail', readTrail' \subseteq 1..MaxReadRev, readLinks' \subseteq Clients,
         readTrail' = readTrail \/ readRow.rev # 0,
         k.step = "write" => k.row.rev \in 1..MaxReadRev - 1,
         k.step = "audit" => k.row.rev \in 1..MaxReadRev,
         k.step \in {"write", "audit", "trail"} => k.row.text \in readTrail,
         k.step = "found" => k.row.text \in k.trail,
         k.step = "row" => readRow.rev # 0,
         k.step \in {"elevated", "peek", "row", "trail"} => readRow.level \in s,
         k.step = "elevated" => 0 \in s \/ \E l \in s : l > ReadCeiling[c],
         k.step = "peek" => \E l \in s : l <= ReadCeiling[c],
         k.step = "not_found" => ReadSeveral(s)
  PROVE  ReadInv'
<1>0. readRow \in ER!Rows /\ readCall \in [Clients -> ReadReads] /\ readSeen \in [Clients -> SUBSET (Sensitivities \cup {0})]
  BY ReadTypesOf DEF ReadInv
<1>1. readCall' \in [Clients -> ReadReads] /\ \A d \in Clients : readCall'[d] = IF d = c THEN k ELSE readCall[d]
  BY <1>0
<1>2. readSeen' \in [Clients -> SUBSET (Sensitivities \cup {0})] /\ \A d \in Clients : readSeen'[d] = IF d = c THEN s ELSE readSeen[d]
  BY <1>0
<1>3. ER!TypeOK'
  BY <1>0, <1>1, <1>2, ReadTypesNext
<1>4. ReadRowOK'
  BY DEF ReadInv, ReadRowOK
<1>5. ASSUME NEW d \in Clients PROVE ReadCallOK(d)' /\ ReadSeenOK(d)'
  <2>1. CASE d = c
    BY <1>1, <1>2, <2>1 DEF ReadCallOK, ReadSeenOK
  <2>2. CASE d # c
    BY <1>1, <1>2, <2>2 DEF ReadInv, ReadCallOK, ReadSeenOK
  <2> QED BY <2>1, <2>2
<1> QED BY <1>3, <1>4, <1>5 DEF ReadInv

(* A step that writes the row. *)
LEMMA ReadWrites ==
  ASSUME ReadBounds, ReadInv, NEW c \in Clients, NEW k \in ReadReads, NEW new \in ER!Rows, ER!Write(new), new.rev # 0,
         readCall' = [readCall EXCEPT ![c] = k], readHistory' \subseteq 1..MaxReadRev, readTrail \subseteq readTrail', readTrail' \subseteq 1..MaxReadRev,
         readLinks' = readLinks, new.text \in readTrail',
         k.step \in {"idle", "link", "audit"} ,
         k.step = "audit" => k.row.rev \in 1..MaxReadRev /\ k.row.text \in readTrail
  PROVE  ReadInv'
<1>0. /\ readCall \in [Clients -> ReadReads] /\ readSeen \in [Clients -> SUBSET (Sensitivities \cup {0})] /\ readLinks \subseteq Clients
      /\ new.level \in Sensitivities \cup {0}
  BY ReadTypesOf DEF ReadInv, ER!Rows
<1>1. readCall' \in [Clients -> ReadReads] /\ \A d \in Clients : readCall'[d] = IF d = c THEN k ELSE readCall[d]
  BY <1>0
<1>2. readSeen' \in [Clients -> SUBSET (Sensitivities \cup {0})]
      /\ \A d \in Clients : readSeen'[d] = IF ER!Reading(d) THEN readSeen[d] \cup {new.level} ELSE readSeen[d]
  BY <1>0 DEF ER!Write
<1>3. readRow' = new
  BY DEF ER!Write
<1>4. ER!TypeOK'
  BY <1>0, <1>1, <1>2, <1>3, ReadTypesNext
<1>5. ReadRowOK'
  BY <1>3 DEF ReadRowOK
<1>6. ASSUME NEW d \in Clients PROVE ReadCallOK(d)' /\ ReadSeenOK(d)'
  <2>1. CASE d = c
    BY <1>1, <2>1 DEF ReadCallOK, ReadSeenOK
  <2>2. CASE d # c
    <3>1. readCall'[d] = readCall[d] /\ ReadCallOK(d) /\ ReadSeenOK(d)
      BY <1>1, <2>2 DEF ReadInv
    <3>2. ReadCallOK(d)'
      BY <1>3, <3>1 DEF ReadCallOK
    <3>3. ReadSeenOK(d)'
      BY <1>2, <1>3, <3>1 DEF ReadSeenOK, ER!Reading
    <3> QED BY <3>2, <3>3
  <2> QED BY <2>1, <2>2
<1> QED BY <1>4, <1>5, <1>6 DEF ReadInv

(* A call at another step is a call. *)
LEMMA ReadStepType ==
  ASSUME NEW k \in ReadReads, NEW s \in ReadSteps, NEW n, n = [k EXCEPT !.step = s]
  PROVE  n \in ReadReads /\ n.step = s /\ n.row = k.row /\ n.trail = k.trail
BY DEF ReadReads

(* The writes. *)
LEMMA ReadWritersKeep ==
  ASSUME ReadBounds, ReadInv, NEW c \in Clients, NEW level \in Sensitivities, ER!Remember(c, level) \/ ER!Update(c, level) PROVE ReadInv'
<1>0. /\ readCall \in [Clients -> ReadReads] /\ readCall[c] \in ReadReads /\ readRow \in ER!Rows
      /\ readHistory \subseteq 1..MaxReadRev /\ readTrail \subseteq 1..MaxReadRev /\ readCall[c] = ER!NoCall
  BY ReadTypesOf DEF ReadInv, ER!Remember, ER!Update
<1>1. CASE ER!Remember(c, level)
  <2> PICK k : k = [readCall[c] EXCEPT !.step = "link"]
    OBVIOUS
  <2>1. k \in ReadReads /\ k.step = "link"
    BY <1>0, ReadStepType DEF ReadSteps
  <2> PICK new : new = [rev |-> 1, level |-> level, text |-> 1]
    OBVIOUS
  <2>2. new \in ER!Rows /\ new.rev = 1 /\ new.text = 1
    BY DEF ER!Rows, ReadBounds
  <2>3. ER!Write(new) /\ readCall' = [readCall EXCEPT ![c] = k] /\ readHistory' = {1} /\ readTrail' = {1} /\ readLinks' = readLinks
    BY <1>1 DEF ER!Remember, ER!Goes, ER!Does
  <2>4. readTrail \subseteq readTrail' /\ readHistory' \subseteq 1..MaxReadRev /\ readTrail' \subseteq 1..MaxReadRev
    <3>1. 1 \in 1..MaxReadRev
      BY DEF ReadBounds
    <3>2. readRow = ER!NoRow
      BY <1>1 DEF ER!Remember
    <3>3. readTrail = {}
      BY <3>2, ReadRests DEF ReadInv, ReadRowOK
    <3> QED BY <2>3, <3>1, <3>3
  <2>5. new.text \in readTrail' /\ new.rev # 0
    BY <2>2, <2>3
  <2> QED BY <2>1, <2>2, <2>3, <2>4, <2>5, ReadWrites
<1>2. CASE ER!Update(c, level)
  <2> PICK n : n = readRow.rev + 1
    OBVIOUS
  <2>1. n \in 1..MaxReadRev /\ n \in 0..MaxReadRev
    BY <1>0, <1>2 DEF ER!Update, ER!Rows, ReadBounds
  <2> PICK new : new = [rev |-> n, level |-> level, text |-> n]
    OBVIOUS
  <2>2. new \in ER!Rows /\ new.rev # 0 /\ new.text = n
    BY <2>1 DEF ER!Rows
  <2>3. ER!Write(new) /\ UNCHANGED <<readLinks, readCall>> /\ readHistory' = readHistory \cup {n} /\ readTrail' = readTrail \cup {n}
    BY <1>2 DEF ER!Update
  <2>4. readCall' = [readCall EXCEPT ![c] = ER!NoCall]
    BY <1>0, <2>3
  <2>5. new.text \in readTrail' /\ readTrail \subseteq readTrail' /\ readTrail' \subseteq 1..MaxReadRev /\ readHistory' \subseteq 1..MaxReadRev
    BY <1>0, <2>1, <2>2, <2>3
  <2> QED BY <2>2, <2>3, <2>4, <2>5, ReadRests, ReadWrites
<1> QED BY <1>1, <1>2

(* The confirmations. *)
LEMMA ReadConfirmsKeep ==
  ASSUME ReadBounds, ReadInv, NEW c \in Clients, ER!StartConfirm(c) \/ ER!WriteConfirm(c) \/ ER!AuditConfirm(c) PROVE ReadInv'
<1>0. /\ readCall \in [Clients -> ReadReads] /\ readCall[c] \in ReadReads /\ readRow \in ER!Rows /\ readCall[c].row \in ER!Rows
      /\ readHistory \subseteq 1..MaxReadRev /\ readTrail \subseteq 1..MaxReadRev /\ readLinks \subseteq Clients
      /\ readSeen[c] \in SUBSET (Sensitivities \cup {0}) /\ ReadCallOK(c)
      /\ readSeen \in [Clients -> SUBSET (Sensitivities \cup {0})]
  BY ReadTypesOf DEF ReadInv
<1>1. CASE ER!StartConfirm(c)
  <2> PICK k : k = [step |-> "write", row |-> readRow, trail |-> {}]
    OBVIOUS
  <2>1. k \in ReadReads /\ k.step = "write" /\ k.row = readRow
    BY <1>0 DEF ReadReads, ReadSteps
  <2>2. readRow.rev \in 1..MaxReadRev - 1 /\ readRow.text \in readTrail
    BY <1>0, <1>1 DEF ER!StartConfirm, ER!Visible, ER!Rows, ReadInv, ReadRowOK, ReadBounds
  <2>3. readCall' = [readCall EXCEPT ![c] = k] /\ UNCHANGED <<readRow, readHistory, readTrail, readLinks, readSeen>>
    BY <1>1 DEF ER!StartConfirm, ER!Does
  <2>4. readSeen' = [readSeen EXCEPT ![c] = readSeen[c]]
    BY <1>0, <2>3
  <2> QED BY <1>0, <2>1, <2>2, <2>3, <2>4, ReadMoves
<1>2. CASE ER!WriteConfirm(c)
  <2>0. readCall[c].row.rev \in 1..MaxReadRev - 1 /\ readCall[c].row.text \in readTrail
    BY <1>0, <1>2 DEF ER!WriteConfirm, ReadCallOK
  <2> PICK n : n = readCall[c].row.rev + 1
    OBVIOUS
  <2>1. n \in 1..MaxReadRev /\ n \in 0..MaxReadRev
    BY <2>0 DEF ReadBounds
  <2> PICK new : new = [readCall[c].row EXCEPT !.rev = n]
    OBVIOUS
  <2>2. new \in ER!Rows /\ new.rev = n /\ new.text = readCall[c].row.text
    BY <1>0, <2>1 DEF ER!Rows
  <2> PICK k : k = [readCall[c] EXCEPT !.step = "audit", !.row = new]
    OBVIOUS
  <2>3. k \in ReadReads /\ k.step = "audit" /\ k.row = new
    BY <1>0, <2>2 DEF ReadReads, ReadSteps
  <2>4. new = [readCall[c].row EXCEPT !.rev = @ + 1]
    OBVIOUS
  <2>5. ER!Write(new) /\ readCall' = [readCall EXCEPT ![c] = k] /\ UNCHANGED <<readHistory, readTrail, readLinks>>
    BY <1>2, <2>4, Zenon DEF ER!WriteConfirm, ER!Does
  <2>6. new.rev # 0
    BY <2>1, <2>2
  <2>7. new.text \in readTrail' /\ k.row.rev \in 1..MaxReadRev /\ k.row.text \in readTrail
    <3>1. k.row.rev = n /\ k.row.text = new.text /\ new.text \in readTrail
      BY <2>0, <2>2, <2>3
    <3>2. readTrail' = readTrail
      BY <2>5
    <3> QED BY <2>1, <3>1, <3>2
  <2>8. readTrail \subseteq readTrail' /\ readTrail' \subseteq 1..MaxReadRev /\ readHistory' \subseteq 1..MaxReadRev /\ readLinks' = readLinks
    BY <1>0, <2>5
  <2> QED BY <2>2, <2>3, <2>5, <2>6, <2>7, <2>8, ReadWrites
<1>3. CASE ER!AuditConfirm(c)
  <2>1. readCall[c].row.rev \in 1..MaxReadRev
    BY <1>0, <1>3 DEF ER!AuditConfirm, ReadCallOK
  <2>2. readCall' = [readCall EXCEPT ![c] = ER!NoCall] /\ readTrail' = readTrail \cup {readCall[c].row.rev} /\ UNCHANGED <<readRow, readHistory, readLinks, readSeen>>
    BY <1>3 DEF ER!AuditConfirm, ER!Does
  <2>3. readSeen' = [readSeen EXCEPT ![c] = readSeen[c]] /\ readTrail' \subseteq 1..MaxReadRev
    BY <1>0, <2>1, <2>2
  <2>4. readRow.rev # 0
    BY <1>0, <1>3 DEF ER!AuditConfirm, ReadCallOK, ReadInv, ReadRowOK
  <2> QED BY <1>0, <2>2, <2>3, <2>4, ReadRests, ReadMoves
<1> QED BY <1>1, <1>2, <1>3

(* A read that finds nothing finds out why. *)
LEMMA ReadReadersKeep ==
  ASSUME ReadBounds, ReadInv, NEW c \in Clients, ER!Classify(c) \/ ER!Elevated(c) \/ ER!Peek(c) PROVE ReadInv'
<1>a. readRow \in ER!Rows /\ (readRow.rev = 0 => readRow.level = 0)
  BY ReadTypesOf, ReadRests DEF ReadInv, ReadRowOK
<1>b. readRow.rev \in Nat /\ readRow.level \in Sensitivities \cup {0} /\ ReadCeiling[c] \in Nat
  BY <1>a DEF ER!Rows, ReadBounds
<1>c. readRow.level \in Nat
  <2>1. \A l \in Sensitivities : l \in Nat
    BY DEF ReadBounds
  <2>2. readRow.level \in Sensitivities \/ readRow.level = 0
    BY <1>b
  <2>3. CASE readRow.level \in Sensitivities
    BY <2>1, <2>3
  <2>4. CASE readRow.level = 0
    BY <2>4
  <2> QED BY <2>2, <2>3, <2>4
<1>0. /\ readCall \in [Clients -> ReadReads] /\ readCall[c] \in ReadReads /\ readRow \in ER!Rows /\ readRow.rev \in Nat /\ readRow.level \in Nat
      /\ readRow.level \in Sensitivities \cup {0} /\ ReadCeiling[c] \in Nat
      /\ readHistory \subseteq 1..MaxReadRev /\ readTrail \subseteq 1..MaxReadRev /\ readLinks \subseteq Clients
      /\ readSeen[c] \in SUBSET (Sensitivities \cup {0}) /\ ReadSeenOK(c) /\ (readRow.rev = 0 => readRow.level = 0)
      /\ readSeen \in [Clients -> SUBSET (Sensitivities \cup {0})] /\ UNCHANGED <<readRow, readHistory, readTrail, readLinks>>
  BY <1>a, <1>b, <1>c, ReadTypesOf DEF ReadInv, ER!Classify, ER!Elevated, ER!Peek
<1>1. CASE ER!Classify(c)
  <2> PICK s \in {"peek", "elevated"} : s = IF ER!Visible(c) THEN "peek" ELSE "elevated"
    OBVIOUS
  <2> PICK k : k = [readCall[c] EXCEPT !.step = s]
    OBVIOUS
  <2>1. k \in ReadReads /\ k.step = s
    BY <1>0, ReadStepType DEF ReadSteps
  <2>2. readCall' = [readCall EXCEPT ![c] = k] /\ readSeen' = [readSeen EXCEPT ![c] = {readRow.level}]
    BY <1>1 DEF ER!Classify, ER!Goes, ER!Does
  <2> PICK t : t = {readRow.level}
    OBVIOUS
  <2>3. t \in SUBSET (Sensitivities \cup {0}) /\ readRow.level \in t
    BY <1>0
  <2>4. s = "peek" => readRow.level <= ReadCeiling[c]
    BY DEF ER!Visible
  <2>5. s = "elevated" => 0 \in t \/ readRow.level > ReadCeiling[c]
    BY <1>0 DEF ER!Visible
  <2> QED BY <1>0, <2>1, <2>2, <2>3, <2>4, <2>5, ReadMoves
<1>2. CASE ER!Elevated(c)
  <2> PICK s \in {"forbidden_visibility", "not_found"} : s = IF readRow.level > ReadCeiling[c] THEN "forbidden_visibility" ELSE "not_found"
    OBVIOUS
  <2> PICK k : k = [readCall[c] EXCEPT !.step = s]
    OBVIOUS
  <2>1. k \in ReadReads /\ k.step = s
    BY <1>0, ReadStepType DEF ReadSteps
  <2>2. readCall' = [readCall EXCEPT ![c] = k] /\ readSeen' = [readSeen EXCEPT ![c] = readSeen[c]]
    BY <1>0, <1>2 DEF ER!Elevated, ER!Goes, ER!Does
  <2>3. readRow.level \in readSeen[c] /\ (0 \in readSeen[c] \/ \E l \in readSeen[c] : l > ReadCeiling[c])
    BY <1>0, <1>2 DEF ER!Elevated, ReadSeenOK
  <2>4. s = "not_found" => ReadSeveral(readSeen[c])
    <3> SUFFICES ASSUME s = "not_found", 0 \notin readSeen[c] PROVE ReadSeveral(readSeen[c])
      BY DEF ReadSeveral
    <3>1. PICK l \in readSeen[c] : l > ReadCeiling[c]
      BY <2>3
    <3>2. l # readRow.level
      BY <1>0, <3>1
    <3> QED BY <1>0, <2>3, <3>1, <3>2, ReadTwo
  <2> QED BY <1>0, <2>1, <2>2, <2>4, ReadMoves
<1>3. CASE ER!Peek(c)
  <2> PICK s \in {"row", "not_found"} : s = IF ER!Visible(c) THEN "row" ELSE "not_found"
    OBVIOUS
  <2> PICK k : k = [readCall[c] EXCEPT !.step = s]
    OBVIOUS
  <2>1. k \in ReadReads /\ k.step = s
    BY <1>0, ReadStepType DEF ReadSteps
  <2>2. readCall' = [readCall EXCEPT ![c] = k] /\ readSeen' = [readSeen EXCEPT ![c] = readSeen[c]]
    BY <1>0, <1>3 DEF ER!Peek, ER!Goes, ER!Does
  <2>3. readRow.level \in readSeen[c] /\ \E l \in readSeen[c] : l <= ReadCeiling[c]
    BY <1>0, <1>3 DEF ER!Peek, ReadSeenOK
  <2>4. s = "not_found" => ReadSeveral(readSeen[c])
    <3> SUFFICES ASSUME s = "not_found", 0 \notin readSeen[c] PROVE ReadSeveral(readSeen[c])
      BY DEF ReadSeveral
    <3>1. PICK l \in readSeen[c] : l <= ReadCeiling[c]
      BY <2>3
    <3>2. readRow.level > ReadCeiling[c]
      BY <1>0, <2>3 DEF ER!Visible
    <3>3. l # readRow.level
      BY <1>0, <3>1, <3>2
    <3> QED BY <1>0, <2>3, <3>1, <3>3, ReadTwo
  <2>5. s = "row" => readRow.rev # 0
    BY <1>0 DEF ER!Visible
  <2> QED BY <1>0, <2>1, <2>2, <2>3, <2>4, <2>5, ReadMoves
<1> QED BY <1>1, <1>2, <1>3

(* The row and its trail are read and shown. *)
LEMMA ReadShowsKeep ==
  ASSUME ReadBounds, ReadInv, NEW c \in Clients, ER!ReadEntry(c) \/ ER!ReadTrail(c) \/ ER!RecordProvenance(c) \/ ER!End(c) PROVE ReadInv'
<1>0. /\ readCall \in [Clients -> ReadReads] /\ readCall[c] \in ReadReads /\ readRow \in ER!Rows /\ readCall[c].row \in ER!Rows
      /\ readHistory \subseteq 1..MaxReadRev /\ readTrail \subseteq 1..MaxReadRev /\ readLinks \subseteq Clients
      /\ readSeen[c] \in SUBSET (Sensitivities \cup {0}) /\ ReadCallOK(c) /\ ReadSeenOK(c) /\ ReadRowOK
      /\ readSeen \in [Clients -> SUBSET (Sensitivities \cup {0})]
      /\ UNCHANGED <<readRow, readHistory, readTrail>>
  BY ReadTypesOf DEF ReadInv, ER!ReadEntry, ER!ReadTrail, ER!RecordProvenance, ER!End
<1>1. CASE ER!ReadEntry(c)
  <2> PICK k : k = [readCall[c] EXCEPT !.step = "trail", !.row = readRow]
    OBVIOUS
  <2>1. k \in ReadReads /\ k.step = "trail" /\ k.row = readRow
    BY <1>0 DEF ReadReads, ReadSteps
  <2>2. readRow.text \in readTrail /\ readRow.level \in readSeen[c]
    BY <1>0, <1>1 DEF ER!ReadEntry, ReadCallOK, ReadSeenOK, ReadRowOK
  <2>3. readCall' = [readCall EXCEPT ![c] = k] /\ UNCHANGED <<readLinks, readSeen>>
    BY <1>1 DEF ER!ReadEntry, ER!Does
  <2>4. readSeen' = [readSeen EXCEPT ![c] = readSeen[c]]
    BY <1>0, <2>3
  <2> QED BY <1>0, <2>1, <2>2, <2>3, <2>4, ReadMoves
<1>2. CASE ER!ReadTrail(c)
  <2> PICK k : k = [readCall[c] EXCEPT !.step = "found", !.trail = readTrail]
    OBVIOUS
  <2>1. k \in ReadReads /\ k.step = "found" /\ k.row = readCall[c].row /\ k.trail = readTrail
    BY <1>0 DEF ReadReads, ReadSteps
  <2>2. readCall[c].row.text \in readTrail
    BY <1>0, <1>2 DEF ER!ReadTrail, ReadCallOK
  <2>3. readCall' = [readCall EXCEPT ![c] = k] /\ UNCHANGED <<readLinks, readSeen>>
    BY <1>2 DEF ER!ReadTrail, ER!Does
  <2>4. readSeen' = [readSeen EXCEPT ![c] = readSeen[c]]
    BY <1>0, <2>3
  <2>5. k.row.text \in k.trail /\ k.step = "found" /\ readTrail' = readTrail /\ readRow' = readRow /\ readHistory' = readHistory /\ readLinks' = readLinks
    BY <1>0, <2>1, <2>2, <2>3
  <2> QED BY <1>0, <2>1, <2>3, <2>4, <2>5, ReadMoves
<1>3. CASE ER!RecordProvenance(c)
  <2>1. readCall' = [readCall EXCEPT ![c] = ER!NoCall] /\ readLinks' \subseteq Clients /\ readSeen' = readSeen
    BY <1>0, <1>3 DEF ER!RecordProvenance, ER!Does
  <2>2. readSeen' = [readSeen EXCEPT ![c] = readSeen[c]]
    BY <1>0, <2>1
  <2> QED BY <1>0, <2>1, <2>2, ReadRests, ReadMoves
<1>4. CASE ER!End(c)
  <2>1. readCall' = [readCall EXCEPT ![c] = ER!NoCall] /\ readSeen' = [readSeen EXCEPT ![c] = {}] /\ readLinks' = readLinks
    BY <1>4 DEF ER!End, ER!Does
  <2> QED BY <1>0, <2>1, ReadRests, ReadMoves
<1> QED BY <1>1, <1>2, <1>3, <1>4

(* So every step keeps the invariant. *)
LEMMA ReadNextKeeps == ASSUME ReadBounds, ReadInv, [ER!Next]_(ER!vars) PROVE ReadInv'
<1>1. CASE ER!Next
  BY <1>1, ReadWritersKeep, ReadConfirmsKeep, ReadReadersKeep, ReadShowsKeep DEF ER!Next
<1>2. CASE UNCHANGED ER!vars
  <2>1. ER!TypeOK'
    BY <1>2 DEF ER!vars, ReadInv, ER!TypeOK
  <2> QED BY <1>2, <2>1 DEF ER!vars, ReadInv, ReadRowOK, ReadCallOK, ReadSeenOK
<1> QED BY <1>1, <1>2

(* What the run checks follows. *)
LEMMA ReadHold == ASSUME ReadInv PROVE ER!ReadsHold
BY ReadSame DEF ReadInv, ReadCallOK, ReadSeenOK, ReadSeveral, ER!ReadsHold, ER!TrailCoversText, ER!MissingWasMissing

(* The constants are so. *)
LEMMA ReadBoundsHold == ReadBounds
BY BoundsAssumption, NumbersAssumption DEF ReadBounds

(* A step of the whole is one of this part, if it is its turn. *)
LEMMA ReadTurn ==
  ASSUME [Next]_vars
  PROVE  part' = part /\ (part = "reads" => [ER!Next]_(ER!vars))
<1>1. part' = part
  BY DEF Next, vars, Only
<1>2. part = "reads" => [ER!Next]_(ER!vars)
  BY DEF Next, vars, Only, ER!vars, readsVars
<1> QED BY <1>1, <1>2

(* So the invariant holds whenever this part moves. *)
LEMMA ReadAlways == Spec => [](part = "reads" => ReadInv)
<1>1. Init => (part = "reads" => ReadInv)
  BY ReadBoundsHold, ReadTypeInit DEF Init
<1>2. (part = "reads" => ReadInv) /\ [Next]_vars => (part = "reads" => ReadInv)'
  BY ReadBoundsHold, ReadNextKeeps, ReadTurn
<1> QED BY <1>1, <1>2, PTL DEF Spec

-----------------------------------------------------------------------------
(* The types of the parts, by the module their invariants are in. *)
ServersTyped ==
  /\ part = "daemon" => DL!TypeOK
  /\ part = "lifecycle" => SL!TypeOK
  /\ part = "http" => HS!TypeOK
  /\ part = "bridge" => HB!TypeOK
  /\ part = "plugin" => OP!TypeOK
  /\ part = "capability" => CA!TypeOK
  /\ part = "migrations" => MG!TypeOK

SessionsTyped ==
  /\ part = "sweeps" => MS!TypeOK
  /\ part = "sessions" => SI!TypeOK
  /\ part = "distillation" => DI!TypeOK
  /\ part = "bootstrap" => BP!TypeOK

FilesTyped ==
  /\ part = "import" => IB!TypeOK
  /\ part = "publication" => PU!TypeOK
  /\ part = "backups" => BA!TypeOK
  /\ part = "budget" => BB!TypeOK
  /\ part = "history" => HY!TypeOK

RowsTyped ==
  /\ part = "assets" => AV!TypeOK
  /\ part = "loadouts" => LO!TypeOK
  /\ part = "projects" => PI!TypeOK
  /\ part = "packing" => CP!TypeOK
  /\ part = "ranking" => RR!TypeOK
  /\ part = "reads" => ER!TypeOK

(* Every variable of the part that moves has its type, for all values of the  *)
(* constants.                                                                 *)
THEOREM TypesAlwaysHold == Spec => []TypesHold
<1>1. (part = "daemon" => DaemonInv /\ DaemonRace) => (part = "daemon" => DL!TypeOK)
  BY DEF DaemonInv
<1>2. (part = "lifecycle" => LifeInv) => (part = "lifecycle" => SL!TypeOK)
  BY DEF LifeInv
<1>3. (part = "http" => HttpInv) => (part = "http" => HS!TypeOK)
  BY DEF HttpInv
<1>4. (part = "bridge" => BridgeInv) => (part = "bridge" => HB!TypeOK)
  BY DEF BridgeInv
<1>5. (part = "plugin" => PluginInv) => (part = "plugin" => OP!TypeOK)
  BY DEF PluginInv
<1>6. (part = "capability" => CapInv) => (part = "capability" => CA!TypeOK)
  BY DEF CapInv
<1>7. (part = "sweeps" => SweepInv) => (part = "sweeps" => MS!TypeOK)
  BY DEF SweepInv
<1>8. (part = "sessions" => IngestInv) => (part = "sessions" => SI!TypeOK)
  BY DEF IngestInv
<1>9. (part = "distillation" => DistilInv) => (part = "distillation" => DI!TypeOK)
  BY DEF DistilInv
<1>10. (part = "bootstrap" => BootInv) => (part = "bootstrap" => BP!TypeOK)
  BY DEF BootInv
<1>11. (part = "import" => ImportInv) => (part = "import" => IB!TypeOK)
  BY DEF ImportInv
<1>12. (part = "publication" => PublishInv) => (part = "publication" => PU!TypeOK)
  BY DEF PublishInv
<1>13. (part = "backups" => BackupInv) => (part = "backups" => BA!TypeOK)
  BY DEF BackupInv
<1>14. (part = "assets" => AssetInv) => (part = "assets" => AV!TypeOK)
  BY DEF AssetInv
<1>15. (part = "loadouts" => LoadoutInv) => (part = "loadouts" => LO!TypeOK)
  BY DEF LoadoutInv
<1>16. (part = "projects" => ProjectInv) => (part = "projects" => PI!TypeOK)
  BY DEF ProjectInv
<1>17. (part = "migrations" => MigrateInv) => (part = "migrations" => MG!TypeOK)
  BY DEF MigrateInv
<1>18. (part = "packing" => PackInv) => (part = "packing" => CP!TypeOK)
  BY DEF PackInv
<1>19. (part = "ranking" => RankInv) => (part = "ranking" => RR!TypeOK)
  BY DEF RankInv
<1>20. (part = "reads" => ReadInv) => (part = "reads" => ER!TypeOK)
  BY DEF ReadInv
<1>21. (part = "budget" => BatchInv) => (part = "budget" => BB!TypeOK)
  BY BatchBoundsHold, BatchFit
<1>22. (part = "history" => HistoryInv) => (part = "history" => HY!TypeOK)
  BY DEF HistoryInv
<1>23. Spec => []ServersTyped
  BY <1>1, <1>2, <1>3, <1>4, <1>5, <1>6, <1>17, DaemonAlways, LifeAlways, HttpAlways,
     BridgeAlways, PluginAlways, CapAlways, MigrateAlways, PTL DEF ServersTyped
<1>24. Spec => []SessionsTyped
  BY <1>7, <1>8, <1>9, <1>10, SweepAlways, IngestAlways, DistilAlways, BootAlways, PTL DEF
     SessionsTyped
<1>25. Spec => []FilesTyped
  BY <1>11, <1>12, <1>13, <1>21, <1>22, ImportAlways, PublishAlways, BackupAlways, BatchAlways,
     HistoryAlways, PTL DEF FilesTyped
<1>26. Spec => []RowsTyped
  BY <1>14, <1>15, <1>16, <1>18, <1>19, <1>20, AssetAlways, LoadoutAlways, ProjectAlways,
     PackAlways, RankAlways, ReadAlways, PTL DEF RowsTyped
<1>27. ServersTyped /\ SessionsTyped /\ FilesTyped /\ RowsTyped => TypesHold
  BY DEF ServersTyped, SessionsTyped, FilesTyped, RowsTyped, TypesHold
<1> QED BY <1>23, <1>24, <1>25, <1>26, <1>27, PTL

(* bootstrap/service.ts, portability/importer.ts, budget-governor.ts,         *)
(* migration-adapter.ts: the items of a plan go together, a completed import  *)
(* names memories that are there, a scope stays within its budget under any   *)
(* import and any other writers, and the entries read with a history were     *)
(* those of one moment, for any plans, batches, budgets and memories.         *)
THEOREM BatchesStayWhole == Spec => []BatchesAreWhole
<1>1. /\ part = "bootstrap" => BootInv
      /\ part = "import" => ImportInv
      /\ part = "budget" => BatchInv
      /\ part = "history" => HistoryInv
      => BatchesAreWhole
  BY BatchBoundsHold, BootWhole, ImportWhole, BatchFit, HistoryHold DEF BootInv, BatchesAreWhole
<1> QED BY <1>1, BootAlways, ImportAlways, BatchAlways, HistoryAlways, PTL

(* assets/service.ts, loadouts/service.ts: the versions of an asset are 1 to  *)
(* its head, each with the payload it names, and the rules of a version of a  *)
(* loadout come from one update, for any processes, assets and contents.      *)
THEOREM VersionsAlwaysHold == Spec => []VersionsHold
<1>1. (part = "assets" => AssetInv) /\ (part = "loadouts" => LoadoutInv) => VersionsHold
  BY LoadoutHeld DEF AssetInv, VersionsHold
<1> QED BY <1>1, AssetAlways, LoadoutAlways, PTL

(* assembler.ts, index.js of the plugin, sqlite-store.ts, scope-resolver.ts,  *)
(* recall-ranker.ts, memory-read-service.ts: nothing that fits is left out of *)
(* a context, no text is served that had outlived its time, no audit event is *)
(* lost between two tables, an alias names a known project, a ranking is      *)
(* total and puts text before tier, and a read shows a text with its event,   *)
(* for any entries, hooks, processes, memories and clients.                   *)
THEOREM ReadsStaySound == Spec => []ReadsAreSound
<1>1. /\ part = "packing" => PackInv
      /\ part = "plugin" => PluginInv
      /\ part = "migrations" => MigrateInv
      /\ part = "projects" => ProjectInv
      /\ part = "ranking" => RankInv
      /\ part = "reads" => ReadInv
      => ReadsAreSound
  BY RankBoundsHold, MigrateSomewhere, RankHolds, ReadHold
     DEF PackInv, PluginInv, ProjectInv, ProjectCore, ReadsAreSound
<1> QED BY <1>1, PackAlways, PluginAlways, MigrateAlways, ProjectAlways, RankAlways, ReadAlways, PTL

(* scope-resolver.ts, sqlite-store.ts, assets/service.ts, bootstrap/          *)
(* service.ts, recall-ranker.ts, bridge.mjs: what is final stays so whoever   *)
(* races and dies: an alias, the applied result of a plan, an archived asset, *)
(* an ended bootstrap plan; a vote never sinks its memory, and a bridge       *)
(* session begins once.                                                       *)
THEOREM RowsAlwaysStand == Spec => RowsStand
<1>1. (part = "projects" => ProjectInv) /\ [Next]_vars => (part = "projects" => PI!KeepsAliases)
  BY ProjectStands, ProjectTurn DEF ProjectInv
<1>2. (part = "migrations" => MigrateInv) /\ [Next]_vars => (part = "migrations" => MG!KeepsApplied)
  BY MigrateBoundsHold, MigrateNextKeeps, MigrateTurn
<1>3. (part = "assets" => AssetInv) /\ [Next]_vars => (part = "assets" => AV!KeepsArchived)
  BY AssetBoundsHold, AssetNextKeeps, AssetTurn
<1>4. (part = "bootstrap" => BootInv) /\ [Next]_vars => (part = "bootstrap" => BP!KeepsEnd)
  <2>1. BP!vars' = BP!vars => BP!KeepsEnd
    BY DEF BP!vars, BP!KeepsEnd
  <2> QED BY <2>1, BootNextKeeps, BootTurn DEF BootInv
<1>5. (part = "ranking" => RankInv) /\ [Next]_vars => (part = "ranking" => RR!PraiseNeverSinks)
  BY RankBoundsHold, RankPraise, RankTurn
<1>6. (part = "bridge" => BridgeInv) /\ [Next]_vars => (part = "bridge" => HB!KeepsClosed /\ HB!OnlyInitialize)
  BY BoundsAssumption, BridgeNextKeeps, BridgeTurn
<1>7. Spec => [][/\ part = "projects" => PI!KeepsAliases
                 /\ part = "migrations" => MG!KeepsApplied
                 /\ part = "assets" => AV!KeepsArchived
                 /\ part = "bootstrap" => BP!KeepsEnd
                 /\ part = "ranking" => RR!PraiseNeverSinks
                 /\ part = "bridge" => HB!KeepsClosed /\ HB!OnlyInitialize]_vars
  BY <1>1, <1>2, <1>3, <1>4, <1>5, <1>6, ProjectAlways, MigrateAlways, AssetAlways, BootAlways,
     RankAlways, BridgeAlways, PTL DEF Spec
<1> QED BY <1>7 DEF RowsStand
=============================================================================
