---------------------------- MODULE FilesProofs ----------------------------
(* What holds of imports, exports and backups in Services for every value of  *)
(* its constants.                                                             *)

EXTENDS Services, Sequences, SumTheorems, TLAPS

-----------------------------------------------------------------------------
(* Import batches: IB in Services. *)

(* What the proof takes of the constants. *)
ImportBounds == MaxRev \in Nat /\ BundleRev \in 1..MaxRev + 1 /\ None \notin Batches

(* The records of the tables and of the calls. *)
ImportRows == [rev : 0..MaxRev + 1, body : {None, Local, Bundled, Merged}, active : BOOLEAN]
ImportBatchRows == [status : {"absent", "pending", "completed", "failed"}, affected : SUBSET ImportedIds, dry : BOOLEAN]
ImportCalls == [step : {"idle", "start", "apply", "fail"}, batch : Batches \cup {None}, policy : IB!Policies,
            mode : IB!Modes, dry : BOOLEAN, revs : [ImportedIds -> 0..MaxRev + 1]]

(* A call that is planned has no row for its batch yet, one that applies or    *)
(* fails has a pending one that is no dry run's.                               *)
ImportCallOK(p) ==
  /\ importCall[p].step # "idle" => importCall[p].batch \in Batches
  /\ importCall[p].step = "idle" => importCall[p].batch = None
  /\ importCall[p].step = "start" => batch[importCall[p].batch].status = "absent"
                               /\ batch[importCall[p].batch].affected = {}
  /\ importCall[p].step \in {"apply", "fail"} =>
       /\ batch[importCall[p].batch].status = "pending" /\ batch[importCall[p].batch].affected = {}
       /\ ~batch[importCall[p].batch].dry

(* No two calls have one batch. *)
ImportApart == \A p, q \in Procs : importCall[p].batch = importCall[q].batch /\ importCall[p].batch # None => p = q

(* The inductive invariant. *)
ImportInv ==
  /\ IB!TypeOK
  /\ \A p \in Procs : ImportCallOK(p)
  /\ ImportApart /\ IB!CompletedIsThere /\ IB!NothingOverwritten


(* The types of the variables, one by one. *)
LEMMA ImportTypesOf ==
  ASSUME IB!TypeOK
  PROVE  /\ importRow \in [ImportedIds -> ImportRows] /\ chain \in [ImportedIds -> SUBSET (1..MaxRev + 1)]
         /\ batch \in [Batches -> ImportBatchRows] /\ importCall \in [Procs -> ImportCalls]
BY DEF IB!TypeOK, ImportRows, ImportBatchRows, ImportCalls

(* The types of the variables after a step. *)
LEMMA ImportTypesNext ==
  ASSUME importRow' \in [ImportedIds -> ImportRows], chain' \in [ImportedIds -> SUBSET (1..MaxRev + 1)],
         batch' \in [Batches -> ImportBatchRows], importCall' \in [Procs -> ImportCalls], overwritten' = {}
  PROVE  IB!TypeOK'
BY DEF IB!TypeOK, ImportRows, ImportBatchRows, ImportCalls

(* A call that is over, a batch and a row that are not there. *)
LEMMA ImportRestsOK ==
  ASSUME ImportBounds
  PROVE  /\ IB!NoCall \in ImportCalls /\ IB!NoCall.step = "idle" /\ IB!NoCall.batch = None
         /\ IB!NoBatch \in ImportBatchRows /\ IB!NoBatch.status = "absent" /\ IB!NoBatch.affected = {} /\ ~IB!NoBatch.dry
         /\ IB!Absent \in ImportRows /\ IB!Absent.rev = 0
<1>1. IB!NoCall \in ImportCalls /\ IB!NoCall.step = "idle" /\ IB!NoCall.batch = None
  <2>1. FALSE \in BOOLEAN /\ "keep" \in IB!Policies /\ "snapshot" \in IB!Modes
        /\ [m \in ImportedIds |-> 0] \in [ImportedIds -> 0..MaxRev + 1] /\ "idle" \in {"idle", "start", "apply", "fail"}
    BY DEF IB!Policies, IB!Modes, ImportBounds
  <2>2. [step |-> "idle", batch |-> None, policy |-> "keep", mode |-> "snapshot", dry |-> FALSE,
         revs |-> [m \in ImportedIds |-> 0]] \in ImportCalls
    BY <2>1, Zenon DEF ImportCalls
  <2> QED BY <2>2 DEF IB!NoCall
<1>2. IB!NoBatch \in ImportBatchRows /\ IB!NoBatch.status = "absent" /\ IB!NoBatch.affected = {} /\ ~IB!NoBatch.dry
  <2>1. FALSE \in BOOLEAN /\ {} \in SUBSET ImportedIds
    OBVIOUS
  <2>2. [status |-> "absent", affected |-> {}, dry |-> FALSE] \in ImportBatchRows
    BY <2>1, Zenon DEF ImportBatchRows
  <2> QED BY <2>2 DEF IB!NoBatch
<1>3. IB!Absent \in ImportRows /\ IB!Absent.rev = 0
  <2>1. FALSE \in BOOLEAN /\ 0 \in 0..MaxRev + 1
    BY DEF ImportBounds
  <2>2. [rev |-> 0, body |-> None, active |-> FALSE] \in ImportRows
    BY <2>1, Zenon DEF ImportRows
  <2> QED BY <2>2 DEF IB!Absent
<1> QED BY <1>1, <1>2, <1>3

(* It holds at first. *)
LEMMA ImportTypeInit == ASSUME ImportBounds PROVE IB!Init => ImportInv
<1> SUFFICES ASSUME IB!Init PROVE ImportInv
  OBVIOUS
<1>1. \A p \in Procs : importCall[p] = IB!NoCall
  BY DEF IB!Init
<1>2. \A b \in Batches : batch[b] = IB!NoBatch
  BY DEF IB!Init
<1>3. IB!TypeOK
  BY ImportRestsOK DEF IB!Init, IB!TypeOK, ImportRows, ImportBatchRows, ImportCalls
<1>4. \A p \in Procs : ImportCallOK(p)
  BY <1>1, ImportRestsOK DEF ImportCallOK
<1>5. ImportApart
  BY <1>1, ImportRestsOK DEF ImportApart
<1>6. IB!CompletedIsThere /\ IB!NothingOverwritten
  BY <1>2, ImportRestsOK DEF IB!CompletedIsThere, IB!NothingOverwritten, IB!Init
<1> QED BY <1>3, <1>4, <1>5, <1>6 DEF ImportInv

(* A row that is never taken away. *)
LEMMA ImportRowsKeep ==
  ASSUME ImportBounds, ImportInv, importRow' \in [ImportedIds -> ImportRows], chain' \in [ImportedIds -> SUBSET (1..MaxRev + 1)],
         \A m \in ImportedIds : IB!Live(m) => importRow'[m].rev > 0, UNCHANGED <<batch, importCall, overwritten>>
  PROVE  ImportInv'
<1>1. IB!TypeOK'
  BY ImportTypesOf, ImportTypesNext DEF ImportInv, IB!NothingOverwritten
<1>2. \A p \in Procs : ImportCallOK(p)'
  BY DEF ImportInv, ImportCallOK
<1>3. IB!CompletedIsThere'
  BY ImportTypesOf DEF ImportInv, IB!CompletedIsThere, IB!Live, ImportBatchRows
<1> QED BY <1>1, <1>2, <1>3 DEF ImportInv, ImportApart, IB!NothingOverwritten

(* A row is created or written beside the imports. *)
LEMMA ImportCreateKeeps ==
  ASSUME ImportBounds, ImportInv, NEW m \in ImportedIds, IB!Create(m) \/ \E stays \in BOOLEAN : IB!Write(m, stays)
  PROVE  ImportInv'
<1>0. importRow \in [ImportedIds -> ImportRows] /\ chain \in [ImportedIds -> SUBSET (1..MaxRev + 1)] /\ importRow[m].rev \in 0..MaxRev + 1
  BY ImportTypesOf DEF ImportInv, ImportRows
<1>1. ASSUME NEW r \in ImportRows, r.rev > 0, importRow' = [importRow EXCEPT ![m] = r],
             NEW s \in SUBSET (1..MaxRev + 1), chain' = [chain EXCEPT ![m] = s],
             UNCHANGED <<batch, importCall, overwritten>>
      PROVE  ImportInv'
  <2>1. importRow' \in [ImportedIds -> ImportRows] /\ chain' \in [ImportedIds -> SUBSET (1..MaxRev + 1)]
    BY <1>0, <1>1
  <2>2. \A n \in ImportedIds : IB!Live(n) => importRow'[n].rev > 0
    BY <1>0, <1>1 DEF IB!Live
  <2> QED BY <1>1, <2>1, <2>2, ImportRowsKeep
<1>2. CASE IB!Create(m)
  <2> PICK r : r = [rev |-> 1, body |-> Local, active |-> TRUE]
    OBVIOUS
  <2>1. 1 \in 0..MaxRev + 1 /\ TRUE \in BOOLEAN /\ {1} \in SUBSET (1..MaxRev + 1)
    BY DEF ImportBounds
  <2>2. r \in ImportRows
    BY <2>1, Zenon DEF ImportRows
  <2>3. r.rev > 0 /\ importRow' = [importRow EXCEPT ![m] = r] /\ chain' = [chain EXCEPT ![m] = {1}]
        /\ UNCHANGED <<batch, importCall, overwritten>>
    BY <1>2 DEF IB!Create
  <2> QED BY <1>1, <2>1, <2>2, <2>3
<1>3. ASSUME NEW stays \in BOOLEAN, IB!Write(m, stays) PROVE ImportInv'
  <2> PICK r : r = [rev |-> importRow[m].rev + 1, body |-> Local, active |-> stays]
    OBVIOUS
  <2>1. importRow[m].rev + 1 \in 0..MaxRev + 1 /\ importRow[m].rev + 1 \in 1..MaxRev + 1 /\ importRow[m].rev + 1 > 0
    BY <1>0, <1>3 DEF IB!Write, ImportBounds
  <2>2. r \in ImportRows
    BY <2>1, Zenon DEF ImportRows
  <2>3. importRow' = [importRow EXCEPT ![m] = r] /\ chain' = [chain EXCEPT ![m] = chain[m] \cup {importRow[m].rev + 1}]
        /\ UNCHANGED <<batch, importCall, overwritten>>
    BY <1>3 DEF IB!Write
  <2>4. chain[m] \cup {importRow[m].rev + 1} \in SUBSET (1..MaxRev + 1)
    BY <1>0, <2>1
  <2> QED BY <1>1, <2>1, <2>2, <2>3, <2>4
<1> QED BY <1>2, <1>3

(* A step of one import, and what it makes of its batch. *)
LEMMA ImportMove ==
  ASSUME ImportBounds, ImportInv, NEW p \in Procs, NEW k \in ImportCalls, importCall' = [importCall EXCEPT ![p] = k],
         importRow' \in [ImportedIds -> ImportRows], chain' \in [ImportedIds -> SUBSET (1..MaxRev + 1)], overwritten' = {},
         \A m \in ImportedIds : IB!Live(m) => importRow'[m].rev > 0,
         batch' \in [Batches -> ImportBatchRows],
         \A b \in Batches : b # importCall[p].batch => batch'[b] = batch[b],
         ImportCallOK(p)',
         k.batch \in {None, importCall[p].batch} \/ \A q \in Procs : importCall[q].batch # k.batch,
         importCall[p].batch \in Batches =>
           LET b == batch'[importCall[p].batch]
           IN  /\ \A m \in b.affected : b.status = "completed" /\ importRow'[m].rev > 0
               /\ b.dry => b.status = "pending"
  PROVE  ImportInv'
<1>0. importCall \in [Procs -> ImportCalls] /\ batch \in [Batches -> ImportBatchRows]
  BY ImportTypesOf DEF ImportInv
<1>1. importCall' \in [Procs -> ImportCalls] /\ \A q \in Procs : importCall'[q] = IF q = p THEN k ELSE importCall[q]
  BY <1>0
<1>2. IB!TypeOK'
  BY <1>1, ImportTypesNext
<1>3. ASSUME NEW q \in Procs PROVE ImportCallOK(q)'
  <2>1. CASE q = p
    BY <2>1
  <2>2. CASE q # p
    <3>1. importCall'[q] = importCall[q] /\ ImportCallOK(q)
      BY <1>1, <2>2 DEF ImportInv
    <3>2. importCall[q].batch \in Batches => importCall[q].batch # importCall[p].batch
      BY <2>2 DEF ImportInv, ImportApart, ImportBounds
    <3>3. importCall[q].step # "idle" => batch'[importCall[q].batch] = batch[importCall[q].batch]
      BY <3>1, <3>2 DEF ImportCallOK
    <3> QED BY <3>1, <3>3 DEF ImportCallOK
  <2> QED BY <2>1, <2>2
<1>4. ImportApart'
  <2> SUFFICES ASSUME NEW q \in Procs, NEW r \in Procs, importCall'[q].batch = importCall'[r].batch, importCall'[q].batch # None
               PROVE  q = r
    BY DEF ImportApart
  <2>1. \A s \in Procs : s # p => importCall'[s] = importCall[s]
    BY <1>1
  <2>2. importCall'[p].batch = k.batch
    BY <1>1
  <2> QED BY <2>1, <2>2 DEF ImportInv, ImportApart
<1>5. IB!CompletedIsThere'
  <2> SUFFICES ASSUME NEW b \in Batches
               PROVE  /\ \A m \in batch'[b].affected : batch'[b].status = "completed" /\ importRow'[m].rev > 0
                      /\ batch'[b].dry => batch'[b].status = "pending"
    BY DEF IB!CompletedIsThere, IB!Live
  <2>1. CASE b = importCall[p].batch
    BY <2>1
  <2>2. CASE b # importCall[p].batch
    <3>1. batch'[b] = batch[b] /\ batch[b].affected \subseteq ImportedIds
      BY <1>0, <2>2 DEF ImportBatchRows
    <3> QED BY <3>1 DEF ImportInv, IB!CompletedIsThere, IB!Live
  <2> QED BY <2>1, <2>2
<1> QED BY <1>2, <1>3, <1>4, <1>5 DEF ImportInv, IB!NothingOverwritten

(* A step that leaves memories and batches alone. *)
LEMMA ImportMoveOnly ==
  ASSUME ImportBounds, ImportInv, NEW p \in Procs, NEW k \in ImportCalls, importCall' = [importCall EXCEPT ![p] = k],
         UNCHANGED <<importRow, chain, batch, overwritten>>, ImportCallOK(p)',
         k.batch \in {None, importCall[p].batch} \/ \A q \in Procs : importCall[q].batch # k.batch
  PROVE  ImportInv'
<1>1. importRow' \in [ImportedIds -> ImportRows] /\ chain' \in [ImportedIds -> SUBSET (1..MaxRev + 1)] /\ overwritten' = {}
      /\ batch' \in [Batches -> ImportBatchRows] /\ \A m \in ImportedIds : IB!Live(m) => importRow'[m].rev > 0
  BY ImportTypesOf DEF ImportInv, IB!NothingOverwritten, IB!Live
<1>2. \A b \in Batches : batch[b].affected \subseteq ImportedIds
  BY ImportTypesOf DEF ImportInv, ImportBatchRows
<1>3. importCall[p].batch \in Batches =>
        /\ \A m \in batch'[importCall[p].batch].affected : batch'[importCall[p].batch].status = "completed" /\ importRow'[m].rev > 0
        /\ batch'[importCall[p].batch].dry => batch'[importCall[p].batch].status = "pending"
  BY <1>2 DEF ImportInv, IB!CompletedIsThere, IB!Live
<1> QED BY <1>1, <1>3, ImportMove

(* A call that ends holds nothing. *)
LEMMA ImportEndsOK ==
  ASSUME ImportBounds, ImportInv, NEW p \in Procs, importCall' = [importCall EXCEPT ![p] = IB!NoCall]
  PROVE  ImportCallOK(p)' /\ IB!NoCall \in ImportCalls /\ IB!NoCall.batch = None
<1>1. importCall'[p] = IB!NoCall
  BY ImportTypesOf DEF ImportInv
<1> QED BY <1>1, ImportRestsOK DEF ImportCallOK

(* An import is planned. *)
LEMMA ImportPlanKeeps ==
  ASSUME ImportBounds, ImportInv, NEW p \in Procs, NEW b \in Batches, NEW policy \in IB!Policies, NEW mode \in IB!Modes,
         NEW dry \in BOOLEAN, IB!Plan(p, b, policy, mode, dry)
  PROVE  ImportInv'
<1>0. importCall \in [Procs -> ImportCalls] /\ importRow \in [ImportedIds -> ImportRows]
  BY ImportTypesOf DEF ImportInv
<1> PICK k : k = [step |-> "start", batch |-> b, policy |-> policy, mode |-> mode, dry |-> dry,
                  revs |-> [m \in ImportedIds |-> importRow[m].rev]]
  OBVIOUS
<1>1. [m \in ImportedIds |-> importRow[m].rev] \in [ImportedIds -> 0..MaxRev + 1]
  BY <1>0 DEF ImportRows
<1>2. k \in ImportCalls
  BY <1>1, Zenon DEF ImportCalls
<1>3. k.step = "start" /\ k.batch = b /\ importCall' = [importCall EXCEPT ![p] = k] /\ UNCHANGED <<importRow, chain, batch, overwritten>>
      /\ batch[b] = IB!NoBatch /\ \A q \in Procs : importCall[q].batch # b
  BY DEF IB!Plan, IB!Does
<1>4. importCall'[p] = k
  BY <1>0, <1>3
<1>5. ImportCallOK(p)'
  BY <1>3, <1>4, ImportRestsOK DEF ImportCallOK
<1> QED BY <1>2, <1>3, <1>5, ImportMoveOnly

(* The batch row is inserted. *)
LEMMA ImportStartKeeps ==
  ASSUME ImportBounds, ImportInv, NEW p \in Procs, IB!Start(p) PROVE ImportInv'
<1>0. importCall \in [Procs -> ImportCalls] /\ batch \in [Batches -> ImportBatchRows] /\ importCall[p] \in ImportCalls
      /\ importCall[p].dry \in BOOLEAN
  BY ImportTypesOf DEF ImportInv, ImportCalls
<1>1. importCall[p].step = "start" /\ importCall[p].batch \in Batches /\ UNCHANGED <<importRow, chain, overwritten>>
  BY DEF IB!Start, ImportInv, ImportCallOK
<1> PICK n : n = [status |-> "pending", affected |-> {}, dry |-> importCall[p].dry]
  OBVIOUS
<1>2. n \in ImportBatchRows /\ n.status = "pending" /\ n.affected = {} /\ n.dry = importCall[p].dry
  <2>1. n \in ImportBatchRows
    BY <1>0, Zenon DEF ImportBatchRows
  <2> QED BY <2>1
<1>3. batch' = [batch EXCEPT ![importCall[p].batch] = n]
  BY DEF IB!Start
<1>4. PICK k \in ImportCalls : importCall' = [importCall EXCEPT ![p] = k] /\ k.batch \in {None, importCall[p].batch} /\ ImportCallOK(p)'
  <2>1. CASE importCall[p].dry
    BY <2>1, ImportEndsOK DEF IB!Start, IB!Does
  <2>2. CASE ~importCall[p].dry
    <3> PICK k : k = [importCall[p] EXCEPT !.step = "apply"]
      OBVIOUS
    <3>1. k \in ImportCalls /\ k.step = "apply" /\ k.batch = importCall[p].batch
      BY <1>0 DEF ImportCalls
    <3>2. importCall' = [importCall EXCEPT ![p] = k]
      BY <2>2 DEF IB!Start, IB!Does
    <3>3. importCall'[p] = k /\ batch'[importCall[p].batch] = n
      BY <1>0, <1>1, <1>3, <3>2
    <3>4. ImportCallOK(p)'
      BY <1>1, <1>2, <2>2, <3>1, <3>3 DEF ImportCallOK
    <3> QED BY <3>1, <3>2, <3>4
  <2> QED BY <2>1, <2>2
<1>5. batch' \in [Batches -> ImportBatchRows] /\ batch'[importCall[p].batch] = n
      /\ \A b \in Batches : b # importCall[p].batch => batch'[b] = batch[b]
  BY <1>0, <1>1, <1>2, <1>3
<1>6. importRow' \in [ImportedIds -> ImportRows] /\ chain' \in [ImportedIds -> SUBSET (1..MaxRev + 1)] /\ overwritten' = {}
      /\ \A m \in ImportedIds : IB!Live(m) => importRow'[m].rev > 0
  BY <1>1, ImportTypesOf DEF ImportInv, IB!NothingOverwritten, IB!Live
<1> QED BY <1>2, <1>4, <1>5, <1>6, ImportMove

(* The rows are written and the batch completed. *)
LEMMA ImportApplyKeeps ==
  ASSUME ImportBounds, ImportInv, NEW p \in Procs, IB!Apply(p) PROVE ImportInv'
<1>0. importCall \in [Procs -> ImportCalls] /\ batch \in [Batches -> ImportBatchRows] /\ importRow \in [ImportedIds -> ImportRows]
      /\ chain \in [ImportedIds -> SUBSET (1..MaxRev + 1)] /\ importCall[p] \in ImportCalls
  BY ImportTypesOf DEF ImportInv
<1> PICK b : b = importCall[p].batch
  OBVIOUS
<1> PICK fresh \in SUBSET ImportedIds : fresh = IB!Of(p, {"insert", "replace", "merge"})
  BY DEF IB!Of
<1>1. b \in Batches /\ batch[b] \in ImportBatchRows /\ ~batch[b].dry
  BY <1>0 DEF IB!Apply, ImportInv, ImportCallOK
<1> PICK n : n = [batch[b] EXCEPT !.status = "completed", !.affected = fresh]
  OBVIOUS
<1>2. n \in ImportBatchRows /\ n.status = "completed" /\ n.affected = fresh /\ ~n.dry
  <2>1. n.status = "completed" /\ n.affected = fresh /\ n.dry = batch[b].dry
    BY <1>1 DEF ImportBatchRows
  <2>2. n = [status |-> "completed", affected |-> fresh, dry |-> batch[b].dry] /\ batch[b].dry \in BOOLEAN
    BY <1>1 DEF ImportBatchRows
  <2>3. n \in ImportBatchRows
    BY <2>2, Zenon DEF ImportBatchRows
  <2> QED BY <1>1, <2>1, <2>3
<1>3. batch' = [batch EXCEPT ![b] = n]
  BY DEF IB!Apply
<1>4. batch' \in [Batches -> ImportBatchRows] /\ batch'[b] = n /\ \A c \in Batches : c # b => batch'[c] = batch[c]
  BY <1>0, <1>1, <1>2, <1>3
<1>5. ASSUME NEW m \in ImportedIds
      PROVE  /\ IB!Imported(p, m) \in ImportRows /\ (IB!Live(m) \/ m \in fresh => IB!Imported(p, m).rev > 0)
             /\ chain[m] \cup IB!NewRevision(p, m) \cup IB!History(p, m) \subseteq 1..MaxRev + 1
  <2>0. importRow[m] \in ImportRows /\ importRow[m].rev \in 0..MaxRev + 1 /\ importRow[m].rev <= MaxRev /\ chain[m] \subseteq 1..MaxRev + 1
    BY <1>0 DEF IB!Apply, IB!Applies, ImportRows
  <2>1. IB!NewRevision(p, m) \subseteq 1..MaxRev + 1
    BY <2>0 DEF IB!NewRevision, ImportBounds
  <2>2. IB!History(p, m) \subseteq 1..MaxRev + 1
    BY DEF IB!History, ImportBounds
  <2>3. CASE IB!Kind(p, m) = "insert"
    <3> PICK r : r = [rev |-> BundleRev, body |-> Bundled, active |-> TRUE]
      OBVIOUS
    <3>1. r \in ImportRows
      <4>1. BundleRev \in 0..MaxRev + 1 /\ TRUE \in BOOLEAN
        BY DEF ImportBounds
      <4> QED BY <4>1, Zenon DEF ImportRows
    <3>2. IB!Imported(p, m) = r
      BY <2>3 DEF IB!Imported
    <3> QED BY <2>0, <2>1, <2>2, <3>1, <3>2 DEF ImportBounds
  <2>4. ASSUME NEW body \in {Bundled, Merged}, IB!Imported(p, m) = [importRow[m] EXCEPT !.rev = importRow[m].rev + 1, !.body = body]
        PROVE  IB!Imported(p, m) \in ImportRows /\ IB!Imported(p, m).rev > 0
    <3> PICK r : r = [importRow[m] EXCEPT !.rev = importRow[m].rev + 1, !.body = body]
      OBVIOUS
    <3>1. r = [rev |-> importRow[m].rev + 1, body |-> body, active |-> importRow[m].active] /\ importRow[m].active \in BOOLEAN
      BY <2>0 DEF ImportRows
    <3>2. importRow[m].rev + 1 \in 0..MaxRev + 1 /\ importRow[m].rev + 1 > 0
      BY <2>0 DEF ImportBounds
    <3>3. r \in ImportRows
      BY <3>1, <3>2, Zenon DEF ImportRows
    <3>4. r.rev = importRow[m].rev + 1
      BY <3>1
    <3> QED BY <2>4, <3>2, <3>3, <3>4
  <2>5. CASE IB!Kind(p, m) = "replace"
    <3>1. IB!Imported(p, m) = [importRow[m] EXCEPT !.rev = importRow[m].rev + 1, !.body = Bundled]
      BY <2>5 DEF IB!Imported
    <3> QED BY <2>0, <2>1, <2>2, <2>4, <3>1
  <2>6. CASE IB!Kind(p, m) = "merge"
    <3>1. IB!Imported(p, m) = [importRow[m] EXCEPT !.rev = importRow[m].rev + 1, !.body = Merged]
      BY <2>6 DEF IB!Imported
    <3> QED BY <2>0, <2>1, <2>2, <2>4, <3>1
  <2>7. CASE IB!Kind(p, m) \notin {"insert", "replace", "merge"}
    <3>1. IB!Imported(p, m) = importRow[m] /\ m \notin fresh
      BY <2>7 DEF IB!Imported, IB!Of
    <3> QED BY <2>0, <2>1, <2>2, <3>1 DEF IB!Live
  <2> QED BY <2>3, <2>5, <2>6, <2>7
<1>6. importRow' = [m \in ImportedIds |-> IB!Imported(p, m)]
      /\ chain' = [m \in ImportedIds |-> chain[m] \cup IB!NewRevision(p, m) \cup IB!History(p, m)]
  BY DEF IB!Apply
<1>7. importRow' \in [ImportedIds -> ImportRows] /\ chain' \in [ImportedIds -> SUBSET (1..MaxRev + 1)]
      /\ (\A m \in ImportedIds : IB!Live(m) => importRow'[m].rev > 0) /\ \A m \in fresh : importRow'[m].rev > 0
  BY <1>5, <1>6
<1>8. overwritten' = {}
  <2>1. \A m \in IB!Of(p, {"replace", "merge"}) : importRow[m].rev = importCall[p].revs[m]
    BY DEF IB!Apply, IB!Applies, IB!StillAsPlanned
  <2> QED BY <2>1 DEF IB!Apply, ImportInv, IB!NothingOverwritten
<1>9. importCall' = [importCall EXCEPT ![p] = IB!NoCall]
  BY DEF IB!Apply, IB!Does
<1> QED BY <1>1, <1>2, <1>4, <1>7, <1>8, <1>9, ImportEndsOK, ImportMove

(* An import rolls back, its batch fails or its process dies. *)
LEMMA ImportEndKeeps ==
  ASSUME ImportBounds, ImportInv, NEW p \in Procs, IB!Rollback(p) \/ IB!Fail(p) \/ IB!Crash(p) PROVE ImportInv'
<1>0. importCall \in [Procs -> ImportCalls] /\ batch \in [Batches -> ImportBatchRows] /\ importCall[p] \in ImportCalls
  BY ImportTypesOf DEF ImportInv
<1>1. CASE IB!Rollback(p)
  <2> PICK k : k = [importCall[p] EXCEPT !.step = "fail"]
    OBVIOUS
  <2>1. k \in ImportCalls /\ k.step = "fail" /\ k.batch = importCall[p].batch
    BY <1>0 DEF ImportCalls
  <2>2. importCall' = [importCall EXCEPT ![p] = k] /\ UNCHANGED <<importRow, chain, batch, overwritten>> /\ importCall[p].step = "apply"
    BY <1>1 DEF IB!Rollback, IB!Does
  <2>3. importCall'[p] = k
    BY <1>0, <2>2
  <2>4. ImportCallOK(p)'
    BY <2>1, <2>2, <2>3 DEF ImportInv, ImportCallOK
  <2> QED BY <2>1, <2>2, <2>4, ImportMoveOnly
<1>2. CASE IB!Fail(p)
  <2>1. importCall[p].step = "fail" /\ importCall[p].batch \in Batches /\ UNCHANGED <<importRow, chain, overwritten>>
        /\ importCall' = [importCall EXCEPT ![p] = IB!NoCall]
    BY <1>2 DEF IB!Fail, IB!Does, ImportInv, ImportCallOK
  <2> PICK b : b = importCall[p].batch
    OBVIOUS
  <2>2. batch[b] \in ImportBatchRows /\ batch[b].affected = {} /\ ~batch[b].dry
    BY <1>0, <2>1 DEF ImportInv, ImportCallOK
  <2> PICK n : n = [batch[b] EXCEPT !.status = "failed"]
    OBVIOUS
  <2>3. n.status = "failed" /\ n.affected = {} /\ n.dry = batch[b].dry
    BY <2>2 DEF ImportBatchRows
  <2>4. n \in ImportBatchRows
    <3>1. n = [status |-> "failed", affected |-> batch[b].affected, dry |-> batch[b].dry]
          /\ batch[b].dry \in BOOLEAN /\ batch[b].affected \in SUBSET ImportedIds
      BY <2>2 DEF ImportBatchRows
    <3> QED BY <3>1, Zenon DEF ImportBatchRows
  <2>5. batch' = [batch EXCEPT ![b] = n]
    BY <1>2 DEF IB!Fail
  <2>6. batch' \in [Batches -> ImportBatchRows] /\ batch'[b] = n /\ \A c \in Batches : c # b => batch'[c] = batch[c]
    BY <1>0, <2>1, <2>4, <2>5
  <2>7. importRow' \in [ImportedIds -> ImportRows] /\ chain' \in [ImportedIds -> SUBSET (1..MaxRev + 1)] /\ overwritten' = {}
        /\ \A m \in ImportedIds : IB!Live(m) => importRow'[m].rev > 0
    BY <2>1, ImportTypesOf DEF ImportInv, IB!NothingOverwritten, IB!Live
  <2> QED BY <2>1, <2>2, <2>3, <2>6, <2>7, ImportEndsOK, ImportMove
<1>3. CASE IB!Crash(p)
  <2>1. importCall' = [importCall EXCEPT ![p] = IB!NoCall] /\ UNCHANGED <<importRow, chain, batch, overwritten>>
    BY <1>3 DEF IB!Crash, IB!Does
  <2> QED BY <2>1, ImportEndsOK, ImportMoveOnly
<1> QED BY <1>1, <1>2, <1>3

(* So every step keeps the invariant. *)
LEMMA ImportTypeStep == ASSUME ImportBounds PROVE ImportInv /\ [IB!Next]_(IB!vars) => ImportInv'
<1> SUFFICES ASSUME ImportInv, [IB!Next]_(IB!vars) PROVE ImportInv'
  OBVIOUS
<1>1. CASE UNCHANGED IB!vars
  BY <1>1 DEF IB!vars, ImportInv, IB!TypeOK, ImportCallOK, ImportApart, IB!CompletedIsThere, IB!NothingOverwritten, IB!Live
<1>2. CASE IB!Next
  BY <1>2, ImportCreateKeeps, ImportPlanKeeps, ImportStartKeeps, ImportApplyKeeps, ImportEndKeeps DEF IB!Next
<1> QED BY <1>1, <1>2

(* What the run checks follows. *)
LEMMA ImportWhole == ImportInv => IB!ImportsAreWhole
BY DEF ImportInv, IB!ImportsAreWhole

(* The constants are so. *)
LEMMA ImportBoundsHold == ImportBounds
BY AbsentAssumption, BoundsAssumption, NumbersAssumption DEF ImportBounds

(* A step of the whole is one of this part, if it is its turn. *)
LEMMA ImportTurn ==
  ASSUME [Next]_vars
  PROVE  part' = part /\ (part = "import" => [IB!Next]_(IB!vars))
<1>1. part' = part
  BY DEF Next, vars, Only
<1>2. part = "import" => [IB!Next]_(IB!vars)
  BY DEF Next, vars, Only, IB!vars, importVars
<1> QED BY <1>1, <1>2

(* So the invariant holds whenever this part moves. *)
LEMMA ImportAlways == Spec => [](part = "import" => ImportInv)
<1>1. Init => (part = "import" => ImportInv)
  BY ImportBoundsHold, ImportTypeInit DEF Init
<1>2. (part = "import" => ImportInv) /\ [Next]_vars => (part = "import" => ImportInv)'
  BY ImportBoundsHold, ImportTypeStep, ImportTurn
<1> QED BY <1>1, <1>2, PTL DEF Spec

-----------------------------------------------------------------------------
(* Publication of an export: PU in Services. *)

(* The records of the calls. *)
PublishCalls == [step : {"idle", "write", "publish", "putBack", "swap", "audit", "complete", "rollback", "restore"},
               export : Exports \cup {None}]

(* A call that is not idle has an export, which is staged when the directory   *)
(* is complete; nothing is put aside before the publication.                   *)
PublishCallOK(p) ==
  /\ publishCall[p].step # "idle" => publishCall[p].export \in Exports
  /\ publishCall[p].step \in {"publish", "swap"} => staging[p] = publishCall[p].export
  /\ publishCall[p].step \in {"idle", "write", "publish"} => backup[p] = None

(* The inductive invariant. *)
PublishInv == PU!TypeOK /\ \A p \in Publishers : PublishCallOK(p)

(* The export that was live is put aside until the new one is audited.         *)
PublishPutAsideHolds(p) ==
  /\ done # {} => publishLive \in Exports \/ backup[p] \in Exports \/ left \cap Exports # {}
  /\ publishCall[p].step \in {"swap", "putBack", "audit", "rollback", "restore"} /\ done # {}
       => backup[p] \in Exports \/ left \cap Exports # {}
  /\ publishCall[p].step \in {"audit", "complete"} => publishLive \in Exports
  /\ publishCall[p].step \in {"swap", "putBack", "restore"} => publishLive = None

(* A whole export is on the disk or put aside. *)
PublishSurvives == PublishInv /\ \A p \in Publishers : PublishPutAsideHolds(p)

(* One process publishes at a time. *)
PublishOnePublisher == \E p : Publishers = {p}


(* It holds at first. *)
LEMMA PublishTypeInit == PU!Init => PublishInv
<1> SUFFICES ASSUME PU!Init PROVE PublishInv
  OBVIOUS
<1>1. PU!NoCall \in PublishCalls /\ PU!NoCall.step = "idle"
  BY DEF PU!NoCall, PublishCalls
<1> QED BY <1>1 DEF PU!Init, PublishInv, PU!TypeOK, PublishCallOK, PublishCalls, PU!Dirs

(* A step of one publisher. *)
LEMMA PublishMove ==
  ASSUME PublishInv, NEW p \in Publishers, NEW k \in PublishCalls, NEW b \in PU!Dirs, NEW s \in PU!Dirs,
         publishCall' = [publishCall EXCEPT ![p] = k], backup' = [backup EXCEPT ![p] = b],
         staging' = [staging EXCEPT ![p] = s], publishLive' \in PU!Dirs, left' \subseteq PU!Dirs, done' \subseteq Exports,
         k.step # "idle" => k.export \in Exports,
         k.step \in {"publish", "swap"} => s = k.export,
         k.step \in {"idle", "write", "publish"} => b = None
  PROVE  PublishInv' /\ publishCall'[p] = k /\ backup'[p] = b
<1>0. publishCall \in [Publishers -> PublishCalls] /\ backup \in [Publishers -> PU!Dirs] /\ staging \in [Publishers -> PU!Dirs]
  BY DEF PublishInv, PU!TypeOK, PublishCalls
<1>1. publishCall' \in [Publishers -> PublishCalls] /\ backup' \in [Publishers -> PU!Dirs] /\ staging' \in [Publishers -> PU!Dirs]
  BY <1>0
<1>2. PU!TypeOK'
  BY <1>1 DEF PU!TypeOK, PublishCalls, PU!Dirs
<1>3. publishCall'[p] = k /\ backup'[p] = b /\ staging'[p] = s
  BY <1>0
<1>4. ASSUME NEW q \in Publishers PROVE PublishCallOK(q)'
  <2>1. CASE q = p
    BY <1>3, <2>1 DEF PublishCallOK
  <2>2. CASE q # p
    <3>1. publishCall'[q] = publishCall[q] /\ backup'[q] = backup[q] /\ staging'[q] = staging[q]
      BY <1>0, <2>2
    <3>2. PublishCallOK(q)
      BY DEF PublishInv
    <3> QED BY <3>1, <3>2 DEF PublishCallOK
  <2> QED BY <2>1, <2>2
<1> QED BY <1>2, <1>3, <1>4 DEF PublishInv

(* A call goes on to a step after the publication has begun. *)
LEMMA PublishMovesOn ==
  ASSUME PublishInv, NEW p \in Publishers, publishCall[p].step # "idle",
         NEW to \in {"swap", "putBack", "audit", "complete", "rollback", "restore"}, PU!To(p, to),
         NEW b \in PU!Dirs, backup' = [backup EXCEPT ![p] = b],
         NEW s \in PU!Dirs, staging' = [staging EXCEPT ![p] = s], to = "swap" => s = publishCall[p].export,
         publishLive' \in PU!Dirs, left' \subseteq PU!Dirs, done' \subseteq Exports
  PROVE  PublishInv' /\ publishCall'[p].step = to /\ backup'[p] = b
<1>0. publishCall[p] \in PublishCalls /\ publishCall[p].export \in Exports
  BY DEF PublishInv, PU!TypeOK, PublishCalls, PublishCallOK
<1>a. PICK k : k = [publishCall[p] EXCEPT !.step = to]
  OBVIOUS
<1>1. k \in PublishCalls /\ k.step = to /\ k.export = publishCall[p].export
  BY <1>0, <1>a DEF PublishCalls
<1>2. publishCall' = [publishCall EXCEPT ![p] = k]
  BY <1>a DEF PU!To
<1>3. /\ k.step # "idle" => k.export \in Exports
      /\ k.step \in {"publish", "swap"} => s = k.export
      /\ k.step \in {"idle", "write", "publish"} => b = None
  BY <1>0, <1>1
<1>4. PublishInv' /\ publishCall'[p] = k /\ backup'[p] = b
  BY <1>1, <1>2, <1>3, PublishMove
<1> QED BY <1>1, <1>4

(* A step of a call that has put its predecessor aside. *)
LEMMA PublishMovesOnly ==
  ASSUME PublishInv, NEW p \in Publishers, publishCall[p].step # "idle",
         NEW to \in {"putBack", "audit", "complete", "rollback", "restore"}, PU!To(p, to),
         NEW s \in PU!Dirs, staging' = [staging EXCEPT ![p] = s],
         backup' = backup, publishLive' \in PU!Dirs, left' \subseteq PU!Dirs, done' \subseteq Exports
  PROVE  PublishInv' /\ publishCall'[p].step = to /\ backup'[p] = backup[p]
<1>1. backup = [backup EXCEPT ![p] = backup[p]] /\ backup[p] \in PU!Dirs
  BY DEF PublishInv, PU!TypeOK
<1> QED BY <1>1, PublishMovesOn

(* What a step of a publisher does: the arguments of Move, and how what is put *)
(* aside holds.                                                                *)
LEMMA PublishStepKeeps ==
  ASSUME None \notin Exports, PublishInv, NEW p \in Publishers,
         \/ \E e \in Exports : PU!Stage(p, e)
         \/ PU!WriteScopeFiles(p) \/ PU!Publish(p) \/ PU!Swap(p) \/ PU!PutBack(p) \/ PU!Audit(p)
         \/ PU!Complete(p) \/ PU!Rollback(p) \/ PU!Restore(p) \/ PU!Crash(p)
  PROVE  PublishInv' /\ (PublishPutAsideHolds(p) => PublishPutAsideHolds(p)')
<1>0. /\ publishCall \in [Publishers -> PublishCalls] /\ backup \in [Publishers -> PU!Dirs] /\ staging \in [Publishers -> PU!Dirs]
      /\ publishLive \in PU!Dirs /\ left \subseteq PU!Dirs /\ done \subseteq Exports
      /\ publishCall[p] \in PublishCalls /\ backup[p] \in PU!Dirs /\ staging[p] \in PU!Dirs /\ PublishCallOK(p)
  BY DEF PublishInv, PU!TypeOK, PublishCalls
<1>a. PU!NoCall \in PublishCalls /\ PU!NoCall.step = "idle"
  BY DEF PU!NoCall, PublishCalls
<1>b. Torn \in PU!Dirs /\ None \in PU!Dirs /\ Exports \subseteq PU!Dirs
  BY DEF PU!Dirs
<1>c. backup = [backup EXCEPT ![p] = backup[p]] /\ staging = [staging EXCEPT ![p] = staging[p]]
      /\ publishCall = [publishCall EXCEPT ![p] = publishCall[p]]
  BY <1>0
<1>1. ASSUME NEW e \in Exports, PU!Stage(p, e) PROVE PublishInv' /\ (PublishPutAsideHolds(p) => PublishPutAsideHolds(p)')
  <2> PICK k : k = [step |-> "write", export |-> e]
    OBVIOUS
  <2>1. k \in PublishCalls /\ k.step = "write" /\ k.export = e
    BY DEF PublishCalls
  <2>2. /\ publishCall' = [publishCall EXCEPT ![p] = k] /\ staging' = [staging EXCEPT ![p] = Torn]
        /\ backup' = backup /\ publishLive' = publishLive /\ left' = left /\ done' = done /\ publishCall[p].step = "idle"
    BY <1>1 DEF PU!Stage, PU!NoCall
  <2>3. PublishInv' /\ publishCall'[p] = k /\ backup'[p] = backup[p]
    BY <1>0, <1>b, <1>c, <2>1, <2>2, PublishMove DEF PublishCallOK
  <2> QED BY <2>1, <2>2, <2>3 DEF PublishPutAsideHolds
<1>2. CASE PU!WriteScopeFiles(p)
  <2>0. /\ publishCall[p].step = "write" /\ publishCall[p].export \in Exports /\ backup[p] = None
        /\ backup' = backup /\ publishLive' = publishLive /\ left' = left /\ done' = done
    BY <1>0, <1>2 DEF PU!WriteScopeFiles, PublishCallOK
  <2>1. CASE staging' = [staging EXCEPT ![p] = publishCall[p].export] /\ PU!To(p, "publish")
    <3> PICK k : k = [publishCall[p] EXCEPT !.step = "publish"]
      OBVIOUS
    <3>1. k \in PublishCalls /\ k.step = "publish" /\ k.export = publishCall[p].export /\ publishCall' = [publishCall EXCEPT ![p] = k]
      BY <1>0, <2>1 DEF PU!To, PublishCalls
    <3>2. PublishInv' /\ publishCall'[p] = k /\ backup'[p] = backup[p]
      BY <1>0, <1>b, <1>c, <2>0, <2>1, <3>1, PublishMove
    <3> QED BY <2>0, <3>1, <3>2 DEF PublishPutAsideHolds
  <2>2. CASE staging' = [staging EXCEPT ![p] = None] /\ PU!Ends(p)
    <3>1. PublishInv' /\ publishCall'[p] = PU!NoCall /\ backup'[p] = backup[p]
      BY <1>0, <1>a, <1>b, <1>c, <2>0, <2>2, PublishMove DEF PU!Ends
    <3> QED BY <1>a, <2>0, <3>1 DEF PublishPutAsideHolds
  <2> QED BY <1>2, <2>1, <2>2 DEF PU!WriteScopeFiles
<1>3. CASE PU!Publish(p)
  <2>1. /\ publishCall[p].step = "publish" /\ backup' = [backup EXCEPT ![p] = publishLive] /\ publishLive' = None
        /\ PU!To(p, "swap") /\ staging' = staging /\ left' = left /\ done' = done
    BY <1>3 DEF PU!Publish, PU!PutAside
  <2>2. staging[p] = publishCall[p].export /\ backup[p] = None
    BY <1>0, <2>1 DEF PublishCallOK
  <2>3. PublishInv' /\ publishCall'[p].step = "swap" /\ backup'[p] = publishLive
    BY <1>0, <1>b, <1>c, <2>1, <2>2, PublishMovesOn
  <2> QED BY <2>1, <2>2, <2>3 DEF PublishPutAsideHolds
<1>4. CASE PU!Swap(p)
  <2>0. /\ publishCall[p].step = "swap" /\ publishCall[p].export \in Exports /\ staging[p] = publishCall[p].export
        /\ backup' = backup /\ left' = left /\ done' = done
    BY <1>0, <1>4 DEF PU!Swap, PublishCallOK
  <2>1. CASE publishLive' = staging[p] /\ staging' = [staging EXCEPT ![p] = None] /\ PU!To(p, "audit")
    <3>1. PublishInv' /\ publishCall'[p].step = "audit" /\ backup'[p] = backup[p]
      BY <1>0, <1>b, <1>c, <2>0, <2>1, PublishMovesOnly
    <3> QED BY <2>0, <2>1, <3>1 DEF PublishPutAsideHolds
  <2>2. CASE publishLive' = publishLive /\ staging' = staging /\ PU!To(p, "putBack")
    <3>1. PublishInv' /\ publishCall'[p].step = "putBack" /\ backup'[p] = backup[p]
      BY <1>0, <1>b, <1>c, <2>0, <2>2, PublishMovesOnly
    <3> QED BY <2>0, <2>2, <3>1 DEF PublishPutAsideHolds
  <2> QED BY <1>4, <2>1, <2>2 DEF PU!Swap
<1>5. ASSUME PU!PutsBack(p), PU!Ends(p), NEW s \in PU!Dirs, staging' = [staging EXCEPT ![p] = s], done' = done,
             publishCall[p].step \in {"putBack", "restore"}
      PROVE  PublishInv' /\ (PublishPutAsideHolds(p) => PublishPutAsideHolds(p)')
  <2>1. backup' = [backup EXCEPT ![p] = None] /\ publishCall' = [publishCall EXCEPT ![p] = PU!NoCall]
    BY <1>5 DEF PU!PutsBack, PU!Ends
  <2>2. \/ publishLive = None /\ publishLive' = backup[p] /\ left' = left
        \/ publishLive # None /\ publishLive' = publishLive /\ left' = (left \cup {backup[p]}) \ {None}
    BY <1>5 DEF PU!PutsBack
  <2>3. publishLive' \in PU!Dirs /\ left' \subseteq PU!Dirs
    BY <1>0, <2>2
  <2>4. PublishInv' /\ publishCall'[p] = PU!NoCall /\ backup'[p] = None
    BY <1>0, <1>a, <1>b, <1>5, <2>1, <2>3, PublishMove
  <2> QED BY <1>a, <1>5, <2>2, <2>4 DEF PublishPutAsideHolds
<1>6. CASE PU!PutBack(p)
  BY <1>5, <1>6, <1>b DEF PU!PutBack
<1>7. CASE PU!Restore(p)
  BY <1>0, <1>5, <1>7, <1>c DEF PU!Restore
<1>8. CASE PU!Audit(p)
  <2>0. /\ publishCall[p].step = "audit" /\ publishCall[p].export \in Exports
        /\ backup' = backup /\ publishLive' = publishLive /\ left' = left /\ staging' = staging
    BY <1>0, <1>8 DEF PU!Audit, PublishCallOK
  <2>1. CASE done' = done \cup {publishCall[p].export} /\ PU!To(p, "complete")
    <3>1. PublishInv' /\ publishCall'[p].step = "complete" /\ backup'[p] = backup[p]
      BY <1>0, <1>b, <1>c, <2>0, <2>1, PublishMovesOnly
    <3> QED BY <2>0, <2>1, <3>1 DEF PublishPutAsideHolds
  <2>2. CASE done' = done /\ PU!To(p, "rollback")
    <3>1. PublishInv' /\ publishCall'[p].step = "rollback" /\ backup'[p] = backup[p]
      BY <1>0, <1>b, <1>c, <2>0, <2>2, PublishMovesOnly
    <3> QED BY <2>0, <2>2, <3>1 DEF PublishPutAsideHolds
  <2> QED BY <1>8, <2>1, <2>2 DEF PU!Audit
<1>9. CASE PU!Complete(p)
  <2>1. /\ publishCall[p].step = "complete" /\ backup' = [backup EXCEPT ![p] = None] /\ publishCall' = [publishCall EXCEPT ![p] = PU!NoCall]
        /\ publishLive' = publishLive /\ staging' = staging /\ left' = left /\ done' = done
    BY <1>9 DEF PU!Complete, PU!Ends
  <2>2. PublishInv' /\ publishCall'[p] = PU!NoCall /\ backup'[p] = None
    BY <1>0, <1>a, <1>b, <1>c, <2>1, PublishMove
  <2> QED BY <1>a, <2>1, <2>2 DEF PublishPutAsideHolds
<1>10. CASE PU!Rollback(p)
  <2>0. /\ publishCall[p].step = "rollback" /\ publishCall[p].export \in Exports
        /\ backup' = backup /\ staging' = staging /\ left' = left /\ done' = done
    BY <1>0, <1>10 DEF PU!Rollback, PublishCallOK
  <2>1. CASE publishLive' = Torn /\ publishCall' = publishCall
    <3>1. PublishInv' /\ publishCall'[p] = publishCall[p] /\ backup'[p] = backup[p]
      BY <1>0, <1>b, <1>c, <2>0, <2>1, PublishMove
    <3> QED BY <2>0, <2>1, <3>1 DEF PublishPutAsideHolds
  <2>2. CASE publishLive' = None /\ PU!To(p, "restore")
    <3>1. PublishInv' /\ publishCall'[p].step = "restore" /\ backup'[p] = backup[p]
      BY <1>0, <1>b, <1>c, <2>0, <2>2, PublishMovesOnly
    <3> QED BY <2>0, <2>2, <3>1 DEF PublishPutAsideHolds
  <2> QED BY <1>10, <2>1, <2>2 DEF PU!Rollback
<1>11. CASE PU!Crash(p)
  <2>1. /\ left' = (left \cup {backup[p]}) \ {None} /\ backup' = [backup EXCEPT ![p] = None]
        /\ publishCall' = [publishCall EXCEPT ![p] = PU!NoCall] /\ publishLive' = publishLive /\ staging' = staging /\ done' = done
    BY <1>11 DEF PU!Crash, PU!Ends
  <2>2. left' \subseteq PU!Dirs
    BY <1>0, <2>1
  <2>3. PublishInv' /\ publishCall'[p] = PU!NoCall /\ backup'[p] = None
    BY <1>0, <1>a, <1>b, <1>c, <2>1, <2>2, PublishMove
  <2>4. left \cap Exports # {} \/ backup[p] \in Exports => left' \cap Exports # {}
    BY <2>1
  <2> QED BY <1>a, <2>1, <2>3, <2>4 DEF PublishPutAsideHolds
<1> QED BY <1>1, <1>2, <1>3, <1>4, <1>6, <1>7, <1>8, <1>9, <1>10, <1>11

(* So every step keeps the invariant. *)
LEMMA PublishTypeStep == ASSUME None \notin Exports PROVE PublishInv /\ [PU!Next]_(PU!vars) => PublishInv'
<1> SUFFICES ASSUME PublishInv, [PU!Next]_(PU!vars) PROVE PublishInv'
  OBVIOUS
<1>1. CASE UNCHANGED PU!vars
  BY <1>1 DEF PU!vars, PublishInv, PU!TypeOK, PublishCallOK
<1>2. CASE PU!Next
  BY <1>2, PublishStepKeeps DEF PU!Next
<1> QED BY <1>1, <1>2

(* It holds at first. *)
LEMMA PublishSurvivesInit == PU!Init => PublishSurvives
BY PublishTypeInit DEF PublishSurvives, PublishPutAsideHolds, PU!Init, PU!NoCall

(* Every step of one publisher keeps it. *)
LEMMA PublishSurvivesStep ==
  ASSUME None \notin Exports, PublishOnePublisher PROVE PublishSurvives /\ [PU!Next]_(PU!vars) => PublishSurvives'
<1> SUFFICES ASSUME PublishSurvives, [PU!Next]_(PU!vars) PROVE PublishSurvives'
  OBVIOUS
<1>1. PublishInv'
  BY PublishTypeStep DEF PublishSurvives
<1>2. CASE UNCHANGED PU!vars
  BY <1>1, <1>2 DEF PU!vars, PublishSurvives, PublishPutAsideHolds
<1>3. CASE PU!Next
  <2>1. PICK p \in Publishers : PublishPutAsideHolds(p)'
    BY <1>3, PublishStepKeeps DEF PU!Next, PublishSurvives
  <2>2. \A q \in Publishers : q = p
    BY DEF PublishOnePublisher
  <2> QED BY <1>1, <2>1, <2>2 DEF PublishSurvives
<1> QED BY <1>2, <1>3

(* What the run checks follows. *)
LEMMA PublishSurvivesHolds == ASSUME PublishOnePublisher PROVE PublishSurvives => PU!ExportSurvives
BY DEF PublishOnePublisher, PublishSurvives, PublishPutAsideHolds, PU!ExportSurvives

(* A step of the whole is one of this part, if it is its turn. *)
LEMMA PublishTurn ==
  ASSUME [Next]_vars
  PROVE  part' = part /\ (part = "publication" => [PU!Next]_(PU!vars))
<1>1. part' = part
  BY DEF Next, vars, Only
<1>2. part = "publication" => [PU!Next]_(PU!vars)
  BY DEF Next, vars, Only, PU!vars, publicationVars
<1> QED BY <1>1, <1>2

(* So the invariant holds whenever this part moves. *)
LEMMA PublishAlways == Spec => [](part = "publication" => PublishInv)
<1>1. Init => (part = "publication" => PublishInv)
  BY AbsentAssumption, PublishTypeInit DEF Init
<1>2. (part = "publication" => PublishInv) /\ [Next]_vars => (part = "publication" => PublishInv)'
  BY AbsentAssumption, PublishTypeStep, PublishTurn
<1> QED BY <1>1, <1>2, PTL DEF Spec

(* With one publisher what has been published survives as well. *)
LEMMA PublishSurvivesAlways == ASSUME PublishOnePublisher PROVE Spec => [](part = "publication" => PublishSurvives)
<1>1. Init => (part = "publication" => PublishSurvives)
  BY AbsentAssumption, PublishSurvivesInit DEF Init
<1>2. (part = "publication" => PublishSurvives) /\ [Next]_vars => (part = "publication" => PublishSurvives)'
  BY AbsentAssumption, PublishSurvivesStep, PublishTurn
<1> QED BY <1>1, <1>2, PTL DEF Spec

-----------------------------------------------------------------------------
(* Backups: BA in Services. *)

(* What the proof takes of the constants. *)
BackupBounds == MaxStates \in Nat /\ MaxFiles \in Nat

(* The records of the calls. *)
BackupCalling == [step : {"idle", "prune", "backup", "retire", "copy"}, from : BA!Names \cup {BA!NoName}]

(* What is in a file, if there is one. *)
BackupFile == BA!Whole \cup {BA!TornFile, BA!NoFile}

(* Who has the database open has it there, and a log belongs to a database. *)
BackupOpen == backupServed \/ backupLog # BA!NoFile => backupMain # BA!NoFile

(* A restore has a backup to restore from, and no commit is lost. *)
BackupInv ==
  /\ BA!TypeOK
  /\ \A p \in Procs : backupCall[p].step \in {"retire", "copy"} => backupCall[p].from \in BA!Names
  /\ BackupOpen /\ BA!CommitsSurvive

(* No state is no file, or a torn one. *)
LEMMA BackupStates ==
  ASSUME BackupBounds
  PROVE  /\ BA!Empty \in BA!Whole /\ BA!NoFile \notin BA!Whole /\ BA!TornFile \notin BA!Whole
         /\ BA!NoFile # BA!TornFile
BY DEF BackupBounds, BA!Whole, BA!Empty, BA!NoFile, BA!TornFile

(* The types of the variables, one by one. *)
LEMMA BackupTypesOf ==
  ASSUME BA!TypeOK
  PROVE  /\ backupCall \in [Procs -> BackupCalling] /\ \A p \in Procs : backupCall[p] \in BackupCalling
         /\ backupMain \in BackupFile /\ backupLog \in BA!Whole \cup {BA!NoFile}
         /\ backupServed \in BOOLEAN /\ disturbed \in BOOLEAN
         /\ files \in [BA!Names -> BackupFile] /\ retired \subseteq BA!Whole \cup {BA!TornFile}
         /\ tips \subseteq BA!Whole /\ states \in BA!Whole /\ taken \in 0..MaxFiles
BY DEF BA!TypeOK, BackupCalling, BackupFile

(* It holds at first. *)
LEMMA BackupTypeInit == ASSUME BackupBounds PROVE BA!Init => BackupInv
<1> SUFFICES ASSUME BA!Init PROVE BackupInv
  OBVIOUS
<1>1. BA!NoCall \in BackupCalling /\ BA!NoCall.step = "idle"
  BY DEF BA!NoCall, BackupCalling
<1>2. BA!Empty \in BA!Whole /\ 0 \in 0..MaxFiles /\ BA!Empty # BA!NoFile
  BY BackupStates DEF BackupBounds
<1>3. BA!TypeOK
  BY <1>1, <1>2 DEF BA!Init, BA!TypeOK, BackupCalling, BA!Empty
<1>4. BackupOpen /\ BA!CommitsSurvive
  BY <1>2 DEF BA!Init, BackupOpen, BA!CommitsSurvive
<1> QED BY <1>1, <1>3, <1>4 DEF BA!Init, BackupInv

(* A step that moves one call keeps the types and what the other calls hold. *)
LEMMA BackupMove ==
  ASSUME BackupBounds, BackupInv, NEW p \in Procs, NEW k \in BackupCalling, backupCall' = [backupCall EXCEPT ![p] = k],
         k.step \in {"retire", "copy"} => k.from \in BA!Names,
         backupMain' \in BackupFile, backupLog' \in BA!Whole \cup {BA!NoFile}, files' \in [BA!Names -> BackupFile],
         backupServed' \in BOOLEAN, disturbed' \in BOOLEAN,
         retired' \subseteq BA!Whole \cup {BA!TornFile}, taken' \in 0..MaxFiles, UNCHANGED <<states, tips>>
  PROVE  BA!TypeOK' /\ \A q \in Procs : backupCall'[q].step \in {"retire", "copy"} => backupCall'[q].from \in BA!Names
<1>1. backupCall \in [Procs -> BackupCalling] /\ tips \subseteq BA!Whole /\ states \in BA!Whole
  BY BackupTypesOf DEF BackupInv
<1>2. backupCall' \in [Procs -> BackupCalling] /\ \A q \in Procs : backupCall'[q] = IF q = p THEN k ELSE backupCall[q]
  BY <1>1
<1>3. \A q \in Procs : backupCall'[q].step \in {"retire", "copy"} => backupCall'[q].from \in BA!Names
  BY <1>2 DEF BackupInv
<1>4. BA!TypeOK'
  BY <1>1, <1>2 DEF BA!TypeOK, BackupCalling, BackupFile
<1> QED BY <1>3, <1>4

(* The call a process goes on with, or none. *)
LEMMA BackupNextCall ==
  ASSUME BackupBounds, BackupInv, NEW p \in Procs,
         \/ BA!Ends(p)
         \/ BA!To(p, "prune")
         \/ \E s \in {"retire", "copy"} : BA!To(p, s) /\ backupCall[p].from \in BA!Names
  PROVE  \E k \in BackupCalling :
           backupCall' = [backupCall EXCEPT ![p] = k] /\ (k.step \in {"retire", "copy"} => k.from \in BA!Names)
<1>0. backupCall[p] \in BackupCalling
  BY BackupTypesOf DEF BackupInv
<1>1. CASE BA!Ends(p)
  <2>1. BA!NoCall \in BackupCalling /\ BA!NoCall.step = "idle"
    BY DEF BA!NoCall, BackupCalling
  <2> QED BY <1>1, <2>1 DEF BA!Ends
<1>2. ASSUME NEW s \in {"prune", "retire", "copy"}, BA!To(p, s), s \in {"retire", "copy"} => backupCall[p].from \in BA!Names
      PROVE  \E k \in BackupCalling :
               backupCall' = [backupCall EXCEPT ![p] = k] /\ (k.step \in {"retire", "copy"} => k.from \in BA!Names)
  <2> PICK k : k = [backupCall[p] EXCEPT !.step = s]
    OBVIOUS
  <2>1. k \in BackupCalling /\ k.step = s /\ k.from = backupCall[p].from /\ backupCall' = [backupCall EXCEPT ![p] = k]
    BY <1>0, <1>2 DEF BackupCalling, BA!To
  <2> QED BY <1>2, <2>1
<1> QED BY <1>1, <1>2

(* The steps that leave the database alone: backups, what prunes them, a      *)
(* restore that begins, and crashes.                                          *)
LEMMA BackupFilesKeep ==
  ASSUME BackupBounds, BackupInv, NEW p \in Procs,
         BA!Vacuum(p) \/ BA!Prune(p) \/ BA!Crash(p) \/ \E f \in BA!Names : BA!Restore(p, f)
  PROVE  BackupInv'
<1>0. /\ backupCall[p] \in BackupCalling /\ taken \in 0..MaxFiles /\ files \in [BA!Names -> BackupFile]
      /\ backupMain \in BackupFile /\ backupLog \in BA!Whole \cup {BA!NoFile} /\ backupServed \in BOOLEAN
      /\ disturbed \in BOOLEAN /\ retired \subseteq BA!Whole \cup {BA!TornFile}
  BY BackupTypesOf DEF BackupInv
<1>1. UNCHANGED <<backupMain, backupLog, backupServed, retired, states, tips, disturbed>>
  BY DEF BA!Vacuum, BA!Prune, BA!Crash, BA!Restore
<1>2. taken' \in 0..MaxFiles /\ files' \in [BA!Names -> BackupFile]
  <2>1. CASE BA!Vacuum(p)
    <3>1. taken + 1 \in BA!Names /\ taken' = taken + 1 /\ taken' \in 0..MaxFiles
      BY <1>0, <2>1 DEF BA!Vacuum, BA!Names, BackupBounds
    <3>2. PICK c \in BackupFile : files' = [files EXCEPT ![taken + 1] = c]
      BY <2>1 DEF BA!Vacuum, BackupFile
    <3> QED BY <1>0, <3>1, <3>2
  <2>2. CASE BA!Prune(p)
    BY <1>0, <2>2 DEF BA!Prune, BackupFile
  <2>3. CASE BA!Crash(p) \/ \E f \in BA!Names : BA!Restore(p, f)
    BY <1>0, <2>3 DEF BA!Crash, BA!Restore
  <2> QED BY <2>1, <2>2, <2>3
<1>3. \E k \in BackupCalling : backupCall' = [backupCall EXCEPT ![p] = k] /\ (k.step \in {"retire", "copy"} => k.from \in BA!Names)
  <2>1. CASE BA!Vacuum(p) \/ BA!Crash(p)
    BY <2>1, BackupNextCall DEF BA!Vacuum, BA!Crash
  <2>2. CASE BA!Prune(p)
    <3>1. BA!Ends(p) \/ (BA!To(p, "retire") /\ backupCall[p].from \in BA!Names)
      BY <1>0, <2>2 DEF BA!Prune, BackupCalling
    <3> QED BY <3>1, BackupNextCall
  <2>3. ASSUME NEW f \in BA!Names, BA!Restore(p, f)
        PROVE  \E k \in BackupCalling :
                 backupCall' = [backupCall EXCEPT ![p] = k] /\ (k.step \in {"retire", "copy"} => k.from \in BA!Names)
    <3> PICK k : k = [step |-> "backup", from |-> f]
      OBVIOUS
    <3>1. k \in BackupCalling /\ k.step = "backup" /\ backupCall' = [backupCall EXCEPT ![p] = k]
      BY <2>3 DEF BA!Restore, BackupCalling
    <3> QED BY <3>1
  <2> QED BY <2>1, <2>2, <2>3
<1>4. BA!TypeOK' /\ \A q \in Procs : backupCall'[q].step \in {"retire", "copy"} => backupCall'[q].from \in BA!Names
  BY <1>0, <1>1, <1>2, <1>3, BackupMove
<1>5. BackupOpen' /\ BA!CommitsSurvive'
  BY <1>1 DEF BackupInv, BackupOpen, BA!CommitsSurvive, BA!Content
<1> QED BY <1>4, <1>5 DEF BackupInv

(* A restore moves the database away: alone with it, it moves what is         *)
(* committed.                                                                 *)
LEMMA BackupRetireKeeps ==
  ASSUME BackupBounds, BackupInv, NEW p \in Procs, BA!Retire(p) PROVE BackupInv'
<1>0. /\ taken \in 0..MaxFiles /\ files \in [BA!Names -> BackupFile] /\ backupMain \in BackupFile
      /\ backupLog \in BA!Whole \cup {BA!NoFile} /\ disturbed \in BOOLEAN /\ tips \subseteq BA!Whole
      /\ retired \subseteq BA!Whole \cup {BA!TornFile} /\ BA!CommitsSurvive
      /\ backupMain # BA!NoFile /\ backupCall[p].from \in BA!Names
  BY BackupTypesOf DEF BackupInv, BA!Retire
<1>1. /\ retired' = retired \cup {BA!Closed(p)} /\ backupMain' = BA!NoFile /\ backupLog' = BA!NoFile
      /\ backupServed' = FALSE /\ disturbed' = (disturbed \/ ~BA!Alone(p)) /\ BA!To(p, "copy")
      /\ UNCHANGED <<files, states, taken, tips>>
  BY DEF BA!Retire
<1>2. BA!Content \in BA!Whole \cup {BA!TornFile} /\ BA!Closed(p) \in BA!Whole \cup {BA!TornFile}
  BY <1>0 DEF BA!Content, BA!Closed, BackupFile
<1>3. disturbed' \in BOOLEAN
  BY <1>1
<1>4. \E k \in BackupCalling : backupCall' = [backupCall EXCEPT ![p] = k] /\ (k.step \in {"retire", "copy"} => k.from \in BA!Names)
  BY <1>0, <1>1, BackupNextCall
<1>5. /\ backupMain' \in BackupFile /\ backupLog' \in BA!Whole \cup {BA!NoFile} /\ backupServed' \in BOOLEAN
      /\ retired' \subseteq BA!Whole \cup {BA!TornFile} /\ taken' \in 0..MaxFiles /\ files' \in [BA!Names -> BackupFile]
  BY <1>0, <1>1, <1>2 DEF BackupFile
<1>6. BA!TypeOK' /\ \A q \in Procs : backupCall'[q].step \in {"retire", "copy"} => backupCall'[q].from \in BA!Names
  BY <1>1, <1>3, <1>4, <1>5, BackupMove
<1>7. BackupOpen'
  BY <1>1 DEF BackupOpen
<1>8. BA!CommitsSurvive'
  <2>1. SUFFICES ASSUME ~disturbed, BA!Alone(p), NEW n \in tips PROVE n \in retired'
    BY <1>1 DEF BA!CommitsSurvive
  <2>2. n = BA!Content \/ n \in retired
    BY <1>0, <2>1 DEF BA!CommitsSurvive
  <2>3. BA!Closed(p) = BA!Content
    BY <2>1 DEF BA!Closed
  <2> QED BY <1>1, <2>2, <2>3
<1> QED BY <1>6, <1>7, <1>8 DEF BackupInv

(* The copy takes a place that is empty, or another process was there. *)
LEMMA BackupCopyKeeps ==
  ASSUME BackupBounds, BackupInv, NEW p \in Procs, BA!Copy(p) PROVE BackupInv'
<1>0. /\ taken \in 0..MaxFiles /\ files \in [BA!Names -> BackupFile] /\ backupMain \in BackupFile
      /\ backupLog \in BA!Whole \cup {BA!NoFile} /\ disturbed \in BOOLEAN /\ backupServed \in BOOLEAN
      /\ retired \subseteq BA!Whole \cup {BA!TornFile} /\ tips \subseteq BA!Whole
      /\ BA!CommitsSurvive /\ BackupOpen /\ backupCall[p].from \in BA!Names
  BY BackupTypesOf DEF BackupInv, BA!Copy
<1>1. BA!Ends(p) /\ UNCHANGED <<files, retired, states, taken, tips>>
  BY DEF BA!Copy
<1>2. PICK k \in BackupCalling : backupCall' = [backupCall EXCEPT ![p] = k] /\ (k.step \in {"retire", "copy"} => k.from \in BA!Names)
  BY <1>1, BackupNextCall
<1>3. CASE UNCHANGED <<backupMain, backupLog, backupServed, disturbed>>
  <2>1. BA!TypeOK' /\ \A q \in Procs : backupCall'[q].step \in {"retire", "copy"} => backupCall'[q].from \in BA!Names
    BY <1>0, <1>1, <1>2, <1>3, BackupMove
  <2>2. BackupOpen' /\ BA!CommitsSurvive'
    BY <1>0, <1>1, <1>3 DEF BackupOpen, BA!CommitsSurvive, BA!Content
  <2> QED BY <2>1, <2>2 DEF BackupInv
<1>4. CASE ~UNCHANGED <<backupMain, backupLog, backupServed, disturbed>>
  <2>1. /\ backupMain' \in {files[backupCall[p].from], BA!TornFile} /\ files[backupCall[p].from] # BA!NoFile
        /\ backupLog' = BA!NoFile /\ backupServed' = FALSE
        /\ disturbed' = (disturbed \/ backupMain # BA!NoFile)
    BY <1>4 DEF BA!Copy
  <2>2. backupMain' \in BackupFile /\ disturbed' \in BOOLEAN /\ backupServed' \in BOOLEAN
    BY <1>0, <2>1 DEF BackupFile
  <2>3. BA!TypeOK' /\ \A q \in Procs : backupCall'[q].step \in {"retire", "copy"} => backupCall'[q].from \in BA!Names
    BY <1>0, <1>1, <1>2, <2>1, <2>2, BackupMove
  <2>4. BackupOpen'
    BY <2>1 DEF BackupOpen
  <2>5. BA!CommitsSurvive'
    <3>1. SUFFICES ASSUME ~disturbed, backupMain = BA!NoFile, NEW n \in tips PROVE n \in retired
      BY <1>1, <2>1 DEF BA!CommitsSurvive
    <3>2. BA!Content = BA!NoFile
      BY <1>0, <3>1 DEF BackupOpen, BA!Content
    <3>3. n \in BA!Whole /\ n # BA!NoFile
      BY <1>0, BackupStates
    <3> QED BY <1>0, <3>1, <3>2, <3>3 DEF BA!CommitsSurvive
  <2> QED BY <2>3, <2>4, <2>5 DEF BackupInv
<1> QED BY <1>3, <1>4

(* The server, and SQLite's checkpoint. *)
LEMMA BackupServerKeeps ==
  ASSUME BackupBounds, BackupInv, BA!ServerOpens \/ BA!ServerCommits \/ BA!ServerEnds \/ BA!Checkpoint
  PROVE  BackupInv'
<1>0. /\ backupMain \in BackupFile /\ backupLog \in BA!Whole \cup {BA!NoFile} /\ backupServed \in BOOLEAN
      /\ tips \subseteq BA!Whole /\ states \in BA!Whole /\ BA!TypeOK /\ BackupOpen /\ BA!CommitsSurvive
  BY BackupTypesOf DEF BackupInv
<1>1. UNCHANGED <<files, retired, backupCall, taken, disturbed>>
  BY DEF BA!ServerOpens, BA!ServerCommits, BA!ServerEnds, BA!Checkpoint
<1>2. \A q \in Procs : backupCall'[q].step \in {"retire", "copy"} => backupCall'[q].from \in BA!Names
  BY <1>1 DEF BackupInv
<1>3. CASE BA!ServerOpens
  <2>1. /\ backupServed' = TRUE /\ UNCHANGED <<backupLog, states, tips>>
        /\ backupMain' = IF backupMain = BA!NoFile THEN BA!Empty ELSE backupMain
    BY <1>3 DEF BA!ServerOpens
  <2>2. backupMain' \in BackupFile /\ backupMain' # BA!NoFile
    BY <1>0, <2>1, BackupStates DEF BackupFile
  <2>3. BA!TypeOK'
    BY <1>0, <1>1, <2>1, <2>2 DEF BA!TypeOK, BackupFile
  <2>4. BA!CommitsSurvive'
    <3>1. SUFFICES ASSUME ~disturbed, NEW n \in tips, n \notin retired PROVE n = BA!Content'
      BY <1>1, <2>1 DEF BA!CommitsSurvive
    <3>2. n = BA!Content /\ n \in BA!Whole
      BY <1>0, <3>1 DEF BA!CommitsSurvive
    <3>3. n # BA!NoFile
      BY <3>2, BackupStates
    <3> QED BY <2>1, <3>2, <3>3 DEF BA!Content
  <2> QED BY <1>2, <2>2, <2>3, <2>4 DEF BackupInv, BackupOpen
<1>4. CASE BA!ServerCommits
  <2>1. /\ backupServed /\ states' = states + 1 /\ backupLog' = states + 1 /\ states + 1 \in BA!Whole
        /\ tips' = (tips \ {BA!Content}) \cup {states + 1} /\ UNCHANGED <<backupMain, backupServed>>
    BY <1>0, <1>4 DEF BA!ServerCommits, BA!Whole, BA!Empty, BackupBounds
  <2>2. BA!TypeOK'
    BY <1>0, <1>1, <2>1 DEF BA!TypeOK
  <2>3. BA!Content' = states + 1
    BY <2>1, BackupStates DEF BA!Content
  <2>4. BA!CommitsSurvive'
    BY <1>0, <1>1, <2>1, <2>3 DEF BA!CommitsSurvive
  <2>5. BackupOpen'
    BY <1>0, <2>1 DEF BackupOpen
  <2> QED BY <1>2, <2>2, <2>4, <2>5 DEF BackupInv
<1>5. CASE BA!ServerEnds
  <2>1. backupServed' = FALSE /\ UNCHANGED <<backupMain, backupLog, states, tips>>
    BY <1>5 DEF BA!ServerEnds
  <2>2. BA!TypeOK'
    BY <1>0, <1>1, <2>1 DEF BA!TypeOK
  <2>3. BackupOpen' /\ BA!CommitsSurvive'
    BY <1>0, <1>1, <2>1 DEF BackupOpen, BA!CommitsSurvive, BA!Content
  <2> QED BY <1>2, <2>2, <2>3 DEF BackupInv
<1>6. CASE BA!Checkpoint
  <2>1. /\ backupLog # BA!NoFile /\ backupMain' = backupLog /\ backupLog' = BA!NoFile
        /\ UNCHANGED <<backupServed, states, tips>>
    BY <1>6 DEF BA!Checkpoint
  <2>2. BA!TypeOK'
    BY <1>0, <1>1, <2>1 DEF BA!TypeOK
  <2>3. BA!Content' = BA!Content
    BY <2>1 DEF BA!Content
  <2>4. BackupOpen' /\ BA!CommitsSurvive'
    BY <1>0, <1>1, <2>1, <2>3 DEF BackupOpen, BA!CommitsSurvive
  <2> QED BY <1>2, <2>2, <2>4 DEF BackupInv
<1> QED BY <1>3, <1>4, <1>5, <1>6

(* So every step keeps the invariant. *)
LEMMA BackupTypeStep == ASSUME BackupBounds PROVE BackupInv /\ [BA!Next]_(BA!vars) => BackupInv'
<1> SUFFICES ASSUME BackupInv, [BA!Next]_(BA!vars) PROVE BackupInv'
  OBVIOUS
<1>1. CASE UNCHANGED BA!vars
  <2>1. BA!TypeOK' /\ \A q \in Procs : backupCall'[q].step \in {"retire", "copy"} => backupCall'[q].from \in BA!Names
    BY <1>1 DEF BA!vars, BackupInv, BA!TypeOK
  <2>2. BackupOpen' /\ BA!CommitsSurvive'
    BY <1>1 DEF BA!vars, BackupInv, BackupOpen, BA!CommitsSurvive, BA!Content
  <2> QED BY <2>1, <2>2 DEF BackupInv
<1> QED BY <1>1, BackupServerKeeps, BackupFilesKeep, BackupRetireKeeps, BackupCopyKeeps DEF BA!Next

(* The constants are so. *)
LEMMA BackupBoundsHold == BackupBounds
BY BoundsAssumption DEF BackupBounds

(* A step of the whole is one of this part, if it is its turn. *)
LEMMA BackupTurn ==
  ASSUME [Next]_vars
  PROVE  part' = part /\ (part = "backups" => [BA!Next]_(BA!vars))
<1>1. part' = part
  BY DEF Next, vars, Only
<1>2. part = "backups" => [BA!Next]_(BA!vars)
  BY DEF Next, vars, Only, BA!vars, backupsVars
<1> QED BY <1>1, <1>2

(* So the invariant holds whenever this part moves. *)
LEMMA BackupAlways == Spec => [](part = "backups" => BackupInv)
<1>1. Init => (part = "backups" => BackupInv)
  BY BackupBoundsHold, BackupTypeInit DEF Init
<1>2. (part = "backups" => BackupInv) /\ [Next]_vars => (part = "backups" => BackupInv)'
  BY BackupBoundsHold, BackupTypeStep, BackupTurn
<1> QED BY <1>1, <1>2, PTL DEF Spec

-----------------------------------------------------------------------------
(* The budget of an import: BB in Services. *)

(* The set operators of the instance are those of this module. *)
LEMMA BatchSame ==
  /\ \A S : BB!Max(S) = Max(S)
  /\ \A S : BB!Min(S) = Min(S)
  /\ \A S : BB!Cardinality(S) = Cardinality(S)
<1>1. \A S : BB!Max(S) = Max(S)
  BY DEF BB!Max, Max
<1>2. \A S : BB!Min(S) = Min(S)
  BY DEF BB!Min, Min
<1>3. \A S : BB!Cardinality(S) = Cardinality(S)
  BY DEF BB!Cardinality, Cardinality
<1> QED BY <1>1, <1>2, <1>3

(* An entry of a bundle. *)
BatchEntry == [topic : Topics, chars : Nat]

(* What the proof takes of the constants. *)
BatchBounds ==
  /\ IsFiniteSet(BudgetIds) /\ BudgetIds \subseteq Nat
  /\ StoredStock \subseteq BB!Row /\ ImportedStock \subseteq BatchEntry /\ None \notin BB!Row /\ None \notin BatchEntry
  /\ Budget.entries \in Nat /\ Budget.chars \in Nat

(* The entries and characters of the active rows are within their budget.      *)
BatchInBudget(table) ==
  Cardinality(BB!Active(table)) <= Budget.entries /\ CharsIn(table, BB!Active(table)) <= Budget.chars

(* The row an entry is inserted as. *)
BatchInserted(i) == [topic |-> batchBundle[i].topic, chars |-> batchBundle[i].chars, status |-> "active"]

(* What the table is when the overwrites in todo are still to come.            *)
BatchReached ==
  \A i \in BudgetIds :
    batchRows[i] = IF i \in BB!Inserts THEN BatchInserted(i)
              ELSE IF i \in BB!Overwrites \ batchTodo THEN BB!Written(i) ELSE batchOld[i]

(* The types of the variables. *)
BatchTyped ==
  /\ batchRows \in BB!Store /\ batchOld \in BB!Store /\ batchSaved \in BB!Store
  /\ batchBundle \in [BudgetIds -> BatchEntry \cup {None}]
  /\ batchPolicy \in {"keep", "replace", "merge"}
  /\ batchStage \in {"new", "planned", "refused", "applying", "applied", "failed"}
  /\ batchTodo \subseteq BudgetIds /\ batchTouched \subseteq BudgetIds

(* What an import at each stage knows of the rows it planned over. *)
BatchPlanned ==
  /\ batchStage = "planned" => \A i \in BB!Inserts : batchRows[i] = None
  /\ batchStage = "planned" /\ batchTouched = {} => \A i \in BudgetIds : batchRows[i] = batchOld[i]
  /\ batchStage = "applying" => batchTodo # {} /\ batchTodo \subseteq BB!Overwrites
  /\ batchStage = "applied" => batchTodo = {}
  /\ batchStage \in {"applying", "applied"} /\ batchTouched = {} => BatchReached

(* The rows are within the budget, or those the import began with are. *)
BatchWithin ==
  /\ batchStage = "applying" => BatchInBudget(batchSaved)
  /\ batchStage # "applying" => BatchInBudget(batchRows)

(* The inductive invariant. *)
BatchInv == BatchTyped /\ BatchPlanned /\ BatchWithin

(* The characters the code counts are the sum over the rows. *)
LEMMA BatchCharsIs == ASSUME NEW table, NEW S PROVE BB!Chars(table, S) = CharsIn(table, S)
BY DEF BB!Chars, CharsIn, BB!MapThenSumSet, BB!MapThenFoldSet, MapThenSumSet, MapThenFoldSet

(* The totals fit when the rows are within the budget. *)
LEMMA BatchTotalIs == ASSUME NEW table PROVE BB!Total(BB!Usage(table)) <=> BatchInBudget(table)
BY BatchSame, BatchCharsIs DEF BB!Total, BB!Usage, BatchInBudget

(* The active rows of a table are finitely many, each with its characters. *)
LEMMA BatchRowsAre ==
  ASSUME BatchBounds, NEW table \in BB!Store
  PROVE  /\ BB!Active(table) \in SUBSET BudgetIds /\ IsFiniteSet(BB!Active(table))
         /\ Cardinality(BB!Active(table)) \in Nat
         /\ \A i \in BudgetIds : table[i] # None => table[i] \in BB!Row
         /\ \A i \in BB!Active(table) : table[i].chars \in Nat
         /\ CharsIn(table, BB!Active(table)) \in Nat
<1>1. BB!Active(table) \in SUBSET BudgetIds
  BY DEF BB!Active
<1>2. IsFiniteSet(BB!Active(table)) /\ Cardinality(BB!Active(table)) \in Nat
  BY <1>1, FS_Subset, FS_CardinalityType DEF BatchBounds
<1>3. \A i \in BudgetIds : table[i] # None => table[i] \in BB!Row
  BY DEF BB!Store
<1>4. \A i \in BB!Active(table) : table[i].chars \in Nat
  BY <1>3 DEF BB!Active, BB!Row
<1> PICK A : A = BB!Active(table)
  OBVIOUS
<1>5. CharsIn(table, A) \in Nat
  <2>1. A \cap {} = {} /\ A \in SUBSET A /\ {} \in SUBSET A
    OBVIOUS
  <2> QED BY <1>2, <1>4, <2>1, CharsInUnion
<1> QED BY <1>1, <1>2, <1>3, <1>4, <1>5

\* A table whose active rows are some of another's is within the same budget.

(* Fewer active rows of the same size stay within the budget. *)
LEMMA BatchShrinks ==
  ASSUME BatchBounds, NEW table \in BB!Store, NEW less \in BB!Store, BatchInBudget(table),
         BB!Active(less) \subseteq BB!Active(table),
         \A i \in BB!Active(less) : less[i].chars = table[i].chars
  PROVE  BatchInBudget(less)
<1>1. PICK A : A = BB!Active(table)
  OBVIOUS
<1>2. PICK B : B = BB!Active(less)
  OBVIOUS
<1>3. PICK C : C = A \ B
  OBVIOUS
<1>4. IsFiniteSet(A) /\ (\A i \in A : table[i].chars \in Nat) /\ IsFiniteSet(B)
  BY <1>1, <1>2, BatchRowsAre
<1>5. B \in SUBSET A /\ C \in SUBSET A /\ B \cap C = {} /\ B \cup C = A
  BY <1>1, <1>2, <1>3
<1>6. Cardinality(B) <= Cardinality(A) /\ Cardinality(B) \in Nat /\ Cardinality(A) \in Nat
  BY <1>4, <1>5, FS_Subset, FS_CardinalityType
<1>7. /\ CharsIn(table, B \cup C) = CharsIn(table, B) + CharsIn(table, C)
      /\ CharsIn(table, B) \in Nat /\ CharsIn(table, C) \in Nat
  <2>1. B \in SUBSET A /\ C \in SUBSET A /\ B \cap C = {}
    BY <1>5
  <2>2. IsFiniteSet(A)
    BY <1>4
  <2>3. \A i \in A : table[i].chars \in Nat
    BY <1>4
  <2> QED BY ONLY <2>1, <2>2, <2>3, CharsInUnion
<1>8. CharsIn(less, B) = CharsIn(table, B)
  BY <1>2, <1>4, CharsInSame
<1>9. CharsIn(table, A) = CharsIn(table, B) + CharsIn(table, C)
  BY <1>5, <1>7
<1>10. Cardinality(A) <= Budget.entries /\ CharsIn(table, A) <= Budget.chars
  BY <1>1 DEF BatchInBudget
<1>11. Cardinality(B) <= Budget.entries /\ CharsIn(less, B) <= Budget.chars
  BY <1>6, <1>7, <1>8, <1>9, <1>10 DEF BatchBounds
<1> QED BY <1>2, <1>11 DEF BatchInBudget

(* It holds at first. *)
LEMMA BatchTypeInit == ASSUME BatchBounds PROVE BB!Init => BatchInv
<1> SUFFICES ASSUME BB!Init PROVE BatchInv
  OBVIOUS
<1>1. batchRows \in BB!Store
  BY DEF BB!Init, BB!Store, BatchBounds
<1>2. batchOld \in BB!Store /\ batchSaved \in BB!Store
  BY DEF BB!Init, BB!Store
<1>3. batchBundle \in [BudgetIds -> BatchEntry \cup {None}]
  BY DEF BB!Init, BatchBounds
<1>4. BatchTyped
  BY <1>1, <1>2, <1>3 DEF BB!Init, BatchTyped
<1>5. BB!Total(BB!Usage(batchRows))
  BY DEF BB!Init, BB!Fits, BB!Total
<1>6. BatchWithin
  BY <1>5, BatchTotalIs DEF BB!Init, BatchWithin
<1>7. BatchPlanned
  BY DEF BB!Init, BatchPlanned
<1> QED BY <1>4, <1>6, <1>7 DEF BatchInv

\* What an import writes is a row.

(* An entry that overwrites makes a row. *)
LEMMA BatchWrittenIs ==
  ASSUME BatchBounds, BatchTyped, NEW i \in BB!Overwrites
  PROVE  BB!Written(i) \in BB!Row
<1>1. i \in BudgetIds /\ batchBundle[i] \in BatchEntry /\ batchOld[i] \in BB!Row
  BY BatchRowsAre DEF BatchTyped, BB!Overwrites, BB!Inserts, BB!InBundle
<1>2. batchBundle[i].topic \in Topics /\ batchBundle[i].chars \in Nat /\ batchOld[i].chars \in Nat
  BY <1>1 DEF BatchEntry, BB!Row
<1> PICK k : k = Max({batchOld[i].chars, batchBundle[i].chars})
  OBVIOUS
<1>3. k \in Nat
  BY <1>2, MaxTwo
<1>4. BB!Written(i) = IF batchPolicy = "merge" THEN [batchOld[i] EXCEPT !.chars = k]
                   ELSE [topic |-> batchBundle[i].topic, chars |-> batchBundle[i].chars, status |-> batchOld[i].status]
  BY BatchSame DEF BB!Written
<1> QED BY <1>1, <1>2, <1>3, <1>4 DEF BB!Row

(* An entry that is inserted makes a row. *)
LEMMA BatchInsertedIs ==
  ASSUME BatchBounds, BatchTyped, NEW i \in BB!Inserts
  PROVE  i \in BudgetIds /\ BatchInserted(i) \in BB!Row
<1>1. i \in BudgetIds /\ batchBundle[i] \in BatchEntry
  BY DEF BatchTyped, BB!Inserts, BB!InBundle
<1> QED BY <1>1 DEF BatchInserted, BatchEntry, BB!Row

\* The batch, which the others do not change.

(* The plan of an import stays as long as its bundle does. *)
LEMMA BatchSamePlan ==
  ASSUME UNCHANGED <<batchBundle, batchPolicy, batchOld>>
  PROVE  /\ BB!InBundle' = BB!InBundle /\ BB!Inserts' = BB!Inserts /\ BB!Overwrites' = BB!Overwrites
         /\ \A i : BatchInserted(i)' = BatchInserted(i) /\ BB!Written(i)' = BB!Written(i)
BY DEF BB!InBundle, BB!Inserts, BB!Overwrites, BatchInserted, BB!Written

(* The preflight: the plan is made or refused. *)
LEMMA BatchPreflightKeeps == ASSUME BatchBounds, BatchInv, BB!Preflight PROVE BatchInv'
<1>1. batchOld' = batchRows /\ batchStage = "new" /\ batchStage' \in {"planned", "refused"} /\ UNCHANGED <<batchRows, batchBundle, batchPolicy, batchTodo, batchSaved, batchTouched>>
  BY DEF BB!Preflight
<1>2. BatchTyped'
  BY <1>1 DEF BatchInv, BatchTyped
<1>3. BatchWithin'
  BY <1>1 DEF BatchInv, BatchWithin, BatchInBudget, BB!Active
<1>4. \A i \in BB!Inserts' : batchRows'[i] = None
  BY <1>1 DEF BB!Inserts
<1>5. BatchPlanned'
  BY <1>1, <1>4 DEF BatchPlanned
<1> QED BY <1>2, <1>3, <1>5 DEF BatchInv

\* The inserts of a batch that overwrites nothing fit, when it was projected to.

(* Rows that are inserted in one transaction fit when their projection does. *)
LEMMA BatchInsertsFit ==
  ASSUME BatchBounds, BatchInv, batchStage = "planned", BB!Overwrites = {},
         BB!Fits(BB!Projected(BB!Usage(batchRows), batchOld, BB!AsPlanned)),
         NEW after \in BB!Store,
         after = [i \in BudgetIds |-> IF i \in BB!Inserts THEN BatchInserted(i) ELSE batchRows[i]]
  PROVE  BatchInBudget(after)
<1> PICK A : A = BB!Active(batchRows)
  OBVIOUS
<1> PICK I : I = BB!Inserts
  OBVIOUS
<1>1. /\ \A i \in I : i \in BudgetIds /\ batchRows[i] = None
      /\ I \subseteq BudgetIds /\ A \subseteq BudgetIds /\ A \cap I = {} /\ batchRows \in BB!Store
  BY DEF BatchInv, BatchPlanned, BatchTyped, BB!Active, BB!Inserts, BB!InBundle
<1>2. IsFiniteSet(I) /\ IsFiniteSet(A) /\ Cardinality(I) \in Nat /\ Cardinality(A) \in Nat
  BY <1>1, FS_Subset, FS_CardinalityType DEF BatchBounds
<1>3. BB!Active(after) = A \cup I
  <2>1. \A i \in BudgetIds : after[i] = IF i \in I THEN BatchInserted(i) ELSE batchRows[i]
    OBVIOUS
  <2>2. \A i \in I : BatchInserted(i) # None /\ BatchInserted(i).status = "active"
    BY BatchInsertedIs DEF BatchBounds, BatchInv, BatchInserted
  <2> QED BY <1>1, <2>1, <2>2 DEF BB!Active
<1>4. /\ {i \in BB!InBundle : batchOld[i] = None} = I
      /\ (IF batchPolicy = "keep" THEN {} ELSE BB!InBundle \ {i \in BB!InBundle : batchOld[i] = None}) = {}
  BY DEF BB!Overwrites, BB!Inserts
<1> PICK new : new = BB!AsPlanned
  OBVIOUS
<1>5. /\ Cardinality(A) + Cardinality(I) - Cardinality({}) <= Budget.entries
      /\ CharsIn(batchRows, A) + CharsIn(new, I) - CharsIn(batchOld, {}) <= Budget.chars
  <2> PICK p : p = BB!Projected(BB!Usage(batchRows), batchOld, new)
    OBVIOUS
  <2>1. p.entries <= Budget.entries /\ p.chars <= Budget.chars
    BY DEF BB!Fits
  <2>2. I \cup {} = I
    OBVIOUS
  <2>3. p.entries = BB!Usage(batchRows).entries + Cardinality(I) - Cardinality({})
    BY BatchSame, <1>4 DEF BB!Projected
  <2>4. p.chars = BB!Usage(batchRows).chars + BB!Chars(new, I) - BB!Chars(batchOld, {})
    BY <1>4, <2>2 DEF BB!Projected
  <2>5. BB!Usage(batchRows).entries = Cardinality(A) /\ BB!Usage(batchRows).chars = CharsIn(batchRows, A)
    BY BatchSame, BatchCharsIs DEF BB!Usage
  <2> QED BY <2>1, <2>3, <2>4, <2>5, BatchCharsIs
<1>6. Cardinality({}) = 0
  BY FS_EmptySet
<1>7. \A i \in I : batchBundle[i] \in BatchEntry /\ new[i] = batchBundle[i]
  BY <1>1 DEF BB!AsPlanned, BB!Inserts, BB!InBundle, BatchInv, BatchTyped
<1>8. \A i \in I : after[i].chars = new[i].chars /\ after[i].chars \in Nat
  BY <1>1, <1>7 DEF BatchInserted, BatchEntry
<1>9. \A i \in A : after[i].chars = batchRows[i].chars /\ after[i].chars \in Nat
  BY <1>1, BatchRowsAre
<1>10. /\ CharsIn(after, A \cup I) = CharsIn(after, A) + CharsIn(after, I)
       /\ CharsIn(after, A) \in Nat /\ CharsIn(after, I) \in Nat
  <2>1. PICK U : U = A \cup I
    OBVIOUS
  <2>2. IsFiniteSet(U)
    BY <1>2, <2>1, FS_Union
  <2>3. A \in SUBSET U /\ I \in SUBSET U /\ A \cap I = {}
    BY <1>1, <2>1
  <2>4. \A i \in U : after[i].chars \in Nat
    BY <1>8, <1>9, <2>1
  <2> QED BY ONLY <2>2, <2>3, <2>4, CharsInUnion
<1>11. CharsIn(after, A) = CharsIn(batchRows, A) /\ CharsIn(after, I) = CharsIn(new, I)
  BY <1>2, <1>8, <1>9, CharsInSame
<1>12. CharsIn(batchOld, {}) = 0
  <2>1. CharsIn(batchOld, {}) = SumOf([i \in {} |-> batchOld[i].chars], {})
    BY FS_EmptySet, CharsInSum
  <2> QED BY <2>1, SumEmpty
<1>13. Cardinality(A \cup I) = Cardinality(A) + Cardinality(I)
  <2>1. IsFiniteSet(A) /\ IsFiniteSet(I)
    BY <1>2
  <2>2. Cardinality(A \cup I) = Cardinality(A) + Cardinality(I) - Cardinality(A \cap I)
    BY ONLY <2>1, FS_Union
  <2>3. Cardinality(A \cap I) = 0
    BY <1>1, <1>6
  <2> QED BY <1>2, <2>2, <2>3
<1>14. CharsIn(after, BB!Active(after)) <= Budget.chars
  <2>1. CharsIn(after, BB!Active(after)) = CharsIn(batchRows, A) + CharsIn(new, I)
    BY <1>3, <1>10, <1>11
  <2>2. CharsIn(batchRows, A) \in Nat /\ CharsIn(new, I) \in Nat
    BY <1>10, <1>11
  <2>3. PICK x, y : x = CharsIn(batchRows, A) /\ y = CharsIn(new, I)
    OBVIOUS
  <2>4. x \in Nat /\ y \in Nat /\ x + y - 0 <= Budget.chars
    BY <1>5, <1>12, <2>2, <2>3
  <2>5. x + y <= Budget.chars
    BY <2>4
  <2> QED BY <2>1, <2>3, <2>5
<1>15. Cardinality(BB!Active(after)) <= Budget.entries
  <2>1. PICK x, y : x = Cardinality(A) /\ y = Cardinality(I)
    OBVIOUS
  <2>2. x \in Nat /\ y \in Nat /\ x + y - 0 <= Budget.entries
    BY <1>2, <1>5, <1>6, <2>1
  <2>3. x + y <= Budget.entries
    BY <2>2
  <2> QED BY <1>3, <1>13, <2>1, <2>3
<1> QED BY <1>14, <1>15 DEF BatchInBudget

(* The apply: the inserts go in, or the overwrites begin. *)
LEMMA BatchApplyKeeps == ASSUME BatchBounds, BatchInv, BB!Apply PROVE BatchInv'
<1>0. batchStage = "planned" /\ UNCHANGED <<batchBundle, batchPolicy, batchOld, batchTouched>>
  BY DEF BB!Apply
<1>1. CASE batchStage' = "failed" /\ UNCHANGED <<batchRows, batchSaved, batchTodo>>
  <2>1. BatchTyped' /\ BatchPlanned'
    BY <1>0, <1>1 DEF BatchInv, BatchTyped, BatchPlanned
  <2>2. BatchWithin'
    BY <1>0, <1>1 DEF BatchInv, BatchWithin, BatchInBudget, BB!Active
  <2> QED BY <2>1, <2>2 DEF BatchInv
<1>2. ASSUME BB!Overwrites \cap batchTouched = {}, BB!Fits(BB!Projected(BB!Usage(batchRows), batchOld, BB!AsPlanned)),
             batchRows' = [i \in BudgetIds |-> IF i \in BB!Inserts THEN BatchInserted(i) ELSE batchRows[i]],
             batchSaved' = batchRows, batchTodo' = BB!Overwrites,
             batchStage' = IF BB!Overwrites = {} THEN "applied" ELSE "applying"
      PROVE  BatchInv'
  <2>1. batchRows' \in BB!Store
    <3>1. \A i \in BudgetIds : (IF i \in BB!Inserts THEN BatchInserted(i) ELSE batchRows[i]) \in BB!Row \cup {None}
      BY BatchInsertedIs DEF BatchInv, BatchTyped, BB!Store
    <3> QED BY <1>2, <3>1 DEF BB!Store
  <2>2. BB!Overwrites \subseteq BudgetIds
    BY DEF BB!Overwrites, BB!Inserts, BB!InBundle
  <2>3. BatchTyped'
    BY <1>0, <1>2, <2>1, <2>2 DEF BatchInv, BatchTyped
  <2>4. BatchWithin'
    <3>1. CASE BB!Overwrites = {}
      <4> PICK after : after = batchRows'
        OBVIOUS
      <4>1. BatchInBudget(after)
        BY <1>0, <1>2, <2>1, <3>1, BatchInsertsFit
      <4>2. BatchInBudget(batchRows)'
        BY <4>1 DEF BatchInBudget, BB!Active
      <4> QED BY <1>2, <3>1, <4>2 DEF BatchWithin
    <3>2. CASE BB!Overwrites # {}
      <4>1. BatchInBudget(batchRows)
        BY <1>0 DEF BatchInv, BatchWithin
      <4>2. BatchInBudget(batchSaved)'
        BY <1>2, <4>1 DEF BatchInBudget, BB!Active
      <4> QED BY <1>2, <3>2, <4>2 DEF BatchWithin
    <3> QED BY <3>1, <3>2
  <2>5. batchTouched = {} => BatchReached'
    <3>1. ASSUME batchTouched = {}, NEW i \in BudgetIds
          PROVE  batchRows'[i] = IF i \in BB!Inserts THEN BatchInserted(i)
                            ELSE IF i \in BB!Overwrites \ batchTodo' THEN BB!Written(i) ELSE batchOld[i]
      BY <1>0, <1>2, <3>1 DEF BatchInv, BatchPlanned
    <3> QED BY <1>0, <3>1, BatchSamePlan DEF BatchReached
  <2>6. BatchPlanned'
    BY <1>0, <1>2, <2>5, BatchSamePlan DEF BatchPlanned
  <2> QED BY <2>3, <2>4, <2>6 DEF BatchInv
<1> QED BY <1>1, <1>2 DEF BB!Apply, BatchInserted

\* A row that is made archived, or that fits when it is counted, leaves the
\* scope within its budget.

(* A row that fits in place of another leaves the table within the budget. *)
LEMMA BatchRowFitsIs ==
  ASSUME BatchBounds, batchRows \in BB!Store, NEW i \in BudgetIds, NEW new \in BB!Row, BB!RowFits(i, new)
  PROVE  /\ [batchRows EXCEPT ![i] = new] \in BB!Store
         /\ BatchInBudget([batchRows EXCEPT ![i] = new])
<1>1. PICK after : after = [batchRows EXCEPT ![i] = new]
  OBVIOUS
<1>2. PICK others : others = [batchRows EXCEPT ![i] = None]
  OBVIOUS
<1>3. after \in BB!Store /\ others \in BB!Store
  BY <1>1, <1>2 DEF BB!Store
<1>4. after[i] = new /\ others[i] = None /\ \A k \in BudgetIds \ {i} : after[k] = batchRows[k] /\ others[k] = batchRows[k]
  BY <1>1, <1>2 DEF BB!Store
<1>5. CASE new.status = "active"
  <2>1. BB!Total(BB!Usage(after))
    BY <1>1, <1>5 DEF BB!RowFits, BB!Total
  <2> QED BY <1>1, <1>3, <2>1, BatchTotalIs
<1>6. CASE new.status # "active"
  <2>1. BB!Total(BB!Usage(others))
    BY <1>2, <1>6 DEF BB!RowFits, BB!Total
  <2>2. BatchInBudget(others)
    BY <2>1, BatchTotalIs
  <2>3. BB!Active(after) \subseteq BB!Active(others) /\ i \notin BB!Active(after)
    BY <1>4, <1>6 DEF BB!Active
  <2>4. \A k \in BB!Active(after) : after[k].chars = others[k].chars
    BY <1>4, <2>3 DEF BB!Active
  <2> QED BY <1>1, <1>3, <2>2, <2>3, <2>4, BatchShrinks
<1> QED BY <1>5, <1>6

(* One row is overwritten, or none for want of room. *)
LEMMA BatchOverwriteKeeps == ASSUME BatchBounds, BatchInv, NEW i \in BudgetIds, BB!Overwrite(i) PROVE BatchInv'
<1>0. /\ batchStage = "applying" /\ i = Min(batchTodo) /\ batchTodo' = batchTodo \ {i}
      /\ UNCHANGED <<batchBundle, batchPolicy, batchOld, batchSaved, batchTouched>>
  BY BatchSame DEF BB!Overwrite
<1>1. i \in batchTodo /\ i \in BB!Overwrites
  <2>1. batchTodo \in SUBSET Nat /\ batchTodo # {} /\ batchTodo \subseteq BB!Overwrites
    BY <1>0 DEF BatchInv, BatchPlanned, BatchTyped, BatchBounds
  <2>2. \E n \in batchTodo : \A m \in batchTodo : n <= m
    BY <2>1, Least
  <2>3. Min(batchTodo) \in batchTodo
    BY <2>2 DEF Min
  <2> QED BY <1>0, <2>1, <2>3
<1>2. BB!Written(i) \in BB!Row
  BY <1>1, BatchWrittenIs DEF BatchInv
<1>3. i \notin BB!Inserts
  BY <1>1 DEF BB!Overwrites
<1>4. CASE BB!RowFits(i, BB!Written(i))
  <2>1. /\ batchRows' = [batchRows EXCEPT ![i] = BB!Written(i)]
        /\ batchStage' = IF batchTodo = {i} THEN "applied" ELSE "applying"
    BY <1>4 DEF BB!Overwrite
  <2>2. batchRows' \in BB!Store
    BY <1>2, <1>4, <2>1, BatchRowFitsIs DEF BatchInv, BatchTyped
  <2>3. BatchTyped'
    BY <1>0, <2>1, <2>2 DEF BatchInv, BatchTyped
  <2>4. BatchInBudget([batchRows EXCEPT ![i] = BB!Written(i)])
    BY <1>2, <1>4, BatchRowFitsIs DEF BatchInv, BatchTyped
  <2>5. BatchInBudget(batchRows)'
    BY <2>1, <2>4 DEF BatchInBudget, BB!Active
  <2>6. BatchInBudget(batchSaved)'
    BY <1>0 DEF BatchInv, BatchWithin, BatchInBudget, BB!Active
  <2>7. BatchWithin'
    BY <2>5, <2>6 DEF BatchWithin
  <2>8. batchTouched = {} => BatchReached'
    <3>1. ASSUME batchTouched = {}, NEW k \in BudgetIds
          PROVE  batchRows'[k] = IF k \in BB!Inserts THEN BatchInserted(k)
                            ELSE IF k \in BB!Overwrites \ batchTodo' THEN BB!Written(k) ELSE batchOld[k]
      <4>1. batchRows[k] = IF k \in BB!Inserts THEN BatchInserted(k)
                      ELSE IF k \in BB!Overwrites \ batchTodo THEN BB!Written(k) ELSE batchOld[k]
        BY <1>0, <3>1 DEF BatchInv, BatchPlanned, BatchReached
      <4>2. batchRows'[k] = IF k = i THEN BB!Written(i) ELSE batchRows[k]
        BY <2>1 DEF BatchInv, BatchTyped, BB!Store
      <4> QED BY <1>0, <1>1, <1>3, <4>1, <4>2
    <3> QED BY <1>0, <3>1, BatchSamePlan DEF BatchReached
  <2>9. BatchPlanned'
    <3>1. batchTodo \subseteq BB!Overwrites
      BY <1>0 DEF BatchInv, BatchPlanned
    <3>2. batchStage' = "applied" => batchTodo' = {}
      BY <1>0, <2>1
    <3>3. batchStage' = "applying" => batchTodo' # {} /\ batchTodo' \subseteq BB!Overwrites'
      BY <1>0, <1>1, <2>1, <3>1, BatchSamePlan
    <3> QED BY <1>0, <2>1, <2>8, <3>2, <3>3 DEF BatchPlanned
  <2> QED BY <2>3, <2>7, <2>9 DEF BatchInv
<1>5. CASE ~BB!RowFits(i, BB!Written(i))
  <2>1. batchRows' = batchSaved /\ batchStage' = "failed"
    BY <1>5 DEF BB!Overwrite
  <2>2. BatchTyped'
    BY <1>0, <2>1 DEF BatchInv, BatchTyped
  <2>3. BatchInBudget(batchRows)'
    BY <1>0, <2>1 DEF BatchInv, BatchWithin, BatchInBudget, BB!Active
  <2> QED BY <2>1, <2>2, <2>3 DEF BatchInv, BatchPlanned, BatchWithin
<1> QED BY <1>4, <1>5

(* Another writer inserts or changes a row. *)
LEMMA BatchOtherKeeps ==
  ASSUME BatchBounds, BatchInv, NEW i \in BudgetIds, NEW new \in BB!Row, BB!Other(i, new)
  PROVE  BatchInv'
<1>0. /\ batchStage = "planned" /\ batchTouched = {} /\ batchRows' = [batchRows EXCEPT ![i] = new] /\ batchTouched' = {i}
      /\ UNCHANGED <<batchBundle, batchPolicy, batchOld, batchStage, batchTodo, batchSaved>>
  BY DEF BB!Other
<1>1. PICK after : after = [batchRows EXCEPT ![i] = new]
  OBVIOUS
<1>2. after \in BB!Store /\ batchRows \in BB!Store
  BY <1>1 DEF BatchInv, BatchTyped, BB!Store
<1>3. after[i] = new /\ \A k \in BudgetIds \ {i} : after[k] = batchRows[k]
  BY <1>1, <1>2 DEF BB!Store
<1>4. BatchTyped'
  BY <1>0, <1>1, <1>2 DEF BatchInv, BatchTyped
<1>5. BatchInBudget(after)
  <2>1. CASE batchRows[i] = None
    <3>1. BB!RowFits(i, new)
      BY <2>1 DEF BB!Other
    <3> QED BY <1>1, <1>2, <3>1, BatchRowFitsIs
  <2>2. CASE batchRows[i] # None
    <3>1. new = [batchRows[i] EXCEPT !.status = "archived"]
      BY <2>2 DEF BB!Other
    <3>2. batchRows[i] \in BB!Row
      BY <1>2, <2>2, BatchRowsAre
    <3>3. new.status = "archived"
      BY <3>1, <3>2 DEF BB!Row
    <3>4. BB!Active(after) \subseteq BB!Active(batchRows) /\ i \notin BB!Active(after)
      BY <1>3, <3>3 DEF BB!Active
    <3>5. \A k \in BB!Active(after) : after[k].chars = batchRows[k].chars
      BY <1>3, <3>4 DEF BB!Active
    <3>6. BatchInBudget(batchRows)
      BY <1>0 DEF BatchInv, BatchWithin
    <3> QED BY <1>2, <3>4, <3>5, <3>6, BatchShrinks
  <2> QED BY <2>1, <2>2
<1>6. BatchWithin'
  <2>1. BatchInBudget(batchRows)'
    BY <1>0, <1>1, <1>5 DEF BatchInBudget, BB!Active
  <2> QED BY <1>0, <2>1 DEF BatchWithin
<1>7. BatchPlanned'
  <2>1. \A k \in BB!Inserts : batchRows[k] = None
    BY <1>0 DEF BatchInv, BatchPlanned
  <2>2. i \notin BB!Inserts
    <3>1. CASE batchRows[i] = None
      BY <3>1 DEF BB!Other, BB!Inserts
    <3>2. CASE batchRows[i] # None
      BY <2>1, <3>2
    <3> QED BY <3>1, <3>2
  <2>3. \A k \in BB!Inserts : k \in BudgetIds
    BY DEF BB!Inserts, BB!InBundle
  <2>4. \A k \in BB!Inserts : batchRows'[k] = None
    BY <1>0, <1>1, <1>3, <2>1, <2>2, <2>3
  <2> QED BY <1>0, <2>4, BatchSamePlan DEF BatchPlanned
<1> QED BY <1>4, <1>6, <1>7 DEF BatchInv

(* So every step keeps the invariant. *)
LEMMA BatchNextKeeps == ASSUME BatchBounds, BatchInv, [BB!Next]_(BB!vars) PROVE BatchInv'
<1>1. CASE BB!Preflight
  BY <1>1, BatchPreflightKeeps
<1>2. CASE BB!Apply
  BY <1>2, BatchApplyKeeps
<1>3. ASSUME NEW i \in BudgetIds, BB!Overwrite(i) PROVE BatchInv'
  BY <1>3, BatchOverwriteKeeps
<1>4. ASSUME NEW i \in BudgetIds, NEW new \in StoredStock, BB!Other(i, new) PROVE BatchInv'
  BY <1>4, BatchOtherKeeps DEF BatchBounds
<1>5. ASSUME NEW i \in BudgetIds, batchRows[i] # None, BB!Other(i, [batchRows[i] EXCEPT !.status = "archived"]) PROVE BatchInv'
  <2>1. batchRows[i] \in BB!Row
    BY <1>5, BatchRowsAre DEF BatchInv, BatchTyped
  <2>2. [batchRows[i] EXCEPT !.status = "archived"] \in BB!Row
    BY <2>1 DEF BB!Row
  <2> QED BY <1>5, <2>2, BatchOtherKeeps
<1>6. CASE UNCHANGED BB!vars
  <2>1. BatchTyped' /\ BatchWithin'
    BY <1>6 DEF BB!vars, BatchInv, BatchTyped, BatchWithin, BatchInBudget, BB!Active
  <2>2. BatchReached => BatchReached'
    BY <1>6, BatchSamePlan DEF BB!vars, BatchReached
  <2>3. BatchPlanned'
    BY <1>6, <2>2, BatchSamePlan DEF BB!vars, BatchInv, BatchPlanned
  <2> QED BY <2>1, <2>3 DEF BatchInv
<1> QED BY <1>1, <1>2, <1>3, <1>4, <1>5, <1>6 DEF BB!Next

\* What the batch left has the characters that were projected.

(* An import nobody wrote beside reaches the projected characters. *)
LEMMA BatchProjection == ASSUME BatchBounds, BatchInv PROVE BB!ProjectionOfChars
<1> SUFFICES ASSUME batchStage = "applied", batchTouched = {}, batchPolicy # "merge", BB!Overwrites \subseteq BB!Active(batchOld)
             PROVE  BB!Usage(batchRows).chars = BB!Projected(BB!Usage(batchOld), batchOld, batchBundle).chars
  BY DEF BB!ProjectionOfChars
<1>1. PICK I, O : I = BB!Inserts /\ O = BB!Overwrites
  OBVIOUS
<1>2. PICK A : A = BB!Active(batchOld) \ O
  OBVIOUS
<1>3. /\ I \subseteq BudgetIds /\ O \subseteq BudgetIds /\ A \subseteq BudgetIds /\ I \cap O = {} /\ A \cap O = {}
      /\ A \cap I = {} /\ A \cup O = BB!Active(batchOld)
  BY <1>1, <1>2 DEF BB!Inserts, BB!Overwrites, BB!InBundle, BB!Active
<1>4. IsFiniteSet(I) /\ IsFiniteSet(O) /\ IsFiniteSet(A)
  BY <1>3, FS_Subset DEF BatchBounds
<1>5. batchRows \in BB!Store /\ batchOld \in BB!Store
  BY DEF BatchInv, BatchTyped
<1>6. \A i \in BudgetIds : batchRows[i] = IF i \in I THEN BatchInserted(i) ELSE IF i \in O THEN BB!Written(i) ELSE batchOld[i]
  BY <1>1 DEF BatchInv, BatchPlanned, BatchReached
<1>7. \A i \in I \cup O : batchBundle[i] \in BatchEntry
  BY <1>1 DEF BB!Inserts, BB!Overwrites, BB!InBundle, BatchInv, BatchTyped
<1>8. \A i \in I : batchRows[i] = BatchInserted(i) /\ batchRows[i].status = "active" /\ batchRows[i].chars = batchBundle[i].chars /\ batchRows[i] # None
  <2> SUFFICES ASSUME NEW i \in I
               PROVE  batchRows[i] = BatchInserted(i) /\ batchRows[i].status = "active" /\ batchRows[i].chars = batchBundle[i].chars /\ batchRows[i] # None
    OBVIOUS
  <2>1. batchRows[i] = BatchInserted(i) /\ BatchInserted(i) \in BB!Row
    BY <1>1, <1>3, <1>6, BatchInsertedIs DEF BatchInv
  <2> QED BY <2>1 DEF BatchInserted, BatchBounds
<1>9. \A i \in O : batchRows[i].status = "active" /\ batchRows[i].chars = batchBundle[i].chars /\ batchRows[i] # None
  <2> SUFFICES ASSUME NEW i \in O
               PROVE  batchRows[i].status = "active" /\ batchRows[i].chars = batchBundle[i].chars /\ batchRows[i] # None
    OBVIOUS
  <2>1. batchRows[i] = BB!Written(i) /\ BB!Written(i) \in BB!Row
    BY <1>1, <1>3, <1>6, BatchWrittenIs DEF BatchInv
  <2>2. batchOld[i].status = "active"
    BY <1>1 DEF BB!Active
  <2> QED BY <2>1, <2>2 DEF BB!Written, BatchBounds
<1>10. \A i \in BudgetIds \ (I \cup O) : batchRows[i] = batchOld[i]
  BY <1>6
<1>11. BB!Active(batchRows) = A \cup (I \cup O)
  <2>1. \A i \in I \cup O : i \in BB!Active(batchRows)
    BY <1>3, <1>8, <1>9 DEF BB!Active
  <2>2. \A i \in BudgetIds \ (I \cup O) : i \in BB!Active(batchRows) <=> i \in BB!Active(batchOld)
    BY <1>10 DEF BB!Active
  <2>3. BB!Active(batchRows) \subseteq BudgetIds
    BY DEF BB!Active
  <2>4. \A i \in BudgetIds \ (I \cup O) : i \in BB!Active(batchOld) <=> i \in A
    BY <1>2
  <2> QED BY <1>3, <2>1, <2>2, <2>3, <2>4
<1>12. PICK N : N = I \cup O
  OBVIOUS
<1>13. \A i \in A : batchRows[i].chars = batchOld[i].chars /\ batchOld[i].chars \in Nat
  <2>1. \A i \in A : i \in BB!Active(batchOld) /\ i \in BudgetIds \ (I \cup O)
    BY <1>2, <1>3
  <2> QED BY <1>5, <1>10, <2>1, BatchRowsAre
<1>14. \A i \in N : batchRows[i].chars = batchBundle[i].chars /\ batchBundle[i].chars \in Nat
  BY <1>7, <1>8, <1>9, <1>12 DEF BatchEntry
<1>15. \A i \in O : batchOld[i].chars \in Nat
  BY <1>1, <1>5, BatchRowsAre
<1>16. IsFiniteSet(N) /\ A \cap N = {}
  BY <1>3, <1>4, <1>12, FS_Union
<1>17. /\ CharsIn(batchRows, A \cup N) = CharsIn(batchRows, A) + CharsIn(batchRows, N)
       /\ CharsIn(batchRows, A) \in Nat /\ CharsIn(batchRows, N) \in Nat
  <2>1. PICK U : U = A \cup N
    OBVIOUS
  <2>2. IsFiniteSet(U)
    BY <1>4, <1>16, <2>1, FS_Union
  <2>3. A \in SUBSET U /\ N \in SUBSET U /\ A \cap N = {}
    BY <1>16, <2>1
  <2>4. \A i \in U : batchRows[i].chars \in Nat
    BY <1>13, <1>14, <2>1
  <2> QED BY ONLY <2>2, <2>3, <2>4, CharsInUnion
<1>18. /\ CharsIn(batchOld, A \cup O) = CharsIn(batchOld, A) + CharsIn(batchOld, O)
       /\ CharsIn(batchOld, A) \in Nat /\ CharsIn(batchOld, O) \in Nat
  <2>1. PICK U : U = A \cup O
    OBVIOUS
  <2>2. IsFiniteSet(U)
    BY <1>4, <2>1, FS_Union
  <2>3. A \in SUBSET U /\ O \in SUBSET U /\ A \cap O = {}
    BY <1>3, <2>1
  <2>4. \A i \in U : batchOld[i].chars \in Nat
    BY <1>13, <1>15, <2>1
  <2> QED BY ONLY <2>2, <2>3, <2>4, CharsInUnion
<1>19. CharsIn(batchRows, A) = CharsIn(batchOld, A) /\ CharsIn(batchRows, N) = CharsIn(batchBundle, N)
  BY <1>4, <1>13, <1>14, <1>16, CharsInSame
<1>20. BB!Usage(batchRows).chars = CharsIn(batchOld, A) + CharsIn(batchBundle, N)
  <2>1. BB!Usage(batchRows).chars = CharsIn(batchRows, BB!Active(batchRows))
    BY BatchCharsIs DEF BB!Usage
  <2> QED BY <1>11, <1>12, <1>17, <1>19, <2>1
<1>21. BB!Projected(BB!Usage(batchOld), batchOld, batchBundle).chars = (CharsIn(batchOld, A) + CharsIn(batchOld, O)) + CharsIn(batchBundle, N) - CharsIn(batchOld, O)
  <2>1. BB!Usage(batchOld).chars = CharsIn(batchOld, A) + CharsIn(batchOld, O)
    <3>1. BB!Usage(batchOld).chars = CharsIn(batchOld, BB!Active(batchOld))
      BY BatchCharsIs DEF BB!Usage
    <3> QED BY <1>3, <1>18, <3>1
  <2>2. BB!Projected(BB!Usage(batchOld), batchOld, batchBundle).chars = BB!Usage(batchOld).chars + BB!Chars(batchBundle, N) - BB!Chars(batchOld, O)
    BY <1>1, <1>12 DEF BB!Projected, BB!Inserts, BB!Overwrites
  <2> QED BY <2>1, <2>2, BatchCharsIs
<1>22. PICK x, y, z : x = CharsIn(batchOld, A) /\ y = CharsIn(batchOld, O) /\ z = CharsIn(batchBundle, N)
  OBVIOUS
<1>23. x \in Nat /\ y \in Nat /\ z \in Nat
  BY <1>17, <1>18, <1>19, <1>22
<1>24. (x + y) + z - y = x + z
  BY <1>23
<1> QED BY <1>20, <1>21, <1>22, <1>24

(* What the run checks follows. *)
LEMMA BatchFit == ASSUME BatchBounds, BatchInv PROVE BB!TypeOK /\ BB!ImportFits
<1>1. BB!BudgetHolds
  BY BatchTotalIs DEF BatchInv, BatchWithin, BB!BudgetHolds
<1> QED BY <1>1, BatchProjection DEF BatchInv, BatchTyped, BB!TypeOK, BB!ImportFits

(* The constants are so. *)
LEMMA BatchBoundsHold == BatchBounds
BY AbsentAssumption, StockAssumption DEF BatchBounds, BatchEntry

(* A step of the whole is one of this part, if it is its turn. *)
LEMMA BatchTurn ==
  ASSUME [Next]_vars
  PROVE  part' = part /\ (part = "budget" => [BB!Next]_(BB!vars))
<1>1. part' = part
  BY DEF Next, vars, Only
<1>2. part = "budget" => [BB!Next]_(BB!vars)
  BY DEF Next, vars, Only, BB!vars, budgetVars
<1> QED BY <1>1, <1>2

(* So the invariant holds whenever this part moves. *)
LEMMA BatchAlways == Spec => [](part = "budget" => BatchInv)
<1>1. Init => (part = "budget" => BatchInv)
  BY BatchBoundsHold, BatchTypeInit DEF Init
<1>2. (part = "budget" => BatchInv) /\ [Next]_vars => (part = "budget" => BatchInv)'
  BY BatchBoundsHold, BatchNextKeeps, BatchTurn
<1> QED BY <1>1, <1>2, PTL DEF Spec

-----------------------------------------------------------------------------
(* Bundles with history: HY in Services. *)

(* What the proof takes of the constants. *)
HistoryBounds == MaxRev \in Nat \ {0} /\ MaxExports \in Nat /\ "snapshot" \in ExportModes /\ None \notin HY!Scope

(* The records of the calls. *)
HistoryExporting == [step : {"idle", "history"}, mode : ExportModes, entries : HY!Revs, history : HY!Histories,
              left : SUBSET Memories]
HistoryImporting == [step : {"idle", "bundle", "hash", "manifest", "topics", "verify", "files", "v1", "v3"},
              entries : HY!Revs, history : HY!Histories, left : SUBSET Memories, manifest : HY!Scope \cup {None}]

(* What was read together, and a history that has what the database's has. *)
HistoryReaches(entries, found) ==
  entries \in bundleMoments /\ \A m \in Memories : entries[m] \in bundleHistory[m] => entries[m] \in found[m]

(* An export has reached the revisions it has listed, *)
HistoryExportOK ==
  bundleExport.step = "history" /\ bundleExport.mode = "full_history" =>
    /\ bundleExport.entries \in bundleMoments
    /\ \A m \in Memories \ bundleExport.left : bundleExport.entries[m] \in bundleHistory[m] => bundleExport.entries[m] \in bundleExport.history[m]

(* a published one of a full history all; *)
HistoryLiveOK == bundleLive \in HY!Scope /\ bundleLive.mode = "full_history" => HistoryReaches(bundleLive.entries, bundleLive.history)

(* an import has a history only if it has it from there. *)
HistoryImportOK ==
  /\ import.step # "idle" => bundleLive \in HY!Scope
  /\ import.step \in {"bundle", "manifest", "topics"} => import.history = HY!NoHistory
  /\ import.step = "v3" => import.history # HY!NoHistory
  /\ import.history # HY!NoHistory => HistoryReaches(import.entries, import.history)

(* Revisions only grow: no moment is ahead of the entries there are. *)
HistoryPast == bundleRev \in bundleMoments /\ \A s \in bundleMoments : s \in HY!Revs /\ \A m \in Memories : s[m] <= bundleRev[m]

(* The inductive invariant. *)
HistoryInv == HY!TypeOK /\ HistoryPast /\ (bundleExport.step = "history" => bundleExports < MaxExports) /\ HistoryExportOK /\ HistoryLiveOK /\ HistoryImportOK

(* The types of the variables, one by one. *)
LEMMA HistoryTypesOf ==
  ASSUME HY!TypeOK
  PROVE  /\ bundleRev \in HY!Revs /\ bundleHistory \in HY!Histories /\ bundleExport \in HistoryExporting /\ import \in HistoryImporting
         /\ bundleLive \in HY!Scope \cup {None} /\ bundleExports \in 0..MaxExports
         /\ bundleExport.mode \in ExportModes /\ bundleExport.entries \in HY!Revs /\ bundleExport.history \in HY!Histories /\ bundleExport.left \subseteq Memories
         /\ import.entries \in HY!Revs /\ import.history \in HY!Histories /\ import.left \subseteq Memories
         /\ import.manifest \in HY!Scope \cup {None}
BY DEF HY!TypeOK, HistoryExporting, HistoryImporting

(* The types of the variables after a step. *)
LEMMA HistoryTypesNext ==
  ASSUME bundleRev' \in HY!Revs, bundleHistory' \in HY!Histories, bundleExport' \in HistoryExporting, import' \in HistoryImporting,
         bundleLive' \in HY!Scope \cup {None}, bundleExports' \in 0..MaxExports
  PROVE  HY!TypeOK'
BY DEF HY!TypeOK, HistoryExporting, HistoryImporting

(* What is empty, and calls that are over. *)
LEMMA HistoryRests ==
  ASSUME HistoryBounds
  PROVE  /\ HY!NoRevs \in HY!Revs /\ HY!NoHistory \in HY!Histories
         /\ HY!NoExport \in HistoryExporting /\ HY!NoExport.step = "idle"
         /\ HY!NoImport \in HistoryImporting /\ HY!NoImport.step = "idle" /\ HY!NoImport.history = HY!NoHistory
<1>1. HY!NoRevs \in HY!Revs /\ HY!NoHistory \in HY!Histories
  BY DEF HY!NoRevs, HY!Revs, HY!NoHistory, HY!Histories, HistoryBounds
<1>2. HY!NoExport \in HistoryExporting /\ HY!NoExport.step = "idle"
  BY <1>1 DEF HY!NoExport, HistoryExporting, HistoryBounds
<1>3. HY!NoImport \in HistoryImporting /\ HY!NoImport.step = "idle" /\ HY!NoImport.history = HY!NoHistory
  BY <1>1 DEF HY!NoImport, HistoryImporting
<1> QED BY <1>1, <1>2, <1>3

(* It holds at first. *)
LEMMA HistoryTypeInit == ASSUME HistoryBounds PROVE HY!Init => HistoryInv
<1> SUFFICES ASSUME HY!Init PROVE HistoryInv
  OBVIOUS
<1>1. bundleRev \in HY!Revs /\ bundleHistory \in HY!Histories
  BY DEF HY!Init, HY!Revs, HY!Histories, HistoryBounds
<1>2. HY!TypeOK
  BY <1>1, HistoryRests DEF HY!Init, HY!TypeOK, HistoryExporting, HistoryImporting, HistoryBounds, HY!Scope
<1>3. HistoryPast
  <2>1. \A m \in Memories : bundleRev[m] = 1
    BY DEF HY!Init
  <2> QED BY <1>1, <2>1 DEF HY!Init, HistoryPast
<1>4. HistoryExportOK /\ HistoryLiveOK /\ HistoryImportOK
  BY HistoryRests DEF HY!Init, HistoryExportOK, HistoryLiveOK, HistoryImportOK, HistoryBounds
<1> QED BY <1>2, <1>3, <1>4, HistoryRests DEF HY!Init, HistoryInv

(* A row is written, its revision recorded or not. *)
LEMMA HistoryWriteKeeps ==
  ASSUME HistoryBounds, HistoryInv, NEW m \in Memories, NEW recorded \in BOOLEAN, HY!Write(m, recorded) PROVE HistoryInv'
<1>0. /\ bundleRev \in HY!Revs /\ bundleHistory \in HY!Histories /\ bundleExport.entries \in HY!Revs /\ import.entries \in HY!Revs
      /\ bundleRev[m] \in 0..MaxRev /\ bundleHistory[m] \subseteq 1..MaxRev
  BY HistoryTypesOf DEF HistoryInv, HY!Revs, HY!Histories
<1> PICK n : n = bundleRev[m] + 1
  OBVIOUS
<1>1. n \in 1..MaxRev /\ n \in 0..MaxRev
  BY <1>0 DEF HY!Write, HistoryBounds
<1>2. bundleRev' = [bundleRev EXCEPT ![m] = n] /\ bundleMoments' = bundleMoments \cup {bundleRev'} /\ UNCHANGED <<bundleExport, bundleLive, bundleExports, import>>
  BY DEF HY!Write
<1> PICK h : h = IF recorded THEN bundleHistory[m] \cup {n} ELSE bundleHistory[m]
  OBVIOUS
<1>3. h \subseteq 1..MaxRev /\ bundleHistory[m] \subseteq h /\ h \subseteq bundleHistory[m] \cup {n}
  BY <1>0, <1>1
<1>4. bundleHistory' \in HY!Histories /\ \A k \in Memories : bundleHistory'[k] = IF k = m THEN h ELSE bundleHistory[k]
  <2>1. CASE recorded
    <3>1. bundleHistory' = [bundleHistory EXCEPT ![m] = h]
      BY <2>1 DEF HY!Write
    <3> QED BY <1>0, <1>3, <3>1 DEF HY!Histories
  <2>2. CASE ~recorded
    BY <1>0, <2>2 DEF HY!Write
  <2> QED BY <2>1, <2>2
<1>5. bundleRev' \in HY!Revs /\ \A k \in Memories : bundleRev'[k] = IF k = m THEN n ELSE bundleRev[k]
  BY <1>0, <1>1, <1>2 DEF HY!Revs
<1>6. \A k \in Memories : bundleRev[k] \in Nat /\ bundleRev[k] <= bundleRev'[k]
  <2> TAKE k \in Memories
  <2>1. bundleRev[k] \in Nat
    BY <1>0 DEF HY!Revs
  <2>2. CASE k = m
    BY <1>5, <2>1, <2>2
  <2>3. CASE k # m
    BY <1>5, <2>1, <2>3
  <2> QED BY <2>1, <2>2, <2>3
<1>7. HistoryPast'
  <2> SUFFICES ASSUME NEW s \in bundleMoments' PROVE s \in HY!Revs /\ \A k \in Memories : s[k] <= bundleRev'[k]
    BY <1>2 DEF HistoryPast
  <2>1. CASE s \in bundleMoments
    <3>1. s \in HY!Revs /\ \A k \in Memories : s[k] <= bundleRev[k]
      BY <2>1 DEF HistoryInv, HistoryPast
    <3>2. \A k \in Memories : s[k] \in Nat /\ bundleRev'[k] \in Nat
      BY <1>5, <3>1 DEF HY!Revs
    <3> QED BY <1>6, <3>1, <3>2
  <2>2. CASE s = bundleRev'
    <3>1. \A k \in Memories : bundleRev'[k] \in Nat
      BY <1>5 DEF HY!Revs
    <3> QED BY <1>5, <2>2, <3>1
  <2> QED BY <1>2, <2>1, <2>2
<1>8. ASSUME NEW s \in bundleMoments, NEW k \in Memories, s[k] \in bundleHistory'[k] PROVE s[k] \in bundleHistory[k]
  <2>1. s \in HY!Revs /\ s[k] <= bundleRev[k]
    BY DEF HistoryInv, HistoryPast
  <2>2. s[k] \in Nat
    BY <2>1 DEF HY!Revs
  <2>3. k = m => s[k] # n
    BY <1>0, <2>1, <2>2
  <2> QED BY <1>3, <1>4, <1>8, <2>3
<1>9. HY!TypeOK'
  BY <1>2, <1>4, <1>5, HistoryTypesNext, HistoryTypesOf DEF HistoryInv
<1>10. HistoryExportOK'
  BY <1>2, <1>8 DEF HistoryInv, HistoryExportOK
<1>11. HistoryLiveOK'
  BY <1>2, <1>8 DEF HistoryInv, HistoryLiveOK, HistoryReaches
<1>12. HistoryImportOK'
  BY <1>2, <1>8 DEF HistoryInv, HistoryImportOK, HistoryReaches
<1> QED BY <1>2, <1>7, <1>9, <1>10, <1>11, <1>12 DEF HistoryInv

(* The reads of an export. *)
LEMMA HistoryExportKeeps ==
  ASSUME HistoryBounds, HistoryInv, (\E mode \in ExportModes : HY!ListEntries(mode)) \/ \E m \in Memories : HY!ListRevisions(m)
  PROVE  HistoryInv'
<1>0. /\ bundleRev \in HY!Revs /\ bundleHistory \in HY!Histories /\ bundleExport \in HistoryExporting /\ import \in HistoryImporting
      /\ bundleLive \in HY!Scope \cup {None} /\ bundleExports \in 0..MaxExports /\ UNCHANGED <<bundleRev, bundleHistory, import, bundleMoments, bundleLive, bundleExports>>
  BY HistoryTypesOf DEF HistoryInv, HY!ListEntries, HY!ListRevisions, HY!UnchangedByExport
<1>1. bundleExport' \in HistoryExporting /\ bundleExports < MaxExports /\ HistoryExportOK'
  <2>1. ASSUME NEW mode \in ExportModes, HY!ListEntries(mode) PROVE bundleExport' \in HistoryExporting /\ bundleExports < MaxExports /\ HistoryExportOK'
    <3> PICK l \in SUBSET Memories : l = IF mode = "full_history" THEN Memories ELSE {}
      OBVIOUS
    <3> PICK k : k = [step |-> "history", mode |-> mode, entries |-> bundleRev, history |-> HY!NoHistory, left |-> l]
      OBVIOUS
    <3>1. k \in HistoryExporting
      BY <1>0, HistoryRests DEF HistoryExporting
    <3>2. bundleExport' = k
      BY <2>1 DEF HY!ListEntries
    <3>3. bundleRev \in bundleMoments
      BY DEF HistoryInv, HistoryPast
    <3>4. bundleExports < MaxExports
      BY <2>1 DEF HY!ListEntries
    <3> QED BY <1>0, <3>1, <3>2, <3>3, <3>4 DEF HistoryExportOK
  <2>2. ASSUME NEW m \in Memories, HY!ListRevisions(m) PROVE bundleExport' \in HistoryExporting /\ bundleExports < MaxExports /\ HistoryExportOK'
    <3>0. bundleExport.step = "history" /\ bundleExport.history \in HY!Histories /\ bundleExport.left \subseteq Memories
      BY <2>2, HistoryTypesOf DEF HistoryInv, HY!ListRevisions
    <3> PICK h : h = [bundleExport.history EXCEPT ![m] = bundleHistory[m]]
      OBVIOUS
    <3>1. h \in HY!Histories /\ \A k \in Memories : h[k] = IF k = m THEN bundleHistory[k] ELSE bundleExport.history[k]
      BY <1>0, <3>0 DEF HY!Histories
    <3> PICK l : l = bundleExport.left \ {m}
      OBVIOUS
    <3>2. bundleExport' = [bundleExport EXCEPT !.left = l, !.history = h]
      BY <2>2 DEF HY!ListRevisions
    <3> PICK k : k = [bundleExport EXCEPT !.left = l, !.history = h]
      OBVIOUS
    <3>3. k \in HistoryExporting /\ k.step = "history" /\ k.mode = bundleExport.mode /\ k.entries = bundleExport.entries
          /\ k.history = h /\ k.left = l
      BY <1>0, <3>0, <3>1 DEF HistoryExporting
    <3>4. bundleExport' = k
      BY <3>2
    <3>5. HistoryExportOK'
      BY <1>0, <3>0, <3>1, <3>3, <3>4 DEF HistoryInv, HistoryExportOK
    <3> QED BY <3>0, <3>3, <3>4, <3>5 DEF HistoryInv
  <2> QED BY <2>1, <2>2
<1>2. HY!TypeOK'
  BY <1>0, <1>1, HistoryTypesNext
<1>3. HistoryPast' /\ HistoryLiveOK' /\ HistoryImportOK'
  BY <1>0 DEF HistoryInv, HistoryPast, HistoryLiveOK, HistoryImportOK, HistoryReaches
<1> QED BY <1>0, <1>1, <1>2, <1>3 DEF HistoryInv

(* An export is published. *)
LEMMA HistoryPublishKeeps == ASSUME HistoryBounds, HistoryInv, HY!Publish PROVE HistoryInv'
<1>0. /\ bundleRev \in HY!Revs /\ bundleHistory \in HY!Histories /\ import \in HistoryImporting /\ bundleExport \in HistoryExporting
      /\ bundleExport.mode \in ExportModes /\ bundleExport.entries \in HY!Revs /\ bundleExport.history \in HY!Histories
      /\ UNCHANGED <<bundleRev, bundleHistory, import, bundleMoments>> /\ bundleExport.step = "history" /\ bundleExport.left = {}
  BY HistoryTypesOf DEF HistoryInv, HY!Publish, HY!UnchangedByExport
<1> PICK k : k = [mode |-> bundleExport.mode, entries |-> bundleExport.entries, history |-> bundleExport.history]
  OBVIOUS
<1>1. k \in HY!Scope /\ k.mode = bundleExport.mode /\ k.entries = bundleExport.entries /\ k.history = bundleExport.history
  BY <1>0 DEF HY!Scope
<1>2. bundleLive' = k /\ bundleExport' = HY!NoExport /\ bundleExports' = bundleExports + 1
  BY DEF HY!Publish
<1>3. bundleExports' \in 0..MaxExports
  BY <1>0, <1>2 DEF HistoryInv, HY!TypeOK, HistoryBounds
<1>4. HY!TypeOK'
  BY <1>0, <1>1, <1>2, <1>3, HistoryRests, HistoryTypesNext
<1>5. HistoryExportOK' /\ HistoryLiveOK'
  BY <1>0, <1>1, <1>2, HistoryRests DEF HistoryInv, HistoryExportOK, HistoryLiveOK, HistoryReaches
<1>6. HistoryPast' /\ HistoryImportOK'
  BY <1>0, <1>1, <1>2 DEF HistoryInv, HistoryPast, HistoryImportOK, HistoryReaches
<1> QED BY <1>2, <1>4, <1>5, <1>6, HistoryRests DEF HistoryInv

(* A step of an import that leaves the rows and the bundles. *)
LEMMA HistoryImportMoves ==
  ASSUME HistoryBounds, HistoryInv, HY!UnchangedByImport, NEW k \in HistoryImporting, import' = k, k.step # "idle" => bundleLive \in HY!Scope,
         k.step \in {"bundle", "manifest", "topics"} => k.history = HY!NoHistory,
         k.step = "v3" => k.history # HY!NoHistory,
         k.history # HY!NoHistory => HistoryReaches(k.entries, k.history)
  PROVE  HistoryInv'
<1>0. UNCHANGED <<bundleRev, bundleHistory, bundleExport, bundleLive, bundleExports, bundleMoments>>
  BY DEF HY!UnchangedByImport
<1>1. HY!TypeOK'
  BY <1>0, HistoryTypesOf, HistoryTypesNext DEF HistoryInv
<1>2. HistoryPast' /\ HistoryExportOK' /\ HistoryLiveOK'
  BY <1>0 DEF HistoryInv, HistoryPast, HistoryExportOK, HistoryLiveOK, HistoryReaches
<1>3. HistoryImportOK'
  BY <1>0 DEF HistoryImportOK, HistoryReaches
<1> QED BY <1>0, <1>1, <1>2, <1>3 DEF HistoryInv

(* A step that gives an import up, or changes where it is and nothing it has. *)
LEMMA HistoryGivesUp == ASSUME HistoryBounds, HistoryInv, HY!UnchangedByImport, import' = HY!NoImport PROVE HistoryInv'
BY HistoryRests, HistoryImportMoves

(* A step that changes the place of the import only. *)
LEMMA HistoryGoesTo ==
  ASSUME HistoryBounds, HistoryInv, HY!UnchangedByImport, bundleLive \in HY!Scope,
         NEW s \in {"bundle", "hash", "manifest", "topics", "verify", "files", "v1", "v3"},
         NEW l \in SUBSET Memories, NEW f \in HY!Scope \cup {None},
         \/ import' = [import EXCEPT !.step = s]
         \/ import' = [import EXCEPT !.step = s, !.left = l]
         \/ import' = [import EXCEPT !.step = s, !.manifest = f],
         s \in {"bundle", "manifest", "topics"} => import.history = HY!NoHistory,
         s = "v3" => import.history # HY!NoHistory
  PROVE  HistoryInv'
<1>1. import \in HistoryImporting
  BY HistoryTypesOf DEF HistoryInv
<1> PICK k : k = import'
  OBVIOUS
<1>2. CASE k = [import EXCEPT !.step = s]
  <2>1. k \in HistoryImporting /\ k.step = s /\ k.entries = import.entries /\ k.history = import.history
    BY <1>1, <1>2 DEF HistoryImporting
  <2> QED BY <2>1, HistoryImportMoves DEF HistoryInv, HistoryImportOK
<1>3. CASE k = [import EXCEPT !.step = s, !.left = l]
  <2>1. k \in HistoryImporting /\ k.step = s /\ k.entries = import.entries /\ k.history = import.history
    BY <1>1, <1>3 DEF HistoryImporting
  <2> QED BY <2>1, HistoryImportMoves DEF HistoryInv, HistoryImportOK
<1>4. CASE k = [import EXCEPT !.step = s, !.manifest = f]
  <2>1. k \in HistoryImporting /\ k.step = s /\ k.entries = import.entries /\ k.history = import.history
    BY <1>1, <1>4 DEF HistoryImporting
  <2> QED BY <2>1, HistoryImportMoves DEF HistoryInv, HistoryImportOK
<1> QED BY <1>2, <1>3, <1>4

(* The steps that only change the place of the import. *)
LEMMA HistoryDetectKeeps == ASSUME HistoryBounds, HistoryInv, HY!Detect \/ HY!ReadManifest \/ HY!EndTopics \/ HY!StartVerify \/ HY!EndImport PROVE HistoryInv'
<1>0. /\ HY!UnchangedByImport /\ HY!TypeOK /\ Memories \in SUBSET Memories /\ None \in HY!Scope \cup {None}
      /\ bundleLive \in HY!Scope \cup {None}
  BY HistoryTypesOf DEF HistoryInv, HY!Detect, HY!ReadManifest, HY!EndTopics, HY!StartVerify, HY!EndImport, HY!Goes
<1>1. CASE HY!Detect
  <2>1. bundleLive \in HY!Scope /\ import.history = HY!NoHistory
    BY <1>0, <1>1, HistoryRests DEF HY!Detect
  <2>2. import' = [import EXCEPT !.step = "bundle"] \/ import' = [import EXCEPT !.step = "manifest"]
    BY <1>1 DEF HY!Detect, HY!Goes
  <2> QED BY <1>0, <2>1, <2>2, HistoryGoesTo
<1>2. CASE HY!ReadManifest
  <2>1. bundleLive \in HY!Scope /\ import.history = HY!NoHistory
    BY <1>2 DEF HY!ReadManifest, HistoryInv, HistoryImportOK
  <2>2. import' = [import EXCEPT !.step = "topics", !.left = Memories]
    BY <1>2 DEF HY!ReadManifest
  <2> QED BY <1>0, <2>1, <2>2, HistoryGoesTo
<1>3. CASE HY!EndTopics
  <2>1. bundleLive \in HY!Scope /\ import' = [import EXCEPT !.step = "verify"]
    BY <1>3 DEF HY!EndTopics, HY!Goes, HistoryInv, HistoryImportOK
  <2> QED BY <1>0, <2>1, HistoryGoesTo
<1>4. CASE HY!StartVerify
  <2>1. bundleLive \in HY!Scope /\ import' = [import EXCEPT !.step = "files", !.manifest = bundleLive]
    BY <1>4 DEF HY!StartVerify, HistoryInv, HistoryImportOK
  <2> QED BY <1>0, <2>1, HistoryGoesTo
<1>5. CASE HY!EndImport
  BY <1>0, <1>5, HistoryGivesUp DEF HY!EndImport
<1> QED BY <1>1, <1>2, <1>3, <1>4, <1>5

(* The import reads a bundle and checks it against its hash. *)
LEMMA HistoryBundleKeeps == ASSUME HistoryBounds, HistoryInv, HY!ReadBundle \/ HY!CheckHash \/ HY!VerifyManifest PROVE HistoryInv'
<1>0. /\ HY!UnchangedByImport /\ HY!TypeOK /\ import \in HistoryImporting /\ Memories \in SUBSET Memories
      /\ None \in HY!Scope \cup {None} /\ bundleLive \in HY!Scope
  BY HistoryTypesOf DEF HistoryInv, HY!ReadBundle, HY!CheckHash, HY!VerifyManifest, HY!Goes, HistoryImportOK
<1>1. CASE import' = HY!NoImport
  BY <1>0, <1>1, HistoryGivesUp
<1>2. CASE HY!ReadBundle /\ bundleLive.mode = "full_history"
  <2> PICK k : k = [import EXCEPT !.step = "hash", !.entries = bundleLive.entries, !.history = bundleLive.history]
    OBVIOUS
  <2>0. bundleLive.entries \in HY!Revs /\ bundleLive.history \in HY!Histories
    BY <1>0 DEF HY!Scope
  <2>1. k \in HistoryImporting /\ k.step = "hash" /\ k.entries = bundleLive.entries /\ k.history = bundleLive.history
    BY <1>0, <2>0 DEF HistoryImporting
  <2>2. import' = k
    BY <1>2 DEF HY!ReadBundle
  <2>3. HistoryReaches(k.entries, k.history)
    BY <1>0, <1>2, <2>1 DEF HistoryInv, HistoryLiveOK
  <2> QED BY <1>0, <2>1, <2>2, <2>3, HistoryImportMoves
<1>3. CASE HY!CheckHash /\ HY!HashMatches
  <2>1. import' = [import EXCEPT !.step = "verify"]
    BY <1>3 DEF HY!CheckHash, HY!Goes
  <2> QED BY <1>0, <2>1, HistoryGoesTo
<1>4. CASE HY!VerifyManifest /\ bundleLive = import.manifest
  <2> PICK s \in {"v1", "v3"} : s = IF import.history = HY!NoHistory THEN "v1" ELSE "v3"
    OBVIOUS
  <2>1. import' = [import EXCEPT !.step = s, !.manifest = None]
    BY <1>4 DEF HY!VerifyManifest
  <2>2. s = "v3" => import.history # HY!NoHistory
    OBVIOUS
  <2> QED BY <1>0, <2>1, <2>2, HistoryGoesTo
<1> QED BY <1>1, <1>2, <1>3, <1>4 DEF HY!ReadBundle, HY!CheckHash, HY!VerifyManifest

(* The import reads the files of a topic. *)
LEMMA HistoryTopicKeeps == ASSUME HistoryBounds, HistoryInv, NEW m \in Memories, HY!ReadTopic(m) PROVE HistoryInv'
<1>0. /\ import \in HistoryImporting /\ import.entries \in HY!Revs /\ import.history = HY!NoHistory /\ bundleLive \in HY!Scope
      /\ import.left \in SUBSET Memories /\ import.step = "topics" /\ HY!UnchangedByImport
  BY HistoryTypesOf DEF HistoryInv, HY!ReadTopic, HistoryImportOK
<1> PICK e : e = [import.entries EXCEPT ![m] = bundleLive.entries[m]]
  OBVIOUS
<1>1. e \in HY!Revs
  BY <1>0 DEF HY!Revs, HY!Scope
<1> PICK l \in SUBSET Memories : l = import.left \ {m}
  BY <1>0
<1> PICK k : k = [import EXCEPT !.left = l, !.entries = e]
  OBVIOUS
<1>2. k \in HistoryImporting /\ k.step = "topics" /\ k.history = HY!NoHistory
  BY <1>0, <1>1 DEF HistoryImporting
<1>3. import' = k
  BY DEF HY!ReadTopic
<1> QED BY <1>0, <1>2, <1>3, HistoryImportMoves

(* So every step keeps the invariant. *)
LEMMA HistoryNextKeeps == ASSUME HistoryBounds, HistoryInv, [HY!Next]_(HY!vars) PROVE HistoryInv'
<1>1. ASSUME NEW m \in Memories, (\E recorded \in BOOLEAN : HY!Write(m, recorded)) \/ HY!ReadTopic(m) PROVE HistoryInv'
  BY <1>1, HistoryWriteKeeps, HistoryTopicKeeps
<1>2. CASE (\E mode \in ExportModes : HY!ListEntries(mode)) \/ \E m \in Memories : HY!ListRevisions(m)
  BY <1>2, HistoryExportKeeps
<1>3. CASE UNCHANGED HY!vars
  <2>1. HY!TypeOK'
    BY <1>3 DEF HY!vars, HistoryInv, HY!TypeOK
  <2> QED BY <1>3, <2>1 DEF HY!vars, HistoryInv, HistoryPast, HistoryExportOK, HistoryLiveOK, HistoryImportOK, HistoryReaches
<1> QED BY <1>1, <1>2, <1>3, HistoryPublishKeeps, HistoryDetectKeeps, HistoryBundleKeeps DEF HY!Next

(* What the run checks follows. *)
LEMMA HistoryHold == ASSUME HistoryInv PROVE HY!BundlesHold
BY DEF HistoryInv, HistoryImportOK, HistoryReaches, HY!BundlesHold, HY!EntriesWereAtOnce, HY!HistoryReachesEntry

(* The constants are so. *)
LEMMA HistoryBoundsHold == HistoryBounds
BY AbsentAssumption, BoundsAssumption, StockAssumption DEF HistoryBounds

(* A step of the whole is one of this part, if it is its turn. *)
LEMMA HistoryTurn ==
  ASSUME [Next]_vars
  PROVE  part' = part /\ (part = "history" => [HY!Next]_(HY!vars))
<1>1. part' = part
  BY DEF Next, vars, Only
<1>2. part = "history" => [HY!Next]_(HY!vars)
  BY DEF Next, vars, Only, HY!vars, historyVars
<1> QED BY <1>1, <1>2

(* So the invariant holds whenever this part moves. *)
LEMMA HistoryAlways == Spec => [](part = "history" => HistoryInv)
<1>1. Init => (part = "history" => HistoryInv)
  BY HistoryBoundsHold, HistoryTypeInit DEF Init
<1>2. (part = "history" => HistoryInv) /\ [Next]_vars => (part = "history" => HistoryInv)'
  BY HistoryBoundsHold, HistoryNextKeeps, HistoryTurn
<1> QED BY <1>1, <1>2, PTL DEF Spec

-----------------------------------------------------------------------------
(* atomic-publisher.ts, backup.ts: with one publisher at a time a whole       *)
(* export is on the disk from the first publication on, wherever the          *)
(* publisher dies; and restores alone with the database lose no commit, for   *)
(* any processes, backups and exports.                                        *)
THEOREM FilesAlwaysSurvive == ASSUME PublishOnePublisher PROVE Spec => []FilesSurvive
<1>1. (part = "publication" => PublishSurvives) /\ (part = "backups" => BackupInv) => FilesSurvive
  BY PublishSurvivesHolds DEF FilesSurvive, BackupInv
<1> QED BY <1>1, PublishSurvivesAlways, BackupAlways, PTL

(* cli/commands/backup.ts, backup.ts: with any number of processes that back   *)
(* up, prune and restore beside a server that commits, restores that were      *)
(* alone with the database lost no commit, wherever they were cut short.       *)
THEOREM RestoresKeepCommits == Spec => [](part = "backups" => BA!CommitsSurvive)
<1>1. (part = "backups" => BackupInv) => (part = "backups" => BA!CommitsSurvive)
  BY DEF BackupInv
<1> QED BY <1>1, BackupAlways, PTL
=============================================================================
