-------------------------- MODULE DerivationJobsProofs --------------------------
(***************************************************************************)
(* Theorems about DerivationJobs, for every set of workers, clients, keys  *)
(* and outputs, and every bound.                                           *)
(*                                                                         *)
(* The safety properties are not inductive: the statements that settle a   *)
(* job ask only whether it is running, never who runs it, so what a late   *)
(* worker may still write depends on the attempt it holds.  Claimed says   *)
(* what a worker may rely on at each statement, Recorded what it has put   *)
(* on record for its own attempt.                                          *)
(***************************************************************************)
EXTENDS DerivationJobs, FiniteSetTheorems, TLAPS

\* The statements between claim and the end of the job.
Busy == {"reject", "execute", "insert", "work", "finish", "outputs", "settle", "catch"}

\* Rows are numbered without gaps, so an insert never meets a row.
RowsInOrder == \E n \in 0 .. MaxJobs : Existing = 1 .. n

\* A worker past the listing names a job that exists, and from the claim on it
\* holds one of the attempts counted in the row.
Claimed(u) ==
    /\ u.pc \in {"sweep", "list", "down"} => u.job = None
    /\ u.pc \in {"resweep", "claim"} \cup Busy => u.job \in Existing
    /\ u.pc \in Busy => u.mine \in 1 .. jobs[u.job].attempts
    /\ u.pc \in {"finish", "outputs", "settle"} => u.outcome # "none"

ClaimsHeld == \A w \in Workers : Claimed(worker[w])

\* A client that is about to insert knows what it asks for, and a client that
\* was told of a job was told of one for its key and digest.
Asked(c) ==
    /\ c.pc = "insert" => c.key \in Keys /\ c.digest \in Digests
    /\ c.job # None =>
        /\ c.job \in Existing
        /\ jobs[c.job].key = c.key /\ jobs[c.job].digest = c.digest

ClientsTold == \A c \in Clients : Asked(client[c])

\* The UNIQUE index.
OneRowPerKey == \A i, j \in Existing : jobs[i].key = jobs[j].key => i = j

IInv ==
    /\ TypeOK /\ RunningIffLeased /\ RowsInOrder /\ OneRowPerKey
    /\ ClaimsHeld /\ ClientsTold

--------------------------------------------------------------------------------
(* Shapes *)

\* There is room for one attempt at least.
LEMMA AttemptsBound == MaxAttempts \in Nat \ {0}
BY BoundsAssumption DEF MaxAttempts

\* None is no job, no number and no worker.
LEMMA NoneIsOutside ==
    /\ None \notin JobIds /\ None \notin Workers /\ None \notin Job
    /\ None \notin Keys /\ None \notin Digests /\ None \notin Nat
BY BoundsAssumption, NoneIsNoRow DEF JobIds

\* A worker that looks for a job, and one that is down, are workers.
LEMMA LookingType ==
    Looking \in Worker /\ Down \in Worker /\ Claimed(Looking) /\ Claimed(Down)
BY AttemptsBound DEF Looking, Down, Worker, WorkerPCs, Claimed, Busy

\* A reaped row is a row; it keeps its key, its digest and its attempts, and is
\* leased exactly if it is running.
LEMMA ReapedRow ==
    ASSUME NEW row \in Job \cup {None},
           row # None => (row.state = "running") = (row.owner # None)
                         /\ (row.state = "running") = (row.lease # "none")
    PROVE  /\ Reaped(row) \in Job \cup {None} /\ (Reaped(row) = None) = (row = None)
           /\ row # None =>
                /\ Reaped(row).key = row.key /\ Reaped(row).digest = row.digest
                /\ Reaped(row).attempts = row.attempts /\ Reaped(row).retry = row.retry
                /\ (Reaped(row).state = "running") = (Reaped(row).owner # None)
                /\ (Reaped(row).state = "running") = (Reaped(row).lease # "none")
                /\ row.state # "running" => Reaped(row).state = row.state
BY NoneIsOutside DEF Reaped, Job, States, Final

\* A finalized row is a row without a lease.
LEMMA FinalizedRow ==
    ASSUME NEW row \in Job, NEW final \in {"succeeded", "failed"}, NEW retry \in {"never", "pending"}
    PROVE  /\ Finalized(row, final, retry) \in Job
           /\ Finalized(row, final, retry).state = final
           /\ Finalized(row, final, retry).retry = retry
           /\ Finalized(row, final, retry).owner = None
           /\ Finalized(row, final, retry).lease = "none"
           /\ Finalized(row, final, retry).key = row.key
           /\ Finalized(row, final, retry).digest = row.digest
           /\ Finalized(row, final, retry).attempts = row.attempts
BY DEF Finalized, Job, States, Final

--------------------------------------------------------------------------------
(* What a step does to the table of jobs *)

\* No job goes away or becomes another, and the attempts of none decrease.
Grows ==
    \A j \in Existing :
        /\ jobs'[j] # None /\ jobs'[j].attempts >= jobs[j].attempts
        /\ jobs'[j].key = jobs[j].key /\ jobs'[j].digest = jobs[j].digest

\* The table is in order after the step.
TableInv ==
    /\ jobs \in [JobIds -> Job \cup {None}]
    /\ RunningIffLeased /\ RowsInOrder /\ OneRowPerKey

\* A job has a row with all its columns.
LEMMA RowType ==
    ASSUME TypeOK, NEW j \in Existing
    PROVE  j \in JobIds /\ jobs[j] \in Job /\ jobs[j] # None
BY DEF TypeOK, Existing

\* A step that leaves the table alone leaves it in order.
LEMMA TableKept == ASSUME IInv, UNCHANGED jobs PROVE TableInv' /\ Grows
<1>1. \A j \in Existing : jobs[j].attempts \in Nat
  BY RowType, AttemptsBound DEF IInv, Job
<1> QED BY <1>1 DEF IInv, TypeOK, RunningIffLeased, RowsInOrder, OneRowPerKey, Existing, TableInv, Grows

\* So does a step that replaces one row by another that is leased if it runs.
LEMMA RowWritten ==
    ASSUME IInv, NEW j \in Existing, NEW row \in Job, jobs' = [jobs EXCEPT ![j] = row],
           (row.state = "running") = (row.owner # None),
           (row.state = "running") = (row.lease # "none"), row.attempts >= jobs[j].attempts,
           row.key = jobs[j].key, row.digest = jobs[j].digest
    PROVE  TableInv' /\ Grows
<1>1. jobs' \in [JobIds -> Job \cup {None}]
  BY DEF IInv, TypeOK
<1>2. \A i \in JobIds : jobs'[i] = IF i = j THEN row ELSE jobs[i]
  BY DEF IInv, TypeOK
<1>3. j \in JobIds /\ row # None /\ jobs[j] # None
  BY NoneIsOutside DEF Existing
<1>4. Existing' = Existing
  BY <1>2, <1>3 DEF Existing
<1>5. RunningIffLeased'
  BY <1>2, <1>4, RowType DEF IInv, RunningIffLeased
<1>6. RowsInOrder'
  BY <1>4 DEF IInv, RowsInOrder
<1>7. Grows
  <2>1. \A i \in Existing : jobs[i].attempts \in Nat
    BY RowType, AttemptsBound DEF IInv, Job
  <2> QED BY <1>2, <1>3, <2>1, RowType DEF Grows, IInv
<1>8. OneRowPerKey'
  BY <1>2, <1>4 DEF IInv, OneRowPerKey
<1> QED BY <1>1, <1>5, <1>6, <1>7, <1>8 DEF TableInv

\* Reaping the expired leases leaves the table in order.
LEMMA TableReaped ==
    ASSUME IInv, jobs' = [j \in JobIds |-> Reaped(jobs[j])]
    PROVE  TableInv' /\ Grows
<1>1. \A j \in JobIds : jobs'[j] = Reaped(jobs[j]) /\ jobs[j] \in Job \cup {None}
  BY DEF IInv, TypeOK
<1>2. \A j \in JobIds :
        jobs[j] # None => (jobs[j].state = "running") = (jobs[j].owner # None)
                          /\ (jobs[j].state = "running") = (jobs[j].lease # "none")
  BY DEF IInv, RunningIffLeased, Existing
<1>3. \A j \in JobIds : jobs'[j] \in Job \cup {None} /\ (jobs'[j] = None) = (jobs[j] = None)
  BY <1>1, <1>2, ReapedRow
<1>4. Existing' = Existing
  BY <1>3 DEF Existing
<1>5. RunningIffLeased'
  BY <1>1, <1>2, <1>4, ReapedRow DEF RunningIffLeased, Existing
<1>6. Grows
  <2>1. \A j \in Existing : jobs[j].attempts \in Nat
    BY RowType, AttemptsBound DEF IInv, Job
  <2>2. \A j \in Existing :
            /\ jobs'[j] # None /\ jobs'[j].attempts = jobs[j].attempts
            /\ jobs'[j].key = jobs[j].key /\ jobs'[j].digest = jobs[j].digest
    BY <1>1, <1>2, <1>3, ReapedRow DEF Existing
  <2> QED BY <2>1, <2>2 DEF Grows
<1>7. OneRowPerKey'
  BY <1>4, <1>6 DEF IInv, OneRowPerKey, Grows
<1>8. jobs' \in [JobIds -> Job \cup {None}] /\ RowsInOrder'
  BY <1>3, <1>4 DEF IInv, RowsInOrder
<1> QED BY <1>5, <1>6, <1>7, <1>8 DEF TableInv

\* The next row is free.
LEMMA NextRow ==
    ASSUME IInv, Cardinality(Existing) + 1 <= MaxJobs
    PROVE  /\ Cardinality(Existing) + 1 \in JobIds \ Existing
           /\ Existing = 1 .. Cardinality(Existing) /\ Cardinality(Existing) \in 0 .. MaxJobs
<1>1. PICK n \in 0 .. MaxJobs : Existing = 1 .. n
  BY DEF IInv, RowsInOrder
<1>2. Cardinality(Existing) = n
  BY <1>1, FS_Interval, BoundsAssumption
<1> QED BY <1>1, <1>2, BoundsAssumption DEF JobIds

\* Inserting a row leaves the table in order.
LEMMA RowInserted ==
    ASSUME IInv, NEW k \in Keys, NEW d \in Digests,
           WithKey(k) = {}, Cardinality(Existing) + 1 <= MaxJobs,
           jobs' = [jobs EXCEPT ![Cardinality(Existing) + 1] = NewJob(k, d)]
    PROVE  TableInv' /\ Grows /\ Existing' = Existing \cup {Cardinality(Existing) + 1}
<1> DEFINE next == Cardinality(Existing) + 1
<1>1. next \in JobIds \ Existing /\ Existing = 1 .. (next - 1) /\ next \in 1 .. MaxJobs
  BY NextRow, BoundsAssumption
<1>2. /\ NewJob(k, d) \in Job /\ NewJob(k, d).state = "queued"
      /\ NewJob(k, d).owner = None /\ NewJob(k, d).lease = "none"
  BY AttemptsBound DEF NewJob, Job, States, Final
<1> HIDE DEF next
<1>3. \A i \in JobIds : jobs'[i] = IF i = next THEN NewJob(k, d) ELSE jobs[i]
  BY DEF IInv, TypeOK, next
<1>4. Existing' = Existing \cup {next}
  BY <1>1, <1>2, <1>3, NoneIsOutside DEF Existing
<1>5. RowsInOrder'
  BY <1>1, <1>4, BoundsAssumption DEF RowsInOrder
<1>6. RunningIffLeased'
  BY <1>1, <1>2, <1>3, <1>4 DEF IInv, RunningIffLeased, Existing
<1>7. jobs' \in [JobIds -> Job \cup {None}]
  BY <1>2 DEF IInv, TypeOK
<1>8. Grows
  <2>1. \A j \in Existing : jobs[j].attempts \in Nat /\ jobs'[j] = jobs[j] /\ jobs[j] # None
    BY <1>1, <1>3, RowType, AttemptsBound DEF IInv, Job, Existing
  <2> QED BY <2>1 DEF Grows
<1>9. OneRowPerKey'
  BY <1>1, <1>3, <1>4 DEF IInv, OneRowPerKey, WithKey, NewJob, Existing
<1> QED BY <1>4, <1>5, <1>6, <1>7, <1>8, <1>9 DEF TableInv, next

--------------------------------------------------------------------------------
(* What a step does to the workers *)

\* A worker that does nothing relies on no less after the step.
LEMMA ClaimKept ==
    ASSUME IInv, TableInv', Grows, NEW u \in Worker, Claimed(u)
    PROVE  Claimed(u)'
<1>1. u.job \in Existing =>
        /\ u.job \in Existing'
        /\ jobs[u.job].attempts \in Nat /\ jobs'[u.job].attempts \in Nat
        /\ jobs'[u.job].attempts >= jobs[u.job].attempts
  BY RowType, AttemptsBound DEF Grows, Existing, IInv, TableInv, Job
<1>2. u.mine \in Nat
  BY AttemptsBound DEF Worker
<1> QED BY <1>1, <1>2 DEF Claimed, Busy

\* What the clients were told stays true.
LEMMA ToldKept ==
    ASSUME IInv, TableInv', Grows, NEW c \in Client, Asked(c)
    PROVE  Asked(c)'
<1>1. c.job \in Existing => c.job \in Existing'
  BY DEF Grows, Existing
<1> QED BY <1>1 DEF Asked, Grows

\* So do those of a step in which no client moves.
LEMMA ClientsKept ==
    ASSUME IInv, TableInv', Grows, UNCHANGED client
    PROVE  ClientsTold'
<1>1. ASSUME NEW c \in Clients PROVE Asked(client[c])'
  <2>1. PICK x \in Client : x = client[c] /\ Asked(x)
    BY DEF IInv, TypeOK, ClientsTold
  <2> QED BY <2>1, ToldKept DEF Asked
<1> QED BY <1>1 DEF ClientsTold

\* The invariant holds after a step that leaves the table in order, if the one
\* worker that moves holds its claim.
LEMMA WorkerMoves ==
    ASSUME IInv, TableInv', Grows, NEW w \in Workers, NEW u \in Worker, Claimed(u)',
           worker' = [worker EXCEPT ![w] = u],
           runs' \in [JobIds \X (1 .. MaxAttempts) -> RunStatuses \cup {None}],
           outputs' \in [JobIds -> SUBSET Outs],
           spent' \in [late : 0 .. MaxLate, crashes : 0 .. MaxCrashes, retries : 0 .. MaxRetries],
           UNCHANGED client
    PROVE  IInv' /\ Grows
<1>1. TypeOK'
  BY DEF IInv, TypeOK, TableInv
<1>2. ASSUME NEW v \in Workers PROVE Claimed(worker[v])'
  <2>1. PICK x \in Worker : x = worker[v] /\ Claimed(x)
    BY DEF IInv, TypeOK, ClaimsHeld
  <2>2. worker'[v] = IF v = w THEN u ELSE x
    BY <2>1 DEF IInv, TypeOK
  <2>3. CASE v = w
    BY <2>2, <2>3 DEF Claimed
  <2>4. CASE v # w
    BY <2>1, <2>2, <2>4, ClaimKept DEF Claimed
  <2> QED BY <2>3, <2>4
<1>3. ClaimsHeld'
  BY <1>2 DEF ClaimsHeld
<1> QED BY <1>1, <1>3, ClientsKept DEF IInv, TableInv

\* The same of a step in which no worker moves.
LEMMA NoWorkerMoves ==
    ASSUME IInv, TableInv', Grows, UNCHANGED <<runs, outputs, worker>>,
           client' \in [Clients -> Client], ClientsTold',
           spent' \in [late : 0 .. MaxLate, crashes : 0 .. MaxCrashes, retries : 0 .. MaxRetries]
    PROVE  IInv' /\ Grows
<1>1. TypeOK'
  BY DEF IInv, TypeOK, TableInv
<1>2. ASSUME NEW v \in Workers PROVE Claimed(worker[v])'
  <2>1. PICK x \in Worker : x = worker[v] /\ Claimed(x)
    BY DEF IInv, TypeOK, ClaimsHeld
  <2> QED BY <2>1, ClaimKept DEF Claimed
<1>3. ClaimsHeld'
  BY <1>2 DEF ClaimsHeld
<1> QED BY <1>1, <1>3 DEF IInv, TableInv

\* The same of a step that moves one worker and leaves the jobs alone.
LEMMA WorkerOnly ==
    ASSUME IInv, NEW w \in Workers, NEW u \in Worker, Claimed(u),
           worker' = [worker EXCEPT ![w] = u], UNCHANGED <<jobs, client>>,
           runs' \in [JobIds \X (1 .. MaxAttempts) -> RunStatuses \cup {None}],
           outputs' \in [JobIds -> SUBSET Outs],
           spent' \in [late : 0 .. MaxLate, crashes : 0 .. MaxCrashes, retries : 0 .. MaxRetries]
    PROVE  IInv' /\ Grows
BY TableKept, ClaimKept, WorkerMoves

\* What is known of a worker before its step.
LEMMA WorkerAt ==
    ASSUME IInv, NEW w \in Workers
    PROVE  /\ worker[w] \in Worker /\ Claimed(worker[w])
           /\ runs \in [JobIds \X (1 .. MaxAttempts) -> RunStatuses \cup {None}]
           /\ outputs \in [JobIds -> SUBSET Outs]
           /\ spent \in [late : 0 .. MaxLate, crashes : 0 .. MaxCrashes, retries : 0 .. MaxRetries]
           /\ worker[w].pc \in Busy =>
                /\ worker[w].job \in JobIds /\ jobs[worker[w].job] \in Job
                /\ worker[w].mine \in 1 .. MaxAttempts
<1>1. worker[w] \in Worker /\ Claimed(worker[w])
  BY DEF IInv, TypeOK, ClaimsHeld
<1>2. ASSUME worker[w].pc \in Busy
      PROVE  /\ worker[w].job \in JobIds /\ jobs[worker[w].job] \in Job
             /\ worker[w].mine \in 1 .. MaxAttempts
  <2>1. worker[w].job \in Existing /\ worker[w].mine \in 1 .. jobs[worker[w].job].attempts
    BY <1>1, <1>2 DEF Claimed, Busy
  <2>2. jobs[worker[w].job] \in Job /\ worker[w].job \in JobIds
    BY <2>1, RowType DEF IInv
  <2> QED BY <2>1, <2>2, AttemptsBound DEF Job
<1> QED BY <1>1, <1>2 DEF IInv, TypeOK

--------------------------------------------------------------------------------
(* One lemma per action *)

\* Reaping, and going on to list or to claim.
LEMMA SweepStep == ASSUME IInv, NEW w \in Workers, Sweep(w) PROVE IInv' /\ Grows
<1>1. PICK x \in Worker : x = worker[w] /\ Claimed(x)
  BY WorkerAt
<1> DEFINE u == [x EXCEPT !.pc = IF x.pc = "sweep" THEN "list" ELSE "claim"]
<1>2. u \in Worker /\ Claimed(u)
  BY <1>1 DEF Sweep, Worker, WorkerPCs, Claimed, Busy
<1>3. worker' = [worker EXCEPT ![w] = u]
  BY <1>1 DEF Sweep, Goes
<1>4. TableInv' /\ Grows
  BY TableReaped DEF Sweep
<1> HIDE DEF u
<1>5. Claimed(u)'
  BY <1>2, <1>4, ClaimKept
<1> QED BY <1>2, <1>3, <1>4, <1>5, WorkerAt, WorkerMoves DEF Sweep

\* Listing: the job to claim exists.
LEMMA ListStep == ASSUME IInv, NEW w \in Workers, List(w) PROVE IInv' /\ Grows
<1>1. CASE worker' = [worker EXCEPT ![w] = Looking]
  BY <1>1, LookingType, WorkerAt, WorkerOnly DEF List
<1>2. ASSUME NEW j \in JobIds, Claimable(jobs[j]),
             worker' = [worker EXCEPT ![w] = [Looking EXCEPT !.pc = "resweep", !.job = j]]
      PROVE  IInv' /\ Grows
  <2> DEFINE u == [Looking EXCEPT !.pc = "resweep", !.job = j]
  <2>1. u \in Worker
    BY LookingType DEF Worker, WorkerPCs
  <2>2. Claimed(u)
    BY <1>2 DEF Claimed, Busy, Looking, Existing, Claimable
  <2> HIDE DEF u
  <2> QED BY <1>2, <2>1, <2>2, WorkerAt, WorkerOnly DEF List, u
<1> QED BY <1>1, <1>2 DEF List

\* Claiming: the worker's attempt is the one counted in the row, and the lease is its own.
LEMMA ClaimStep == ASSUME IInv, NEW w \in Workers, Claim(w) PROVE IInv' /\ Grows
<1>1. PICK x \in Worker : x = worker[w] /\ Claimed(x) /\ x.pc = "claim"
  BY WorkerAt DEF Claim
<1>2. PICK j \in Existing : j = x.job
  BY <1>1 DEF Claimed
<1>3. PICK row \in Job : row = jobs[j]
  BY <1>2, RowType DEF IInv
<1>4. CASE worker' = [worker EXCEPT ![w] = Looking] /\ UNCHANGED jobs
  BY <1>4, LookingType, WorkerAt, WorkerOnly DEF Claim
<1>5. ASSUME NEW n \in 1 .. MaxAttempts, n = row.attempts + 1,
             jobs' = [jobs EXCEPT ![j] =
                [row EXCEPT !.state = "running", !.owner = w, !.lease = "live", !.attempts = n]],
             NEW pc \in {"reject", "execute"},
             worker' = [worker EXCEPT ![w] = [x EXCEPT !.mine = n, !.pc = pc]]
      PROVE  IInv' /\ Grows
  <2> DEFINE new == [row EXCEPT !.state = "running", !.owner = w, !.lease = "live", !.attempts = n]
             u == [x EXCEPT !.mine = n, !.pc = pc]
  <2>1. row.attempts \in Nat /\ n \in 0 .. MaxAttempts /\ n >= row.attempts /\ n \in 1 .. n
    BY <1>5, AttemptsBound DEF Job
  <2>2. new \in Job /\ new.attempts = n /\ new.state = "running"
    BY <2>1 DEF Job, States
  <2>3. new.owner = w /\ new.lease = "live" /\ new.key = row.key /\ new.digest = row.digest
    BY DEF Job
  <2>4. u \in Worker /\ u.job = j /\ u.mine = n /\ u.pc = pc
    BY <1>2, <2>1 DEF Worker, WorkerPCs
  <2>5. jobs' = [jobs EXCEPT ![j] = new] /\ worker' = [worker EXCEPT ![w] = u]
    BY <1>5
  <2> HIDE DEF new, u
  <2>6. TableInv' /\ Grows
    BY <1>3, <2>1, <2>2, <2>3, <2>5, NoneIsOutside, RowWritten
  <2>7. j \in Existing' /\ jobs'[j] = new
    BY <1>2, <1>3, <2>5, <2>6, RowType DEF Grows, Existing, IInv, TypeOK
  <2>8. Claimed(u)'
    BY <2>1, <2>2, <2>4, <2>7 DEF Claimed, Busy
  <2> QED BY <2>4, <2>5, <2>6, <2>8, WorkerAt, WorkerMoves DEF Claim
<1>6. \/ worker' = [worker EXCEPT ![w] = Looking] /\ UNCHANGED jobs
      \/ /\ row.attempts + 1 <= MaxAttempts
         /\ jobs' = [jobs EXCEPT ![j] =
                [row EXCEPT !.state = "running", !.owner = w, !.lease = "live", !.attempts = row.attempts + 1]]
         /\ \E pc \in {"reject", "execute"} :
                worker' = [worker EXCEPT ![w] = [x EXCEPT !.mine = row.attempts + 1, !.pc = pc]]
  <2>1. worker \in [Workers -> Worker]
    BY DEF IInv, TypeOK
  <2> QED BY <1>1, <1>2, <1>3, <2>1 DEF Claim, Attempt, Worker
<1>7. row.attempts + 1 <= MaxAttempts => row.attempts + 1 \in 1 .. MaxAttempts
  BY AttemptsBound DEF Job
<1> QED BY <1>4, <1>5, <1>6, <1>7

\* startStage's read, or a job that fails before any stage.
LEMMA ExecuteStep == ASSUME IInv, NEW w \in Workers, Execute(w) PROVE IInv' /\ Grows
<1>1. PICK x \in Worker : x = worker[w] /\ Claimed(x) /\ x.pc = "execute"
  BY WorkerAt DEF Execute
<1>2. PICK u \in {[x EXCEPT !.pc = "insert"], [x EXCEPT !.pc = "catch"],
                  [x EXCEPT !.pc = "settle", !.outcome = "failed"]} :
        worker' = [worker EXCEPT ![w] = u]
  BY <1>1 DEF Execute, IInv, TypeOK, Worker
<1>3. u \in Worker /\ Claimed(u)
  BY <1>1, <1>2 DEF Worker, WorkerPCs, Claimed, Busy
<1> QED BY <1>2, <1>3, WorkerAt, WorkerOnly DEF Execute

\* startStage's insert.
LEMMA InsertRunStep == ASSUME IInv, NEW w \in Workers, InsertRun(w) PROVE IInv' /\ Grows
<1>1. PICK x \in Worker : x = worker[w] /\ Claimed(x) /\ x.pc = "insert"
  BY WorkerAt DEF InsertRun
<1> DEFINE u == [x EXCEPT !.pc = "work"]
<1>2. u \in Worker /\ Claimed(u)
  BY <1>1 DEF Worker, WorkerPCs, Claimed, Busy
<1>3. worker' = [worker EXCEPT ![w] = u]
  BY <1>1 DEF InsertRun, Goes
<1>4. runs' \in [JobIds \X (1 .. MaxAttempts) -> RunStatuses \cup {None}]
  BY WorkerAt DEF InsertRun, RunStatuses
<1> HIDE DEF u
<1> QED BY <1>2, <1>3, <1>4, WorkerAt, WorkerOnly DEF InsertRun

\* The service call ends the stage one way or another.
LEMMA WorkStep == ASSUME IInv, NEW w \in Workers, Work(w) PROVE IInv' /\ Grows
<1>1. PICK x \in Worker : x = worker[w] /\ Claimed(x) /\ x.pc = "work"
  BY WorkerAt DEF Work
<1>2. /\ worker \in [Workers -> Worker]
      /\ \/ \E result \in {"succeeded", "failed"} :
                worker' = [worker EXCEPT ![w] = [@ EXCEPT !.pc = "finish", !.outcome = result]]
         \/ worker' = [worker EXCEPT ![w] = [@ EXCEPT !.pc = "finish", !.outcome = "failed", !.retry = "pending"]]
         \/ worker' = [worker EXCEPT ![w].pc = "catch"]
  BY DEF Work, Goes, IInv, TypeOK
<1>3. PICK u \in {[x EXCEPT !.pc = "finish", !.outcome = "succeeded"],
                  [x EXCEPT !.pc = "finish", !.outcome = "failed"],
                  [x EXCEPT !.pc = "finish", !.outcome = "failed", !.retry = "pending"],
                  [x EXCEPT !.pc = "catch"]} : worker' = [worker EXCEPT ![w] = u]
  BY <1>1, <1>2 DEF Worker
<1>4. u \in Worker /\ Claimed(u)
  BY <1>1, <1>3 DEF Worker, WorkerPCs, Claimed, Busy
<1>5. spent' \in [late : 0 .. MaxLate, crashes : 0 .. MaxCrashes, retries : 0 .. MaxRetries]
  BY WorkerAt, BoundsAssumption DEF Work
<1> QED BY <1>3, <1>4, <1>5, WorkerAt, WorkerOnly DEF Work

\* The run is closed with the outcome of the stage.
LEMMA FinishRunStep == ASSUME IInv, NEW w \in Workers, FinishRun(w) PROVE IInv' /\ Grows
<1>1. PICK x \in Worker : x = worker[w] /\ Claimed(x) /\ x.pc = "finish"
  BY WorkerAt DEF FinishRun
<1> DEFINE produced == IF x.outcome = "succeeded" THEN Outs ELSE {}
           u == [x EXCEPT !.pc = "outputs", !.todo = produced]
<1>2. u \in Worker /\ Claimed(u)
  BY <1>1 DEF Worker, WorkerPCs, Claimed, Busy
<1>3. worker' = [worker EXCEPT ![w] = u]
  BY <1>1 DEF FinishRun, IInv, TypeOK, Worker
<1>4. x.outcome \in RunStatuses
  BY <1>1 DEF Claimed, Worker, RunStatuses
<1>5. runs' \in [JobIds \X (1 .. MaxAttempts) -> RunStatuses \cup {None}]
  BY <1>1, <1>4, WorkerAt DEF FinishRun
<1> HIDE DEF u
<1> QED BY <1>2, <1>3, <1>5, WorkerAt, WorkerOnly DEF FinishRun

\* One output is recorded.
LEMMA RecordOutputStep == ASSUME IInv, NEW w \in Workers, RecordOutput(w) PROVE IInv' /\ Grows
<1>1. PICK x \in Worker : x = worker[w] /\ Claimed(x) /\ x.pc = "outputs"
  BY WorkerAt DEF RecordOutput
<1>2. PICK o \in x.todo :
        /\ outputs' = [outputs EXCEPT ![x.job] = @ \cup {o}]
        /\ worker' = [worker EXCEPT ![w] = [x EXCEPT !.todo = @ \ {o}]]
  BY <1>1 DEF RecordOutput, IInv, TypeOK
<1> DEFINE u == [x EXCEPT !.todo = @ \ {o}]
<1>3. u \in Worker /\ Claimed(u) /\ o \in Outs
  BY <1>1, <1>2 DEF Worker, Claimed, Busy
<1>4. outputs' \in [JobIds -> SUBSET Outs]
  BY <1>2, <1>3, WorkerAt
<1> HIDE DEF u
<1> QED BY <1>2, <1>3, <1>4, WorkerAt, WorkerOnly DEF RecordOutput, u

\* The outputs are all recorded, or one of them cannot be.
LEMMA OutputsEndStep ==
    ASSUME IInv, NEW w \in Workers, OutputThrows(w) \/ OutputsDone(w) PROVE IInv' /\ Grows
<1>1. PICK x \in Worker : x = worker[w] /\ Claimed(x) /\ x.pc = "outputs"
  BY WorkerAt DEF OutputThrows, OutputsDone
<1>2. PICK pc \in {"catch", "settle"} : worker' = [worker EXCEPT ![w] = [x EXCEPT !.pc = pc]]
  BY <1>1 DEF OutputThrows, OutputsDone, Goes
<1> DEFINE u == [x EXCEPT !.pc = pc]
<1>3. u \in Worker /\ Claimed(u)
  BY <1>1 DEF Worker, WorkerPCs, Claimed, Busy
<1> HIDE DEF u
<1> QED BY <1>2, <1>3, WorkerAt, WorkerOnly DEF OutputThrows, OutputsDone, u

\* finalizeDerivationJob ends the lease with the state, whoever calls it.
LEMMA FinalizeStep ==
    ASSUME IInv, NEW w \in Workers, NEW j \in Existing, NEW final \in {"succeeded", "failed"},
           NEW retry \in {"never", "pending"},
           jobs' = [jobs EXCEPT ![j] = Finalized(jobs[j], final, retry)],
           worker' = [worker EXCEPT ![w] = Looking], UNCHANGED <<runs, outputs, client, spent>>
    PROVE  IInv' /\ Grows
<1>1. PICK row \in Job : row = Finalized(jobs[j], final, retry)
  BY FinalizedRow, RowType DEF IInv
<1>2. /\ row.state # "running" /\ row.owner = None /\ row.lease = "none"
      /\ row.key = jobs[j].key /\ row.digest = jobs[j].digest /\ row.attempts = jobs[j].attempts
  BY <1>1, FinalizedRow, RowType DEF IInv
<1>3. row.attempts \in Nat /\ row.attempts >= jobs[j].attempts
  BY <1>2, AttemptsBound DEF Job
<1>4. TableInv' /\ Grows
  BY <1>1, <1>2, <1>3, RowWritten
<1>5. Claimed(Looking)'
  BY DEF Claimed, Looking, Busy
<1> QED BY <1>4, <1>5, LookingType, WorkerAt, WorkerMoves

\* complete or fail with the outcome of the stage.
LEMMA SettleStep == ASSUME IInv, NEW w \in Workers, Settle(w) PROVE IInv' /\ Grows
<1>1. PICK x \in Worker : x = worker[w] /\ Claimed(x) /\ x.pc = "settle"
  BY WorkerAt DEF Settle
<1>2. x.job \in Existing /\ x.outcome \in {"succeeded", "failed"} /\ x.retry \in {"never", "pending"}
  BY <1>1 DEF Claimed, Busy, Worker
<1>3. CASE Running(x.job)
  <2>1. /\ jobs' = [jobs EXCEPT ![x.job] = Finalized(jobs[x.job], x.outcome, x.retry)]
        /\ worker' = [worker EXCEPT ![w] = Looking]
    BY <1>1, <1>3 DEF Settle
  <2> QED BY <1>2, <2>1, FinalizeStep DEF Settle
<1>4. CASE ~Running(x.job)
  <2> DEFINE u == [x EXCEPT !.pc = "catch"]
  <2>1. u \in Worker /\ Claimed(u)
    BY <1>1 DEF Worker, WorkerPCs, Claimed, Busy
  <2>2. worker' = [worker EXCEPT ![w] = u] /\ UNCHANGED jobs
    BY <1>1, <1>4 DEF Settle, Goes
  <2> HIDE DEF u
  <2> QED BY <2>1, <2>2, WorkerAt, WorkerOnly DEF Settle
<1> QED BY <1>3, <1>4

\* fail from the catch block; if nobody runs the job any more, the process ends.
LEMMA FailStep == ASSUME IInv, NEW w \in Workers, Fail(w) PROVE IInv' /\ Grows
<1>1. PICK x \in Worker : x = worker[w] /\ Claimed(x) /\ x.pc \in {"catch", "reject"}
  BY WorkerAt DEF Fail
<1>2. x.job \in Existing
  BY <1>1 DEF Claimed, Busy
<1>3. CASE Running(x.job)
  <2>1. /\ jobs' = [jobs EXCEPT ![x.job] = Finalized(jobs[x.job], "failed", "never")]
        /\ worker' = [worker EXCEPT ![w] = Looking]
    BY <1>1, <1>3 DEF Fail
  <2> QED BY <1>2, <2>1, FinalizeStep DEF Fail
<1>4. CASE ~Running(x.job)
  BY <1>1, <1>4, LookingType, WorkerAt, WorkerOnly DEF Fail
<1> QED BY <1>3, <1>4

\* A worker dies.
LEMMA CrashStep == ASSUME IInv, NEW w \in Workers, Crash(w) PROVE IInv' /\ Grows
<1>1. spent' \in [late : 0 .. MaxLate, crashes : 0 .. MaxCrashes, retries : 0 .. MaxRetries]
  BY WorkerAt, BoundsAssumption DEF Crash
<1> QED BY <1>1, LookingType, WorkerAt, WorkerOnly DEF Crash

\* A worker is started again.
LEMMA RestartStep == ASSUME IInv, NEW w \in Workers, Restart(w) PROVE IInv' /\ Grows
BY LookingType, WorkerAt, WorkerOnly DEF Restart

\* A cancel request sets its flag and nothing else.
LEMMA RequestCancelStep == ASSUME IInv, NEW j \in JobIds, RequestCancel(j) PROVE IInv' /\ Grows
<1>1. j \in Existing
  BY DEF RequestCancel, Existing
<1>2. PICK row \in Job : row = jobs[j]
  BY <1>1, RowType DEF IInv
<1> DEFINE new == [row EXCEPT !.cancel = TRUE]
<1>3. /\ new.state = row.state /\ new.owner = row.owner /\ new.lease = row.lease
      /\ new.attempts = row.attempts /\ new.key = row.key /\ new.digest = row.digest
      /\ row.attempts \in Nat /\ new \in Job
  <2>1. row \in [state : States, key : Keys, digest : Digests, owner : Workers \cup {None},
                 lease : {"none", "live", "expired"}, attempts : 0 .. MaxAttempts,
                 cancel : BOOLEAN, retry : {"never", "pending", "due"}]
    BY DEF Job
  <2>2. new \in Job
    BY <2>1, Zenon DEF Job
  <2> QED BY <2>1, <2>2, AttemptsBound
<1>4. jobs' = [jobs EXCEPT ![j] = new]
  BY <1>2 DEF RequestCancel
<1> HIDE DEF new
<1>5. (row.state = "running") = (row.owner # None) /\ (row.state = "running") = (row.lease # "none")
  BY <1>1, <1>2 DEF IInv, RunningIffLeased
<1>6. new.attempts >= jobs[j].attempts /\ new.key = jobs[j].key /\ new.digest = jobs[j].digest
  BY <1>2, <1>3
<1>7. (new.state = "running") = (new.owner # None) /\ (new.state = "running") = (new.lease # "none")
  BY <1>3, <1>4, <1>5
<1>8. TableInv' /\ Grows
  BY <1>1, <1>3, <1>4, <1>6, <1>7, RowWritten
<1> QED BY <1>8, NoWorkerMoves, ClientsKept DEF RequestCancel, IInv, TypeOK

\* A lease runs out; it is held until it is reaped.
LEMMA ExpireStep == ASSUME IInv, NEW j \in JobIds, Expire(j) PROVE IInv' /\ Grows
<1>1. j \in Existing
  BY DEF Expire, Running, Existing
<1>2. PICK row \in Job : row = jobs[j]
  BY <1>1, RowType DEF IInv
<1> DEFINE new == [row EXCEPT !.lease = "expired"]
<1>3. /\ new \in Job /\ new.state = row.state /\ new.owner = row.owner /\ new.lease = "expired"
      /\ new.attempts = row.attempts /\ new.key = row.key /\ new.digest = row.digest
      /\ row.attempts \in Nat
  BY AttemptsBound DEF Job
<1>4. jobs' = [jobs EXCEPT ![j] = new] /\ row.state = "running"
  BY <1>2 DEF Expire, Running
<1> HIDE DEF new
<1>5. (row.state = "running") = (row.owner # None) /\ (row.state = "running") = (row.lease # "none")
  BY <1>1, <1>2 DEF IInv, RunningIffLeased
<1>6. new.attempts >= jobs[j].attempts /\ new.key = jobs[j].key /\ new.digest = jobs[j].digest
  BY <1>2, <1>3
<1>7. (new.state = "running") = (new.owner # None) /\ (new.state = "running") = (new.lease # "none")
  BY <1>3, <1>4, <1>5
<1>8. TableInv' /\ Grows
  BY <1>1, <1>3, <1>4, <1>6, <1>7, RowWritten
<1>9. spent' \in [late : 0 .. MaxLate, crashes : 0 .. MaxCrashes, retries : 0 .. MaxRetries]
  BY BoundsAssumption DEF Expire, IInv, TypeOK
<1> QED BY <1>8, <1>9, NoWorkerMoves, ClientsKept DEF Expire, IInv, TypeOK

\* A retry window is reached.
LEMMA RetryDueStep == ASSUME IInv, NEW j \in JobIds, RetryDue(j) PROVE IInv' /\ Grows
<1>1. j \in Existing
  BY DEF RetryDue, Existing
<1>2. PICK row \in Job : row = jobs[j]
  BY <1>1, RowType DEF IInv
<1> DEFINE new == [row EXCEPT !.retry = "due"]
<1>3. /\ new \in Job /\ new.state = row.state /\ new.owner = row.owner /\ new.lease = row.lease
      /\ new.attempts = row.attempts /\ new.key = row.key /\ new.digest = row.digest
      /\ row.attempts \in Nat
  BY AttemptsBound DEF Job
<1>4. jobs' = [jobs EXCEPT ![j] = new]
  BY <1>2 DEF RetryDue
<1> HIDE DEF new
<1>5. (row.state = "running") = (row.owner # None) /\ (row.state = "running") = (row.lease # "none")
  BY <1>1, <1>2 DEF IInv, RunningIffLeased
<1>6. new.attempts >= jobs[j].attempts /\ new.key = jobs[j].key /\ new.digest = jobs[j].digest
  BY <1>2, <1>3
<1>7. (new.state = "running") = (new.owner # None) /\ (new.state = "running") = (new.lease # "none")
  BY <1>3, <1>4, <1>5
<1>8. TableInv' /\ Grows
  BY <1>1, <1>3, <1>4, <1>6, <1>7, RowWritten
<1> QED BY <1>8, NoWorkerMoves, ClientsKept DEF RetryDue, IInv, TypeOK

\* The same of a step that moves one client and leaves the workers alone.
LEMMA ClientMoves ==
    ASSUME IInv, TableInv', Grows, UNCHANGED <<runs, outputs, worker, spent>>,
           NEW c \in Clients, NEW x \in Client, client' = [client EXCEPT ![c] = x], Asked(x)'
    PROVE  IInv' /\ Grows
<1>1. client' \in [Clients -> Client]
  BY DEF IInv, TypeOK
<1>2. ASSUME NEW b \in Clients PROVE Asked(client[b])'
  <2>1. PICK y \in Client : y = client[b] /\ Asked(y)
    BY DEF IInv, TypeOK, ClientsTold
  <2>2. client'[b] = IF b = c THEN x ELSE y
    BY <2>1 DEF IInv, TypeOK
  <2>3. CASE b = c
    BY <2>2, <2>3 DEF Asked
  <2>4. CASE b # c
    BY <2>1, <2>2, <2>4, ToldKept DEF Asked
  <2> QED BY <2>3, <2>4
<1>3. ClientsTold'
  BY <1>2 DEF ClientsTold
<1> QED BY <1>1, <1>3, NoWorkerMoves DEF IInv, TypeOK

\* A client is told of the job it finds under its key, or of none.
LEMMA ProbeStep ==
    ASSUME IInv, NEW c \in Clients, NEW k \in Keys, NEW d \in Digests, Probe(c, k, d) PROVE IInv' /\ Grows
<1> DEFINE asked == [NewClient EXCEPT !.key = k, !.digest = d]
           fresh == [asked EXCEPT !.pc = "insert"]
           replayed(j) == Answered(asked, "replayed", j)
           refused == Answered(asked, "mismatch", None)
<1>1. asked \in Client /\ asked.pc = "idle" /\ asked.key = k /\ asked.digest = d /\ asked.job = None
  <2>1. NewClient \in Client
    BY DEF NewClient, Client, Told
  <2>2. NewClient.pc = "idle" /\ NewClient.job = None
    BY DEF NewClient
  <2> QED BY <2>1, <2>2 DEF Client
<1>2. fresh \in Client /\ Asked(fresh) /\ refused \in Client /\ Asked(refused)
  BY <1>1 DEF Client, Told, Answered, Asked
<1>3. ASSUME NEW j \in WithKey(k), jobs[j].digest = d
      PROVE  replayed(j) \in Client /\ Asked(replayed(j))
  BY <1>1, <1>3 DEF Client, Told, Answered, Asked, WithKey, Existing
<1>4. \/ client' = [client EXCEPT ![c] = fresh]
      \/ client' = [client EXCEPT ![c] = refused]
      \/ \E j \in WithKey(k) : jobs[j].digest = d /\ client' = [client EXCEPT ![c] = replayed(j)]
  BY DEF Probe
<1> HIDE DEF asked, fresh, replayed, refused
<1>5. PICK x \in Client : Asked(x) /\ client' = [client EXCEPT ![c] = x]
  BY <1>2, <1>3, <1>4
<1>6. TableInv' /\ Grows
  BY TableKept DEF Probe
<1>7. Asked(x)'
  BY <1>5, <1>6, ToldKept
<1> QED BY <1>5, <1>6, <1>7, ClientMoves DEF Probe

\* A client inserts under a key nobody has used, or is told of the constraint.
LEMMA InsertStep == ASSUME IInv, NEW c \in Clients, Insert(c) PROVE IInv' /\ Grows
<1>1. PICK next : next = Cardinality(Existing) + 1
  OBVIOUS
<1>2. PICK x \in Client : x = client[c] /\ Asked(x) /\ x.pc = "insert"
  BY DEF Insert, IInv, TypeOK, ClientsTold
<1>3. CASE /\ WithKey(x.key) = {} /\ next <= MaxJobs
           /\ jobs' = [jobs EXCEPT ![next] = NewJob(x.key, x.digest)]
           /\ client' = [client EXCEPT ![c] = Answered(x, "new", next)]
  <2> DEFINE u == Answered(x, "new", next)
  <2>1. x.key \in Keys /\ x.digest \in Digests
    BY <1>2 DEF Asked
  <2>2. TableInv' /\ Grows /\ Existing' = Existing \cup {next}
    BY <1>1, <1>3, <2>1, RowInserted
  <2>3. next \in JobIds /\ next \in Existing'
    BY <1>1, <1>3, <2>2, NextRow
  <2>4. u \in Client /\ u.key = x.key /\ u.digest = x.digest /\ u.job = next /\ u.pc = "idle"
    BY <2>3 DEF Answered, Client, Told
  <2>5. jobs'[next].key = x.key /\ jobs'[next].digest = x.digest
    BY <1>3, <2>3 DEF NewJob, IInv, TypeOK
  <2> HIDE DEF u
  <2>6. Asked(u)'
    BY <2>3, <2>4, <2>5 DEF Asked
  <2>7. client' = [client EXCEPT ![c] = u]
    BY <1>3 DEF u
  <2> QED BY <2>2, <2>4, <2>6, <2>7, ClientMoves DEF Insert
<1>4. CASE client' = [client EXCEPT ![c] = Answered(x, "constraint", None)] /\ UNCHANGED jobs
  <2> DEFINE u == Answered(x, "constraint", None)
  <2>1. u \in Client /\ u.job = None /\ u.pc = "idle"
    BY DEF Answered, Client, Told
  <2>2. TableInv' /\ Grows
    BY <1>4, TableKept
  <2>3. client' = [client EXCEPT ![c] = u]
    BY <1>4
  <2> HIDE DEF u
  <2>4. Asked(u)'
    BY <2>1 DEF Asked
  <2> QED BY <2>1, <2>2, <2>3, <2>4, ClientMoves DEF Insert
<1> QED BY <1>1, <1>2, <1>3, <1>4 DEF Insert

\* The invariant holds in an empty database.
LEMMA InitInv == Init => IInv
<1> SUFFICES ASSUME Init PROVE IInv
  OBVIOUS
<1>1. Existing = {}
  BY DEF Init, Existing
<1>2. TypeOK
  <2>1. NewClient \in Client
    BY DEF NewClient, Client, Told
  <2> QED BY <2>1, LookingType, BoundsAssumption DEF Init, TypeOK
<1>3. RowsInOrder
  <2>1. 0 \in 0 .. MaxJobs /\ 1 .. 0 = {}
    BY BoundsAssumption
  <2> QED BY <1>1, <2>1 DEF RowsInOrder
<1>4. RunningIffLeased /\ OneRowPerKey
  BY <1>1 DEF RunningIffLeased, OneRowPerKey
<1>5. ClaimsHeld
  BY LookingType DEF Init, ClaimsHeld
<1>6. ClientsTold
  BY DEF Init, ClientsTold, Asked, NewClient
<1> QED BY <1>2, <1>3, <1>4, <1>5, <1>6 DEF IInv

\* Every step keeps the invariant.
LEMMA NextInv == IInv /\ [Next]_vars => IInv' /\ Grows
<1> SUFFICES ASSUME IInv, [Next]_vars PROVE IInv' /\ Grows
  OBVIOUS
<1>1. CASE UNCHANGED vars
  <2>1. ClientsTold'
    BY <1>1, TableKept, ClientsKept DEF vars
  <2> QED BY <1>1, <2>1, TableKept, NoWorkerMoves DEF vars, IInv, TypeOK
<1>2. ASSUME NEW w \in Workers, RunnerStep(w) PROVE IInv' /\ Grows
  BY <1>2, SweepStep, ListStep, ClaimStep, ExecuteStep, InsertRunStep, WorkStep, FinishRunStep,
     RecordOutputStep, OutputsEndStep, SettleStep, FailStep DEF RunnerStep
<1>3. ASSUME NEW w \in Workers, Crash(w) \/ Restart(w) PROVE IInv' /\ Grows
  BY <1>3, CrashStep, RestartStep
<1>4. ASSUME NEW c \in Clients, Insert(c) \/ \E k \in Keys, d \in Digests : Probe(c, k, d)
      PROVE  IInv' /\ Grows
  BY <1>4, InsertStep, ProbeStep
<1>5. ASSUME NEW j \in JobIds, RequestCancel(j) \/ Expire(j) \/ RetryDue(j) PROVE IInv' /\ Grows
  BY <1>5, RequestCancelStep, ExpireStep, RetryDueStep
<1> QED BY <1>1, <1>2, <1>3, <1>4, <1>5 DEF Next

\* The invariant holds throughout.
LEMMA InvHolds == Spec => []IInv
<1> QED BY InitInv, NextInv, PTL DEF Spec

\* Every variable keeps its shape.
THEOREM TypeCorrect == Spec => []TypeOK
<1>1. IInv => TypeOK
  BY DEF IInv
<1> QED BY <1>1, InvHolds, PTL

\* Whatever order claims, reaps, late settlements and cancel requests come in,
\* a job is running exactly while a lease on it is held.
THEOREM LeasedWhileRunning == Spec => []RunningIffLeased
<1>1. IInv => RunningIffLeased
  BY DEF IInv
<1> QED BY <1>1, InvHolds, PTL

\* However the probes and inserts of clients interleave, clients that ask for
\* the same key are told the same job, with the digest they asked for.
THEOREM EnqueueOnce == Spec => []EnqueueIdempotent
<1>1. IInv => EnqueueIdempotent
  <2> SUFFICES ASSUME IInv, NEW b \in Clients, NEW c \in Clients,
                      client[b].job # None, client[c].job # None, client[b].key = client[c].key
               PROVE  /\ client[b].job = client[c].job
                      /\ jobs[client[b].job].digest = client[c].digest
    BY DEF EnqueueIdempotent
  <2>1. Asked(client[b]) /\ Asked(client[c])
    BY DEF IInv, ClientsTold
  <2> QED BY <2>1 DEF Asked, IInv, OneRowPerKey
<1> QED BY <1>1, InvHolds, PTL

--------------------------------------------------------------------------------
(* Leases and ends *)

\* A live lease is not taken over: claim, reap and expiry leave its owner, and
\* only a settlement ends it.
LEMMA LeaseStep ==
    IInv /\ [Next]_vars =>
        \A j \in Existing : jobs[j].state = "running" /\ jobs[j].lease = "live" =>
            jobs'[j].owner = jobs[j].owner \/ jobs'[j].state \in Final
<1> SUFFICES ASSUME IInv, [Next]_vars, NEW j \in Existing,
                    jobs[j].state = "running", jobs[j].lease = "live"
             PROVE  jobs'[j].owner = jobs[j].owner \/ jobs'[j].state \in Final
  OBVIOUS
<1>1. j \in JobIds /\ jobs[j] \in Job /\ jobs[j] # None /\ jobs \in [JobIds -> Job \cup {None}]
  BY RowType DEF IInv, TypeOK
<1>2. jobs[j].owner # None
  BY DEF IInv, RunningIffLeased
<1>3. CASE UNCHANGED jobs
  BY <1>3
<1>4. ASSUME NEW w \in Workers, Sweep(w) PROVE jobs'[j].owner = jobs[j].owner
  BY <1>1, <1>4 DEF Sweep, Reaped
<1>5. ASSUME NEW w \in Workers, Claim(w) PROVE jobs'[j].owner = jobs[j].owner
  <2>1. ~Claimable(jobs[j])
    BY <1>2 DEF Claimable
  <2> QED BY <1>1, <1>5, <2>1 DEF Claim
<1>6. ASSUME NEW w \in Workers, Settle(w) \/ Fail(w)
      PROVE  jobs'[j].owner = jobs[j].owner \/ jobs'[j].state \in Final
  <2>1. worker[w] \in Worker /\ Claimed(worker[w])
    BY WorkerAt
  <2>2. CASE Settle(w)
    <3>1. worker[w].outcome \in {"succeeded", "failed"} /\ worker[w].retry \in {"never", "pending"}
      BY <2>1, <2>2 DEF Settle, Claimed, Worker
    <3> QED BY <1>1, <2>2, <3>1, FinalizedRow DEF Settle, Final
  <2>3. CASE Fail(w)
    BY <1>1, <2>3, FinalizedRow DEF Fail, Final
  <2> QED BY <1>6, <2>2, <2>3
<1>7. ASSUME NEW c \in Clients, Insert(c) PROVE jobs'[j].owner = jobs[j].owner
  BY <1>1, <1>7, NextRow DEF Insert
<1>8. ASSUME NEW i \in JobIds, RequestCancel(i) \/ Expire(i) \/ RetryDue(i)
      PROVE  jobs'[j].owner = jobs[j].owner
  BY <1>1, <1>8 DEF RequestCancel, Expire, RetryDue, Job
<1> QED BY <1>3, <1>4, <1>5, <1>6, <1>7, <1>8
        DEF Next, RunnerStep, vars, List, Execute, InsertRun, Work, FinishRun, RecordOutput,
            OutputThrows, OutputsDone, Crash, Restart, Probe

\* Two workers that list the same job do not both run it.
THEOREM LeasesRespected == Spec => LeaseRespected
<1>1. IInv /\ [Next]_vars =>
        [\A j \in Existing : jobs[j].state = "running" /\ jobs[j].lease = "live" =>
            jobs'[j].owner = jobs[j].owner \/ jobs'[j].state \in Final]_vars
  BY LeaseStep
<1> QED BY <1>1, InvHolds, PTL DEF Spec, LeaseRespected

\* A settled job without a retry window is claimed, reaped or settled no more.
LEMMA FinalStep ==
    IInv /\ [Next]_vars =>
        \A j \in Existing :
            jobs[j].state \in Final /\ jobs[j].retry = "never" => jobs'[j].state = jobs[j].state
<1> SUFFICES ASSUME IInv, [Next]_vars, NEW j \in Existing,
                    jobs[j].state \in Final, jobs[j].retry = "never"
             PROVE  jobs'[j].state = jobs[j].state
  OBVIOUS
<1>1. j \in JobIds /\ jobs[j] \in Job /\ jobs[j] # None /\ jobs \in [JobIds -> Job \cup {None}]
  BY RowType DEF IInv, TypeOK
<1>2. jobs[j].state \notin {"running", "queued"}
  BY DEF Final
<1>3. CASE UNCHANGED jobs
  BY <1>3
<1>4. ASSUME NEW w \in Workers, Sweep(w) PROVE jobs'[j].state = jobs[j].state
  BY <1>1, <1>2, <1>4 DEF Sweep, Reaped
<1>5. ASSUME NEW w \in Workers, Claim(w) PROVE jobs'[j].state = jobs[j].state
  <2>1. ~Claimable(jobs[j])
    BY <1>2 DEF Claimable
  <2> QED BY <1>1, <1>5, <2>1 DEF Claim
<1>6. ASSUME NEW w \in Workers, Settle(w) \/ Fail(w) PROVE jobs'[j].state = jobs[j].state
  BY <1>1, <1>2, <1>6 DEF Settle, Fail, Running
<1>7. ASSUME NEW c \in Clients, Insert(c) PROVE jobs'[j].state = jobs[j].state
  BY <1>1, <1>7, NextRow DEF Insert
<1>8. ASSUME NEW i \in JobIds, RequestCancel(i) \/ Expire(i) \/ RetryDue(i)
      PROVE  jobs'[j].state = jobs[j].state
  BY <1>1, <1>8 DEF RequestCancel, Expire, RetryDue, Job
<1> QED BY <1>3, <1>4, <1>5, <1>6, <1>7, <1>8
        DEF Next, RunnerStep, vars, List, Execute, InsertRun, Work, FinishRun, RecordOutput,
            OutputThrows, OutputsDone, Crash, Restart, Probe

\* Neither a late worker nor a reap reopens a job that is over.
THEOREM FinalForGood == Spec => FinalIsFinal
<1>1. IInv /\ [Next]_vars =>
        [\A j \in Existing :
            jobs[j].state \in Final /\ jobs[j].retry = "never" => jobs'[j].state = jobs[j].state]_vars
  BY FinalStep
<1> QED BY <1>1, InvHolds, PTL DEF Spec, FinalIsFinal

--------------------------------------------------------------------------------
(* Attempts and what is recorded under them *)

\* Runs are recorded under attempts that were claimed.
RunsClaimed ==
    \A j \in JobIds, a \in 1 .. MaxAttempts :
        runs[<<j, a>>] # None => j \in Existing /\ a <= jobs[j].attempts

\* The run of a worker's own attempt has not succeeded before the worker says
\* so, and from then on the outputs it has let go of are on record.
Recorded(u) ==
    /\ u.pc \in {"reject", "execute", "insert", "work", "finish"} => runs[<<u.job, u.mine>>] # "succeeded"
    /\ u.pc = "outputs" =>
        /\ runs[<<u.job, u.mine>>] = u.outcome
        /\ u.outcome = "succeeded" => Outs \ u.todo \subseteq outputs[u.job]
    /\ u.pc = "settle" /\ u.outcome = "succeeded" =>
        /\ runs[<<u.job, u.mine>>] = "succeeded"
        /\ outputs[u.job] = Outs

WorkRecorded == \A w \in Workers : Recorded(worker[w])

RInv == IInv /\ AttemptsAreUnique /\ RunsClaimed /\ WorkRecorded /\ SucceededHasOutputs

\* Only the worker that holds an attempt works under it.
LEMMA Unshared ==
    ASSUME IInv, AttemptsAreUnique, NEW v \in Workers, NEW w \in Workers, v # w,
           worker[v].pc \in Busy, worker[w].pc \in Busy
    PROVE  <<worker[v].job, worker[v].mine>> # <<worker[w].job, worker[w].mine>>
<1>1. worker[v].job \in JobIds /\ worker[w].job \in JobIds
  BY WorkerAt
<1>2. worker[v].job = worker[w].job => worker[v].mine # worker[w].mine
  BY <1>1 DEF AttemptsAreUnique, AtWork, WorkerPCs, Busy
<1> QED BY <1>2

\* Attempts stay unique while no worker takes a new one.
LEMMA UniqueKept ==
    ASSUME IInv, IInv', AttemptsAreUnique,
           \A w \in Workers : worker'[w].pc \in Busy =>
              /\ worker[w].pc \in Busy
              /\ worker'[w].job = worker[w].job /\ worker'[w].mine = worker[w].mine
    PROVE  AttemptsAreUnique'
<1> SUFFICES ASSUME NEW v \in Workers, NEW w \in Workers, NEW j \in JobIds,
                    AtWork(v, j)', AtWork(w, j)'
             PROVE  /\ v # w => worker'[v].mine # worker'[w].mine
                    /\ worker'[v].mine <= jobs'[j].attempts
  BY DEF AttemptsAreUnique
<1>1. \A x \in Workers : AtWork(x, j)' => worker'[x].job = j /\ worker'[x].pc \in Busy
  <2> SUFFICES ASSUME NEW x \in Workers, AtWork(x, j)' PROVE worker'[x].job = j /\ worker'[x].pc \in Busy
    OBVIOUS
  <2>1. worker'[x].job = j /\ j # None /\ worker'[x].pc \in WorkerPCs \ {"list", "resweep", "claim"}
    BY NoneIsOutside DEF AtWork
  <2>2. worker'[x].pc \in {"sweep", "list", "down"} => worker'[x].job = None
    BY DEF IInv, ClaimsHeld, Claimed
  <2> QED BY <2>1, <2>2 DEF WorkerPCs, Busy
<1>2. v # w => worker'[v].mine # worker'[w].mine
  BY <1>1, Unshared
<1>3. worker'[v].mine <= jobs'[j].attempts
  <2>1. worker'[v].mine \in 1 .. jobs'[worker'[v].job].attempts
    BY <1>1 DEF IInv, ClaimsHeld, Claimed
  <2> QED BY <1>1, <2>1
<1> QED BY <1>2, <1>3

\* Runs stay under claimed attempts when a worker writes its own.
LEMMA RunsKept ==
    ASSUME RInv, Grows, IInv', NEW w \in Workers,
           \/ runs' = runs
           \/ /\ worker[w].pc \in Busy
              /\ \E s \in RunStatuses : runs' = [runs EXCEPT ![<<worker[w].job, worker[w].mine>>] = s]
    PROVE  RunsClaimed'
<1> SUFFICES ASSUME NEW j \in JobIds, NEW a \in 1 .. MaxAttempts, runs'[<<j, a>>] # None
             PROVE  j \in Existing' /\ a <= jobs'[j].attempts
  BY DEF RunsClaimed
<1>1. ASSUME j \in Existing, a <= jobs[j].attempts PROVE j \in Existing' /\ a <= jobs'[j].attempts
  <2>1. jobs'[j] # None /\ jobs'[j].attempts >= jobs[j].attempts
    BY <1>1 DEF Grows
  <2>2. j \in Existing'
    BY <2>1 DEF Existing
  <2>3. jobs[j].attempts \in Nat /\ jobs'[j].attempts \in Nat
    BY <1>1, <2>2, RowType, AttemptsBound DEF RInv, IInv, TypeOK, Job, Existing
  <2> QED BY <1>1, <2>1, <2>2, <2>3
<1>2. CASE runs[<<j, a>>] # None
  BY <1>1, <1>2 DEF RInv, RunsClaimed
<1>3. CASE runs[<<j, a>>] = None
  <2>1. worker[w].pc \in Busy /\ <<j, a>> = <<worker[w].job, worker[w].mine>>
    BY <1>3, WorkerAt DEF RInv
  <2>2. j \in Existing /\ a <= jobs[j].attempts
    BY <2>1, WorkerAt DEF RInv, Claimed
  <2> QED BY <1>1, <2>2
<1> QED BY <1>2, <1>3

\* A job that has succeeded keeps its succeeded run and its outputs.
LEMMA SuccessKept ==
    ASSUME RInv, IInv',
           \A j \in JobIds, a \in 1 .. MaxAttempts :
              runs[<<j, a>>] = "succeeded" => runs'[<<j, a>>] = "succeeded",
           \A j \in JobIds : outputs[j] \subseteq outputs'[j],
           \A j \in Existing' : jobs'[j].state = "succeeded" =>
              \/ j \in Existing /\ jobs[j].state = "succeeded"
              \/ /\ \E a \in 1 .. MaxAttempts : runs[<<j, a>>] = "succeeded"
                 /\ outputs[j] = Outs
    PROVE  SucceededHasOutputs'
<1> SUFFICES ASSUME NEW j \in Existing', jobs'[j].state = "succeeded"
             PROVE  /\ \E a \in 1 .. MaxAttempts : runs'[<<j, a>>] = "succeeded"
                    /\ outputs'[j] = Outs
  BY DEF SucceededHasOutputs
<1>1. j \in JobIds
  BY DEF Existing
<1>2. (\E a \in 1 .. MaxAttempts : runs[<<j, a>>] = "succeeded") /\ outputs[j] = Outs
  BY DEF RInv, SucceededHasOutputs
<1>3. outputs'[j] \subseteq Outs
  BY <1>1 DEF IInv, TypeOK
<1> QED BY <1>1, <1>2, <1>3

\* What the others have on record is not touched by a worker that writes a run
\* of its own attempt or adds outputs.
LEMMA RecordsOfOthers ==
    ASSUME RInv, IInv', NEW w \in Workers,
           \A v \in Workers \ {w} : worker'[v] = worker[v],
           \/ runs' = runs
           \/ /\ worker[w].pc \in Busy
              /\ \E s \in RunStatuses : runs' = [runs EXCEPT ![<<worker[w].job, worker[w].mine>>] = s],
           \A j \in JobIds : outputs[j] \subseteq outputs'[j],
           Recorded(worker[w])'
    PROVE  WorkRecorded'
<1> SUFFICES ASSUME NEW v \in Workers, v # w PROVE Recorded(worker[v])'
  BY DEF WorkRecorded
<1>1. PICK x \in Worker : x = worker[v] /\ x = worker'[v]
  BY WorkerAt DEF RInv
<1>2. CASE x.pc \notin Busy
  BY <1>1, <1>2 DEF Recorded, Busy
<1>3. CASE x.pc \in Busy
  <2>1. x.job \in JobIds /\ x.mine \in 1 .. MaxAttempts
    BY <1>1, <1>3, WorkerAt DEF RInv
  <2>2. runs'[<<x.job, x.mine>>] = runs[<<x.job, x.mine>>]
    <3>1. worker[w].pc \in Busy => <<x.job, x.mine>> # <<worker[w].job, worker[w].mine>>
      BY <1>1, <1>3, Unshared DEF RInv
    <3> QED BY <2>1, <3>1, WorkerAt DEF RInv
  <2>3. outputs[x.job] \subseteq outputs'[x.job] /\ outputs'[x.job] \subseteq Outs
    BY <2>1 DEF IInv, TypeOK
  <2>4. Recorded(x)
    BY <1>1 DEF RInv, WorkRecorded
  <2>5. Recorded(x)'
    BY <2>2, <2>3, <2>4 DEF Recorded
  <2> QED BY <1>1, <2>5 DEF Recorded
<1> QED BY <1>2, <1>3

\* A step that moves no run and no output, and after which every worker at work
\* holds the attempt it held, with nothing more to show for it, keeps the records.
LEMMA RecordsKept ==
    ASSUME RInv, IInv', Grows, UNCHANGED <<runs, outputs>>,
           \A w \in Workers : worker'[w].pc \in Busy =>
              /\ worker[w].pc \in Busy
              /\ worker'[w].job = worker[w].job /\ worker'[w].mine = worker[w].mine
              /\ Recorded(worker'[w]),
           \A j \in Existing' : jobs'[j].state = "succeeded" =>
              \/ j \in Existing /\ jobs[j].state = "succeeded"
              \/ /\ \E a \in 1 .. MaxAttempts : runs[<<j, a>>] = "succeeded"
                 /\ outputs[j] = Outs
    PROVE  RInv'
<1>1. AttemptsAreUnique'
  BY UniqueKept DEF RInv
<1>2. RunsClaimed'
  <2> SUFFICES ASSUME NEW j \in JobIds, NEW a \in 1 .. MaxAttempts, runs[<<j, a>>] # None
               PROVE  j \in Existing' /\ a <= jobs'[j].attempts
    BY DEF RunsClaimed
  <2>1. j \in Existing /\ a <= jobs[j].attempts
    BY DEF RInv, RunsClaimed
  <2>2. j \in Existing' /\ jobs'[j].attempts >= jobs[j].attempts
    BY <2>1 DEF Grows, Existing
  <2>3. jobs[j].attempts \in Nat /\ jobs'[j].attempts \in Nat
    BY <2>1, <2>2, RowType, AttemptsBound DEF RInv, IInv, TypeOK, Job, Existing
  <2> QED BY <2>1, <2>2, <2>3
<1>3. WorkRecorded'
  <2> SUFFICES ASSUME NEW w \in Workers PROVE Recorded(worker[w])'
    BY DEF WorkRecorded
  <2>1. CASE worker'[w].pc \in Busy
    BY <2>1 DEF Recorded
  <2>2. CASE worker'[w].pc \notin Busy
    BY <2>2 DEF Recorded, Busy
  <2> QED BY <2>1, <2>2
<1>4. SucceededHasOutputs'
  BY SuccessKept
<1> QED BY <1>1, <1>2, <1>3, <1>4 DEF RInv

\* The same of a step by which one worker moves to u and no job succeeds.
LEMMA QuietMove ==
    ASSUME RInv, IInv', Grows, UNCHANGED <<runs, outputs>>,
           NEW w \in Workers, NEW u, worker' = [worker EXCEPT ![w] = u],
           u.pc \in Busy =>
              /\ worker[w].pc \in Busy
              /\ u.job = worker[w].job /\ u.mine = worker[w].mine
              /\ Recorded(u),
           \A j \in Existing' : jobs'[j].state = "succeeded" => j \in Existing /\ jobs[j].state = "succeeded"
    PROVE  RInv'
<1>1. \A v \in Workers : worker'[v] = IF v = w THEN u ELSE worker[v]
  BY DEF RInv, IInv, TypeOK
<1>2. ASSUME NEW v \in Workers, worker'[v].pc \in Busy
      PROVE  /\ worker[v].pc \in Busy
             /\ worker'[v].job = worker[v].job /\ worker'[v].mine = worker[v].mine
             /\ Recorded(worker'[v])
  <2>1. CASE v = w
    BY <1>1, <1>2, <2>1
  <2>2. CASE v # w
    BY <1>1, <1>2, <2>2 DEF RInv, WorkRecorded
  <2> QED BY <2>1, <2>2
<1> QED BY <1>2, RecordsKept

\* The same of a step in which no worker moves.
LEMMA NoMove ==
    ASSUME RInv, IInv', Grows, UNCHANGED <<runs, outputs, worker>>,
           \A j \in Existing' : jobs'[j].state = "succeeded" => j \in Existing /\ jobs[j].state = "succeeded"
    PROVE  RInv'
<1>1. ASSUME NEW v \in Workers, worker'[v].pc \in Busy
      PROVE  /\ worker[v].pc \in Busy
             /\ worker'[v].job = worker[v].job /\ worker'[v].mine = worker[v].mine
             /\ Recorded(worker'[v])
  BY <1>1 DEF RInv, WorkRecorded
<1> QED BY <1>1, RecordsKept

\* A step of a worker that leaves jobs, runs and outputs alone.
LEMMA QuietRecords ==
    ASSUME RInv, IInv', Grows, NEW w \in Workers,
           \/ List(w) \/ Execute(w) \/ Work(w) \/ OutputThrows(w) \/ OutputsDone(w)
           \/ Crash(w) \/ Restart(w)
    PROVE  RInv'
<1>1. PICK x \in Worker : x = worker[w] /\ Claimed(x) /\ Recorded(x)
  BY WorkerAt DEF RInv, WorkRecorded
<1>2. UNCHANGED <<jobs, runs, outputs>> /\ worker \in [Workers -> Worker]
  BY DEF List, Execute, Work, OutputThrows, OutputsDone, Crash, Restart, RInv, IInv, TypeOK
<1>3. \A j \in Existing' : jobs'[j].state = "succeeded" => j \in Existing /\ jobs[j].state = "succeeded"
  BY <1>2 DEF Existing
<1>4. ASSUME NEW u, worker' = [worker EXCEPT ![w] = u],
             u.pc \in Busy =>
                x.pc \in Busy /\ u.job = x.job /\ u.mine = x.mine /\ Recorded(u)
      PROVE  RInv'
  BY <1>1, <1>2, <1>3, <1>4, QuietMove
<1>5. Looking.pc \notin Busy /\ Down.pc \notin Busy
  BY DEF Looking, Down, Busy
<1>6. CASE List(w)
  <2>1. CASE worker' = [worker EXCEPT ![w] = Looking]
    BY <1>4, <1>5, <2>1
  <2>2. ASSUME NEW j, worker' = [worker EXCEPT ![w] = [Looking EXCEPT !.pc = "resweep", !.job = j]]
        PROVE  RInv'
    <3>1. [Looking EXCEPT !.pc = "resweep", !.job = j].pc \notin Busy
      BY DEF Looking, Busy
    <3> QED BY <1>4, <2>2, <3>1
  <2> QED BY <1>6, <2>1, <2>2 DEF List
<1>7. CASE Execute(w)
  <2>1. x.pc = "execute"
    BY <1>1, <1>7 DEF Execute
  <2>2. PICK u \in {[x EXCEPT !.pc = "insert"], [x EXCEPT !.pc = "catch"],
                    [x EXCEPT !.pc = "settle", !.outcome = "failed"]} :
          worker' = [worker EXCEPT ![w] = u]
    BY <1>1, <1>2, <1>7 DEF Execute, Worker
  <2>3. x.pc \in Busy /\ u.job = x.job /\ u.mine = x.mine /\ Recorded(u)
    BY <1>1, <2>1, <2>2 DEF Recorded, Busy, Worker
  <2> QED BY <1>4, <2>2, <2>3
<1>8. CASE Work(w)
  <2>1. x.pc = "work"
    BY <1>1, <1>8 DEF Work
  <2>2. \/ \E result \in {"succeeded", "failed"} :
             worker' = [worker EXCEPT ![w] = [@ EXCEPT !.pc = "finish", !.outcome = result]]
        \/ worker' = [worker EXCEPT ![w] = [@ EXCEPT !.pc = "finish", !.outcome = "failed", !.retry = "pending"]]
        \/ worker' = [worker EXCEPT ![w].pc = "catch"]
    BY <1>8 DEF Work, Goes
  <2>3. PICK u \in {[x EXCEPT !.pc = "finish", !.outcome = "succeeded"],
                    [x EXCEPT !.pc = "finish", !.outcome = "failed"],
                    [x EXCEPT !.pc = "finish", !.outcome = "failed", !.retry = "pending"],
                    [x EXCEPT !.pc = "catch"]} : worker' = [worker EXCEPT ![w] = u]
    BY <1>1, <1>2, <2>2 DEF Worker
  <2>4. x.pc \in Busy /\ u.job = x.job /\ u.mine = x.mine /\ Recorded(u)
    BY <1>1, <2>1, <2>3 DEF Recorded, Busy, Worker
  <2> QED BY <1>4, <2>3, <2>4
<1>9. CASE OutputThrows(w) \/ OutputsDone(w)
  <2>1. x.pc = "outputs" /\ (OutputsDone(w) => x.todo = {})
    BY <1>1, <1>9 DEF OutputThrows, OutputsDone
  <2>2. PICK u \in {[x EXCEPT !.pc = "catch"], [x EXCEPT !.pc = "settle"]} :
          worker' = [worker EXCEPT ![w] = u] /\ (u.pc = "settle" => OutputsDone(w))
    BY <1>1, <1>9 DEF OutputThrows, OutputsDone, Goes, Worker
  <2>3. x.pc \in Busy /\ u.job = x.job /\ u.mine = x.mine /\ u.outcome = x.outcome
    BY <2>1, <2>2 DEF Busy, Worker
  <2>4. u.pc = "settle" /\ u.outcome = "succeeded" => outputs[x.job] = Outs
    <3>1. x.job \in JobIds /\ outputs \in [JobIds -> SUBSET Outs]
      BY <1>1, <2>3, WorkerAt DEF RInv
    <3> QED BY <1>1, <2>1, <2>2, <2>3, <3>1 DEF Recorded
  <2>5. Recorded(u)
    BY <1>1, <2>1, <2>2, <2>3, <2>4 DEF Recorded, Worker
  <2> QED BY <1>4, <2>2, <2>3, <2>5
<1>10. CASE Crash(w) \/ Restart(w)
  BY <1>4, <1>5, <1>10 DEF Crash, Restart
<1> QED BY <1>6, <1>7, <1>8, <1>9, <1>10

\* Reaping ends no work and makes nothing succeed.
LEMMA SweepRecords ==
    ASSUME RInv, IInv', Grows, NEW w \in Workers, Sweep(w) PROVE RInv'
<1>1. PICK x \in Worker : x = worker[w] /\ x.pc \in {"sweep", "resweep"}
  BY WorkerAt DEF RInv, Sweep
<1> DEFINE u == [x EXCEPT !.pc = IF x.pc = "sweep" THEN "list" ELSE "claim"]
<1>2. u.pc \notin Busy /\ worker' = [worker EXCEPT ![w] = u]
  BY <1>1 DEF Sweep, Goes, Busy, Worker
<1>3. \A j \in JobIds : jobs'[j] = Reaped(jobs[j]) /\ jobs[j] \in Job \cup {None}
  BY DEF Sweep, RInv, IInv, TypeOK
<1>4. \A j \in Existing' : jobs'[j].state = "succeeded" => j \in Existing /\ jobs[j].state = "succeeded"
  BY <1>3, NoneIsOutside DEF Existing, Reaped, Job
<1> HIDE DEF u
<1> QED BY <1>2, <1>4, QuietMove DEF Sweep

\* A claim takes an attempt that no one holds and nothing is recorded under.
LEMMA ClaimRecords ==
    ASSUME RInv, IInv', Grows, NEW w \in Workers, Claim(w) PROVE RInv'
<1>1. PICK x \in Worker : x = worker[w] /\ Claimed(x) /\ x.pc = "claim"
  BY WorkerAt DEF RInv, Claim
<1>2. PICK j \in Existing : j = x.job
  BY <1>1 DEF Claimed
<1>3. PICK row \in Job : row = jobs[j] /\ j \in JobIds
  BY <1>2, RowType DEF RInv, IInv
<1>4. row.attempts \in Nat
  BY AttemptsBound DEF Job
<1>5. CASE worker' = [worker EXCEPT ![w] = Looking] /\ UNCHANGED jobs
  <2>1. Looking.pc \notin Busy
    BY DEF Looking, Busy
  <2> QED BY <1>5, <2>1, QuietMove DEF Claim, Existing
<1>6. CASE /\ row.attempts + 1 <= MaxAttempts
           /\ jobs' = [jobs EXCEPT ![j] =
                [row EXCEPT !.state = "running", !.owner = w, !.lease = "live", !.attempts = row.attempts + 1]]
           /\ \E pc \in {"reject", "execute"} :
                worker' = [worker EXCEPT ![w] = [x EXCEPT !.mine = row.attempts + 1, !.pc = pc]]
  <2>1. PICK pc \in {"reject", "execute"} :
          worker' = [worker EXCEPT ![w] = [x EXCEPT !.mine = row.attempts + 1, !.pc = pc]]
    BY <1>6
  <2>2. \A v \in Workers : worker'[v] = IF v = w THEN [x EXCEPT !.mine = row.attempts + 1, !.pc = pc] ELSE worker[v]
    BY <2>1 DEF RInv, IInv, TypeOK
  <2>3. worker'[w].job = j /\ worker'[w].mine = row.attempts + 1 /\ worker'[w].pc = pc
    BY <1>2, <2>2 DEF Worker
  <2>4. jobs'[j].attempts = row.attempts + 1 /\ jobs'[j].state = "running"
    BY <1>3, <1>6 DEF RInv, IInv, TypeOK, Job
  <2>5. \A i \in JobIds : i # j => jobs'[i] = jobs[i]
    BY <1>6 DEF RInv, IInv, TypeOK
  <2>6. UNCHANGED <<runs, outputs>>
    BY DEF Claim
  <2>7. AttemptsAreUnique'
    <3> SUFFICES ASSUME NEW v \in Workers, NEW y \in Workers, NEW i \in JobIds,
                        AtWork(v, i)', AtWork(y, i)'
                 PROVE  /\ v # y => worker'[v].mine # worker'[y].mine
                        /\ worker'[v].mine <= jobs'[i].attempts
      BY DEF AttemptsAreUnique
    <3>1. \A z \in Workers \ {w} : AtWork(z, i)' => AtWork(z, i)
      BY <2>2 DEF AtWork
    <3>2. \A z \in Workers \ {w} : AtWork(z, i)' => worker[z].mine <= jobs[i].attempts /\ worker[z].mine \in Nat
      BY <3>1, AttemptsBound DEF RInv, AttemptsAreUnique, IInv, TypeOK, Worker
    <3>3. CASE v # w /\ y # w
      <4>1. v # y => worker'[v].mine # worker'[y].mine
        BY <2>2, <3>1, <3>3 DEF RInv, AttemptsAreUnique
      <4>2. worker'[v].mine <= jobs'[i].attempts
        BY <1>3, <1>4, <2>2, <2>4, <2>5, <3>2, <3>3
      <4> QED BY <4>1, <4>2
    <3>4. CASE v = w \/ y = w
      <4>1. i = j
        BY <2>3, <3>4 DEF AtWork
      <4>2. \A z \in Workers \ {w} : AtWork(z, i)' => worker'[z].mine \in Nat /\ worker'[z].mine <= row.attempts
        BY <1>3, <2>2, <3>2, <4>1
      <4> QED BY <1>4, <2>3, <2>4, <3>4, <4>1, <4>2
    <3> QED BY <3>3, <3>4
  <2>8. RunsClaimed'
    BY <2>6, RunsKept DEF RInv
  <2>9. WorkRecorded'
    <3>1. runs[<<j, row.attempts + 1>>] # "succeeded"
      <4>1. row.attempts + 1 \in 1 .. MaxAttempts
        BY <1>4, <1>6
      <4>2. ~(row.attempts + 1 <= row.attempts)
        BY <1>4
      <4>3. runs[<<j, row.attempts + 1>>] = None
        BY <1>3, <4>1, <4>2 DEF RInv, RunsClaimed
      <4> QED BY <4>3, NoneIsNoRow DEF RunStatuses
    <3>2. Recorded(worker[w])'
      BY <2>3, <2>6, <3>1 DEF Recorded
    <3>3. \A v \in Workers \ {w} : worker'[v] = worker[v]
      BY <2>2
    <3> QED BY <2>6, <3>2, <3>3, RecordsOfOthers DEF RInv, IInv, TypeOK
  <2>10. SucceededHasOutputs'
    <3>1. \A i \in Existing' : jobs'[i].state = "succeeded" => i \in Existing /\ jobs[i].state = "succeeded"
      BY <1>2, <2>4, <2>5 DEF Existing
    <3> QED BY <2>6, <3>1, SuccessKept
  <2> QED BY <2>7, <2>8, <2>9, <2>10 DEF RInv
<1>7. \/ worker' = [worker EXCEPT ![w] = Looking] /\ UNCHANGED jobs
      \/ /\ row.attempts + 1 <= MaxAttempts
         /\ jobs' = [jobs EXCEPT ![j] =
                [row EXCEPT !.state = "running", !.owner = w, !.lease = "live", !.attempts = row.attempts + 1]]
         /\ \E pc \in {"reject", "execute"} :
                worker' = [worker EXCEPT ![w] = [x EXCEPT !.mine = row.attempts + 1, !.pc = pc]]
  <2>1. worker \in [Workers -> Worker]
    BY DEF RInv, IInv, TypeOK
  <2> QED BY <1>1, <1>2, <1>3, <2>1 DEF Claim, Attempt, Worker
<1> QED BY <1>5, <1>6, <1>7

\* A worker that moves on with its attempt, after writing its run or an output,
\* keeps the records if its own are in order.
LEMMA OwnWrite ==
    ASSUME RInv, IInv', Grows, UNCHANGED jobs, NEW w \in Workers, NEW u \in Worker,
           worker[w].pc \in Busy, u.job = worker[w].job, u.mine = worker[w].mine,
           worker' = [worker EXCEPT ![w] = u],
           \/ runs' = runs
           \/ /\ runs[<<worker[w].job, worker[w].mine>>] # "succeeded"
              /\ \E s \in RunStatuses : runs' = [runs EXCEPT ![<<worker[w].job, worker[w].mine>>] = s],
           \A j \in JobIds : outputs[j] \subseteq outputs'[j],
           Recorded(u)'
    PROVE  RInv'
<1>1. \A v \in Workers : worker'[v] = IF v = w THEN u ELSE worker[v]
  BY DEF RInv, IInv, TypeOK
<1>2. AttemptsAreUnique'
  <2>1. \A v \in Workers : worker'[v].pc \in Busy =>
          /\ worker[v].pc \in Busy
          /\ worker'[v].job = worker[v].job /\ worker'[v].mine = worker[v].mine
    BY <1>1
  <2> QED BY <2>1, UniqueKept DEF RInv
<1>3. RunsClaimed'
  BY RunsKept
<1>4. WorkRecorded'
  <2>1. Recorded(worker[w])'
    BY <1>1 DEF Recorded
  <2>2. \A v \in Workers \ {w} : worker'[v] = worker[v]
    BY <1>1
  <2> QED BY <2>1, <2>2, RecordsOfOthers
<1>5. SucceededHasOutputs'
  <2>1. \A j \in JobIds, a \in 1 .. MaxAttempts :
          runs[<<j, a>>] = "succeeded" => runs'[<<j, a>>] = "succeeded"
    BY DEF RInv, IInv, TypeOK
  <2>2. \A j \in Existing' : jobs'[j].state = "succeeded" => j \in Existing /\ jobs[j].state = "succeeded"
    BY DEF Existing
  <2> QED BY <2>1, <2>2, SuccessKept
<1> QED BY <1>2, <1>3, <1>4, <1>5 DEF RInv

\* The run starts under the worker's own attempt.
LEMMA InsertRunRecords ==
    ASSUME RInv, IInv', Grows, NEW w \in Workers, InsertRun(w) PROVE RInv'
<1>1. PICK x \in Worker : x = worker[w] /\ Recorded(x) /\ x.pc = "insert"
  BY WorkerAt DEF RInv, WorkRecorded, InsertRun
<1> DEFINE u == [x EXCEPT !.pc = "work"]
<1>2. u \in Worker /\ u.job = x.job /\ u.mine = x.mine /\ u.pc = "work" /\ x.pc \in Busy
  BY <1>1 DEF Worker, WorkerPCs, Busy
<1>3. worker' = [worker EXCEPT ![w] = u]
  BY <1>1 DEF InsertRun, Goes
<1>4. runs' = [runs EXCEPT ![<<x.job, x.mine>>] = "started"] /\ runs[<<x.job, x.mine>>] # "succeeded"
  BY <1>1 DEF InsertRun, Recorded
<1>5. runs'[<<x.job, x.mine>>] # "succeeded"
  BY <1>1, <1>2, <1>4, WorkerAt DEF RInv
<1> HIDE DEF u
<1>6. Recorded(u)'
  BY <1>2, <1>5 DEF Recorded
<1> QED BY <1>1, <1>2, <1>3, <1>4, <1>6, OwnWrite DEF InsertRun, RunStatuses

\* The run closes with the stage's outcome, and all its outputs still to come.
LEMMA FinishRunRecords ==
    ASSUME RInv, IInv', Grows, NEW w \in Workers, FinishRun(w) PROVE RInv'
<1>1. PICK x \in Worker : x = worker[w] /\ Recorded(x) /\ Claimed(x) /\ x.pc = "finish"
  BY WorkerAt DEF RInv, WorkRecorded, FinishRun
<1> DEFINE produced == IF x.outcome = "succeeded" THEN Outs ELSE {}
           u == [x EXCEPT !.pc = "outputs", !.todo = produced]
<1>2. /\ u \in Worker /\ u.job = x.job /\ u.mine = x.mine /\ u.pc = "outputs" /\ x.pc \in Busy
      /\ u.outcome = x.outcome /\ u.todo = produced
  BY <1>1 DEF Worker, WorkerPCs, Busy
<1>3. worker' = [worker EXCEPT ![w] = u]
  BY <1>1 DEF FinishRun, RInv, IInv, TypeOK, Worker
<1>4. x.outcome \in RunStatuses
  BY <1>1 DEF Claimed, Worker, RunStatuses
<1>5. runs' = [runs EXCEPT ![<<x.job, x.mine>>] = x.outcome] /\ runs[<<x.job, x.mine>>] # "succeeded"
  BY <1>1 DEF FinishRun, Recorded
<1>6. runs'[<<x.job, x.mine>>] = x.outcome
  BY <1>1, <1>2, <1>5, WorkerAt DEF RInv
<1>7. u.outcome = "succeeded" => Outs \ u.todo = {}
  BY <1>2
<1> HIDE DEF u
<1>8. Recorded(u)'
  BY <1>2, <1>6, <1>7 DEF Recorded
<1> QED BY <1>1, <1>2, <1>3, <1>4, <1>5, <1>8, OwnWrite DEF FinishRun

\* An output goes from those to come to those on record.
LEMMA RecordOutputRecords ==
    ASSUME RInv, IInv', Grows, NEW w \in Workers, RecordOutput(w) PROVE RInv'
<1>1. PICK x \in Worker : x = worker[w] /\ Recorded(x) /\ x.pc = "outputs"
  BY WorkerAt DEF RInv, WorkRecorded, RecordOutput
<1>2. PICK o \in x.todo :
        /\ outputs' = [outputs EXCEPT ![x.job] = @ \cup {o}]
        /\ worker' = [worker EXCEPT ![w] = [x EXCEPT !.todo = @ \ {o}]]
  BY <1>1 DEF RecordOutput, RInv, IInv, TypeOK
<1> DEFINE u == [x EXCEPT !.todo = @ \ {o}]
<1>3. /\ u \in Worker /\ u.job = x.job /\ u.mine = x.mine /\ u.pc = "outputs" /\ x.pc \in Busy
      /\ u.outcome = x.outcome /\ u.todo = x.todo \ {o}
  BY <1>1 DEF Worker, Busy
<1>4. x.job \in JobIds /\ outputs \in [JobIds -> SUBSET Outs]
  BY <1>1, <1>3, WorkerAt DEF RInv
<1>5. outputs'[x.job] = outputs[x.job] \cup {o} /\ \A j \in JobIds : outputs[j] \subseteq outputs'[j]
  BY <1>2, <1>4
<1>6. runs' = runs /\ runs[<<x.job, x.mine>>] = x.outcome
  BY <1>1 DEF RecordOutput, Recorded
<1>7. u.outcome = "succeeded" => Outs \ u.todo \subseteq outputs'[u.job]
  BY <1>1, <1>3, <1>5 DEF Recorded
<1> HIDE DEF u
<1>8. Recorded(u)'
  BY <1>3, <1>6, <1>7 DEF Recorded
<1> QED BY <1>1, <1>2, <1>3, <1>5, <1>6, <1>8, OwnWrite DEF RecordOutput, u

\* A job is settled as succeeded only by a worker whose run succeeded and whose
\* outputs are all on record.
LEMMA SettleRecords ==
    ASSUME RInv, IInv', Grows, NEW w \in Workers, Settle(w) \/ Fail(w) PROVE RInv'
<1>1. PICK x \in Worker :
        x = worker[w] /\ Recorded(x) /\ Claimed(x) /\ x.pc \in {"settle", "catch", "reject"}
  BY WorkerAt DEF RInv, WorkRecorded, Settle, Fail
<1>2. x.job \in Existing /\ x.pc \in Busy /\ UNCHANGED <<runs, outputs>>
  BY <1>1 DEF Claimed, Busy, Settle, Fail
<1>3. Looking.pc \notin Busy /\ Down.pc \notin Busy
  BY DEF Looking, Down, Busy
<1>4. CASE UNCHANGED jobs
  <2>1. PICK u \in {Looking, Down, [x EXCEPT !.pc = "catch"]} : worker' = [worker EXCEPT ![w] = u]
    BY <1>1 DEF Settle, Fail, Goes
  <2>2. u.pc \in Busy => u.job = x.job /\ u.mine = x.mine /\ Recorded(u)
    BY <1>1, <1>3, <2>1 DEF Recorded, Worker
  <2> QED BY <1>1, <1>2, <1>4, <2>1, <2>2, QuietMove DEF Existing
<1>5. ASSUME NEW final \in {"succeeded", "failed"}, NEW retry \in {"never", "pending"},
             jobs' = [jobs EXCEPT ![x.job] = Finalized(jobs[x.job], final, retry)],
             worker' = [worker EXCEPT ![w] = Looking],
             final = "succeeded" => x.pc = "settle" /\ x.outcome = "succeeded"
      PROVE  RInv'
  <2>1. \A j \in JobIds :
          jobs'[j] = IF j = x.job THEN Finalized(jobs[x.job], final, retry) ELSE jobs[j]
    BY <1>5 DEF RInv, IInv, TypeOK
  <2>2. Finalized(jobs[x.job], final, retry).state = final
    BY <1>2, FinalizedRow, RowType DEF RInv, IInv
  <2>3. ASSUME NEW j \in Existing', jobs'[j].state = "succeeded"
        PROVE  \/ j \in Existing /\ jobs[j].state = "succeeded"
               \/ /\ \E a \in 1 .. MaxAttempts : runs[<<j, a>>] = "succeeded"
                  /\ outputs[j] = Outs
    <3>1. CASE j = x.job
      <4>1. runs[<<j, x.mine>>] = "succeeded" /\ outputs[j] = Outs
        BY <1>1, <1>5, <2>1, <2>2, <2>3, <3>1 DEF Recorded, Existing
      <4>2. x.mine \in 1 .. MaxAttempts
        BY <1>1, <1>2, WorkerAt DEF RInv
      <4> QED BY <4>1, <4>2
    <3>2. CASE j # x.job
      BY <2>1, <2>3, <3>2 DEF Existing
    <3> QED BY <3>1, <3>2
  <2>4. ASSUME NEW v \in Workers, worker'[v].pc \in Busy
        PROVE  /\ worker[v].pc \in Busy
               /\ worker'[v].job = worker[v].job /\ worker'[v].mine = worker[v].mine
               /\ Recorded(worker'[v])
    <3>1. worker'[v] = IF v = w THEN Looking ELSE worker[v]
      BY <1>5 DEF RInv, IInv, TypeOK
    <3>2. worker'[v] = worker[v]
      BY <1>3, <2>4, <3>1
    <3> QED BY <2>4, <3>2 DEF RInv, WorkRecorded
  <2> QED BY <1>2, <2>3, <2>4, RecordsKept
<1>6. CASE Settle(w) /\ Running(x.job)
  <2>1. /\ jobs' = [jobs EXCEPT ![x.job] = Finalized(jobs[x.job], x.outcome, x.retry)]
        /\ worker' = [worker EXCEPT ![w] = Looking] /\ x.pc = "settle"
    BY <1>1, <1>6 DEF Settle
  <2>2. x.outcome \in {"succeeded", "failed"} /\ x.retry \in {"never", "pending"}
    BY <1>1, <2>1 DEF Claimed, Worker
  <2> QED BY <1>5, <2>1, <2>2
<1>7. CASE Fail(w) /\ Running(x.job)
  <2>1. /\ jobs' = [jobs EXCEPT ![x.job] = Finalized(jobs[x.job], "failed", "never")]
        /\ worker' = [worker EXCEPT ![w] = Looking]
    BY <1>1, <1>7 DEF Fail
  <2> QED BY <1>5, <2>1
<1>8. CASE ~Running(x.job)
  <2>1. UNCHANGED jobs
    BY <1>1, <1>8 DEF Settle, Fail
  <2> QED BY <1>4, <2>1
<1> QED BY <1>6, <1>7, <1>8

\* Clients, clocks and cancel requests settle no job and move no worker.
LEMMA OtherRecords ==
    ASSUME RInv, IInv', Grows,
           \/ \E c \in Clients : Insert(c) \/ \E k \in Keys, d \in Digests : Probe(c, k, d)
           \/ \E j \in JobIds : RequestCancel(j) \/ Expire(j) \/ RetryDue(j)
           \/ UNCHANGED vars
    PROVE  RInv'
<1>1. jobs \in [JobIds -> Job \cup {None}]
  BY DEF RInv, IInv, TypeOK
<1>2. CASE UNCHANGED <<jobs, runs, outputs, worker>>
  BY <1>2, NoMove DEF Existing
<1>3. ASSUME NEW c \in Clients, Insert(c), jobs' # jobs PROVE RInv'
  <2>1. PICK n : n = Cardinality(Existing) + 1 /\ jobs' = [jobs EXCEPT ![n] = NewJob(client[c].key, client[c].digest)]
    BY <1>3 DEF Insert
  <2>2. \A j \in Existing' : jobs'[j].state = "succeeded" => j \in Existing /\ jobs[j].state = "succeeded"
    BY <1>1, <2>1 DEF Existing, NewJob
  <2> QED BY <1>3, <2>2, NoMove DEF Insert
<1>4. ASSUME NEW i \in JobIds, RequestCancel(i) \/ Expire(i) \/ RetryDue(i) PROVE RInv'
  <2>1. \A j \in JobIds : (jobs[j] = None => jobs'[j] = None) /\ (jobs[j] # None => jobs'[j].state = jobs[j].state)
    BY <1>1, <1>4 DEF RequestCancel, Expire, RetryDue, Running, Job
  <2>2. \A j \in Existing' : jobs'[j].state = "succeeded" => j \in Existing /\ jobs[j].state = "succeeded"
    BY <2>1 DEF Existing
  <2>3. UNCHANGED <<runs, outputs, worker>>
    BY <1>4 DEF RequestCancel, Expire, RetryDue
  <2> QED BY <2>2, <2>3, NoMove
<1>5. ASSUME NEW c \in Clients, NEW k \in Keys, NEW d \in Digests, Probe(c, k, d) PROVE RInv'
  BY <1>2, <1>5 DEF Probe
<1>6. ASSUME NEW c \in Clients, Insert(c), jobs' = jobs PROVE RInv'
  BY <1>2, <1>6 DEF Insert
<1>7. CASE UNCHANGED vars
  BY <1>2, <1>7 DEF vars
<1> QED BY <1>3, <1>4, <1>5, <1>6, <1>7

\* Nothing is on record in an empty database.
LEMMA InitRecords == Init => RInv
<1> SUFFICES ASSUME Init PROVE RInv
  OBVIOUS
<1>1. IInv
  BY InitInv
<1>2. Existing = {} /\ \A w \in Workers : worker[w].pc = "sweep" /\ worker[w].job = None
  BY DEF Init, Existing, Looking
<1>3. AttemptsAreUnique
  BY <1>2, NoneIsOutside DEF AttemptsAreUnique, AtWork
<1>4. RunsClaimed /\ SucceededHasOutputs
  BY <1>2 DEF Init, RunsClaimed, SucceededHasOutputs
<1>5. WorkRecorded
  BY <1>2 DEF WorkRecorded, Recorded
<1> QED BY <1>1, <1>3, <1>4, <1>5 DEF RInv

\* Every step keeps attempts apart and records complete.
LEMMA NextRecords == RInv /\ [Next]_vars => RInv'
<1> SUFFICES ASSUME RInv, [Next]_vars PROVE RInv'
  OBVIOUS
<1>1. IInv' /\ Grows
  BY NextInv DEF RInv
<1>2. ASSUME NEW w \in Workers, RunnerStep(w) \/ Crash(w) \/ Restart(w) PROVE RInv'
  BY <1>1, <1>2, QuietRecords, SweepRecords, ClaimRecords, InsertRunRecords, FinishRunRecords,
     RecordOutputRecords, SettleRecords DEF RunnerStep
<1> QED BY <1>1, <1>2, OtherRecords DEF Next

\* Attempts are unique and records complete throughout.
LEMMA RecordsHold == Spec => []RInv
<1> QED BY InitRecords, NextRecords, PTL DEF Spec

\* Of the workers that run one job after takeovers, no two run the same attempt.
THEOREM AttemptsUnique == Spec => []AttemptsAreUnique
<1>1. RInv => AttemptsAreUnique
  BY DEF RInv
<1> QED BY <1>1, RecordsHold, PTL

\* A job that reads as succeeded has its succeeded run and all its outputs,
\* though a late worker can settle a job that another has taken over.
THEOREM SuccessIsComplete == Spec => []SucceededHasOutputs
<1>1. RInv => SucceededHasOutputs
  BY DEF RInv
<1> QED BY <1>1, RecordsHold, PTL

--------------------------------------------------------------------------------
(* The ledger *)

Book == [j \in JobIds |-> Entry(jobs[j])]

\* The entry of a row.
LEMMA RowEntry ==
    ASSUME NEW row \in Job
    PROVE  /\ Entry(row).key = row.key /\ Entry(row).digest = row.digest
           /\ Entry(row).status = StatusOf(row) /\ Entry(row).attempts = row.attempts
           /\ Entry(row) = [key |-> row.key, digest |-> row.digest,
                            status |-> StatusOf(row), attempts |-> row.attempts]
BY NoneIsOutside DEF Entry

\* What is in the book for a job.
LEMMA BookAt ==
    ASSUME IInv, NEW j \in Existing
    PROVE  /\ Book[j] = [key |-> jobs[j].key, digest |-> jobs[j].digest,
                         status |-> StatusOf(jobs[j]), attempts |-> jobs[j].attempts]
           /\ Book[j].key = jobs[j].key /\ Book[j].attempts = jobs[j].attempts
           /\ Book[j].status = StatusOf(jobs[j])
BY RowType, RowEntry DEF IInv, Book

\* A row that is replaced is an entry that is replaced.
LEMMA BookWritten ==
    ASSUME IInv, NEW j \in JobIds, NEW row, jobs' = [jobs EXCEPT ![j] = row]
    PROVE  Book' = [Book EXCEPT ![j] = Entry(row)]
<1>1. \A i \in JobIds : jobs'[i] = IF i = j THEN row ELSE jobs[i]
  BY DEF IInv, TypeOK
<1>2. Book' = [i \in JobIds |-> IF i = j THEN Entry(row) ELSE Entry(jobs[i])]
  BY <1>1 DEF Book
<1> QED BY <1>2 DEF Book

\* Nothing that the ledger sees has changed.
LEMMA BookKept ==
    ASSUME \A j \in JobIds : Entry(jobs'[j]) = Entry(jobs[j]), UNCHANGED outputs
    PROVE  UNCHANGED Ledger!vars
BY DEF Ledger!vars

\* Clients: the first to insert a key enqueues its job.
LEMMA InsertMaps ==
    ASSUME RInv, NEW c \in Clients, Insert(c)
    PROVE  [Ledger!Next]_Ledger!vars
<1>1. CASE UNCHANGED jobs
  BY <1>1, BookKept DEF Insert
<1>2. CASE jobs' # jobs
  <2> DEFINE next == Cardinality(Existing) + 1
             k == client[c].key
             d == client[c].digest
  <2>1. WithKey(k) = {} /\ next <= MaxJobs /\ jobs' = [jobs EXCEPT ![next] = NewJob(k, d)]
    BY <1>2 DEF Insert
  <2>2. next \in JobIds \ Existing /\ jobs[next] = None
    BY <2>1, NextRow DEF RInv, Existing
  <2>3. k \in Keys /\ d \in Digests
    BY DEF Insert, RInv, IInv, ClientsTold, Asked
  <2>4. NewJob(k, d) \in Job
    BY <2>3, AttemptsBound DEF NewJob, Job, States, Final
  <2>5. Entry(NewJob(k, d)) = Ledger!Fresh(k, d)
    BY <2>4, RowEntry DEF NewJob, StatusOf, Ledger!Fresh
  <2>6. Book[next] = Ledger!Blank
    BY <2>2 DEF Book, Entry, Ledger!Blank
  <2>7. ASSUME NEW i \in JobIds PROVE Book[i].key # k
    <3>1. CASE i \in Existing
      <4>1. Book[i].key = jobs[i].key
        BY <3>1, BookAt DEF RInv
      <4> QED BY <2>1, <3>1, <4>1 DEF WithKey
    <3>2. CASE i \notin Existing
      BY <2>3, <3>2, NoneIsOutside DEF Existing, Book, Entry
    <3> QED BY <3>1, <3>2
  <2>8. Book' = [Book EXCEPT ![next] = Ledger!Fresh(k, d)]
    BY <2>1, <2>2, <2>5, BookWritten DEF RInv
  <2> HIDE DEF next, k, d
  <2>9. Ledger!Enqueue(next, k, d)
    BY <2>6, <2>7, <2>8 DEF Ledger!Enqueue, Book, Insert
  <2> QED BY <2>2, <2>3, <2>9 DEF Ledger!Next
<1> QED BY <1>1, <1>2

\* A claim that wins is a start.
LEMMA ClaimMaps ==
    ASSUME RInv, NEW w \in Workers, Claim(w)
    PROVE  [Ledger!Next]_Ledger!vars
<1>1. CASE UNCHANGED jobs
  BY <1>1, BookKept DEF Claim
<1>2. CASE jobs' # jobs
  <2> DEFINE j == worker[w].job
             row == [jobs[j] EXCEPT !.state = "running", !.owner = w, !.lease = "live",
                                    !.attempts = jobs[j].attempts + 1]
  <2>1. Claimable(jobs[j]) /\ jobs[j].attempts + 1 <= MaxAttempts /\ jobs' = [jobs EXCEPT ![j] = row]
    BY <1>2 DEF Claim, Attempt
  <2>2. j \in Existing /\ j \in JobIds /\ jobs[j] \in Job
    BY RowType DEF Claim, RInv, IInv, ClaimsHeld, Claimed
  <2>3. row \in Job /\ row.state = "running" /\ row.attempts = jobs[j].attempts + 1
        /\ row.key = jobs[j].key /\ row.digest = jobs[j].digest
    <3>1. jobs[j].attempts + 1 \in 0 .. MaxAttempts
      BY <2>1, <2>2, AttemptsBound DEF Job
    <3> QED BY <2>2, <3>1 DEF Job, States
  <2>4. StatusOf(jobs[j]) \in {"queued", "retry"}
    BY <2>1 DEF Claimable, StatusOf
  <2>5. Book[j] = [key |-> jobs[j].key, digest |-> jobs[j].digest,
                   status |-> StatusOf(jobs[j]), attempts |-> jobs[j].attempts]
    BY <2>2, BookAt DEF RInv
  <2>6. Entry(row) = [Book[j] EXCEPT !.status = "running", !.attempts = Book[j].attempts + 1]
    <3>1. StatusOf(row) = "running"
      BY <2>3 DEF StatusOf
    <3> HIDE DEF row
    <3>2. Entry(row) = [key |-> row.key, digest |-> row.digest,
                        status |-> StatusOf(row), attempts |-> row.attempts]
      BY <2>3, RowEntry
    <3>3. Entry(row) = [key |-> jobs[j].key, digest |-> jobs[j].digest,
                        status |-> "running", attempts |-> jobs[j].attempts + 1]
      BY <2>3, <3>1, <3>2
    <3>4. PICK e : e = Book[j]
      OBVIOUS
    <3>5. e = [key |-> jobs[j].key, digest |-> jobs[j].digest,
               status |-> StatusOf(jobs[j]), attempts |-> jobs[j].attempts]
      BY <2>5, <3>4
    <3>6. [e EXCEPT !.status = "running", !.attempts = jobs[j].attempts + 1]
          = [key |-> jobs[j].key, digest |-> jobs[j].digest,
             status |-> "running", attempts |-> jobs[j].attempts + 1]
      <4>1. [e EXCEPT !.status = "running"]
            = [key |-> jobs[j].key, digest |-> jobs[j].digest,
               status |-> "running", attempts |-> jobs[j].attempts]
        BY <3>5
      <4>2. \A f : f = [key |-> jobs[j].key, digest |-> jobs[j].digest,
                        status |-> "running", attempts |-> jobs[j].attempts]
               => [f EXCEPT !.attempts = jobs[j].attempts + 1]
                  = [key |-> jobs[j].key, digest |-> jobs[j].digest,
                     status |-> "running", attempts |-> jobs[j].attempts + 1]
        OBVIOUS
      <4> QED BY <4>1, <4>2
    <3>7. Book[j].attempts = jobs[j].attempts
      BY <2>2, BookAt DEF RInv
    <3> QED BY <3>3, <3>4, <3>6, <3>7
  <2>7. Book' = [Book EXCEPT ![j] = Entry(row)]
    BY <2>1, <2>2, BookWritten DEF RInv
  <2> HIDE DEF j, row
  <2>8. Ledger!Start(j)
    <3>1. Book[j].status \in {"queued", "retry"}
      BY <2>4, <2>5
    <3>2. Book' = [Book EXCEPT ![j] = [@ EXCEPT !.status = "running", !.attempts = Book[j].attempts + 1]]
      BY <2>2, <2>6, <2>7 DEF Book
    <3>3. UNCHANGED outputs
      BY DEF Claim
    <3> QED BY <3>1, <3>2, <3>3 DEF Ledger!Start, Book
  <2> QED BY <2>2, <2>8 DEF Ledger!Next
<1> QED BY <1>1, <1>2

\* A reap gives back the jobs whose lease ran out, none or several at once.
LEMMA SweepMaps ==
    ASSUME RInv, NEW w \in Workers, Sweep(w)
    PROVE  [Ledger!Next]_Ledger!vars
<1> DEFINE J == {j \in Existing : jobs[j].state = "running" /\ jobs[j].lease = "expired"}
<1>1. J \in SUBSET JobIds
  BY DEF Existing
<1>2. \A j \in J : Book[j].status = "running"
  <2> SUFFICES ASSUME NEW j \in J PROVE Book[j].status = "running"
    OBVIOUS
  <2>1. Book[j].status = StatusOf(jobs[j])
    BY BookAt DEF RInv
  <2> QED BY <2>1 DEF StatusOf
<1>3. ASSUME NEW j \in JobIds
      PROVE  Entry(jobs'[j]) = IF j \in J THEN [Book[j] EXCEPT !.status = "queued"] ELSE Book[j]
  <2>1. jobs'[j] = Reaped(jobs[j])
    BY DEF Sweep
  <2>2. CASE j \in J
    <3>1. jobs[j] \in Job /\ jobs[j] # None /\ j \in Existing
      BY <2>2, RowType DEF RInv, IInv
    <3>2. PICK row : row = jobs'[j]
      OBVIOUS
    <3>3. /\ row \in Job /\ row.state = "queued" /\ row.key = jobs[j].key
          /\ row.digest = jobs[j].digest /\ row.attempts = jobs[j].attempts
      BY <2>1, <2>2, <3>1, <3>2 DEF Reaped, Job, States
    <3>4. Entry(row) = [key |-> jobs[j].key, digest |-> jobs[j].digest,
                        status |-> "queued", attempts |-> jobs[j].attempts]
      BY <3>3, RowEntry DEF StatusOf
    <3>5. Book[j] = [key |-> jobs[j].key, digest |-> jobs[j].digest,
                     status |-> StatusOf(jobs[j]), attempts |-> jobs[j].attempts]
      BY <3>1, BookAt DEF RInv
    <3> QED BY <2>2, <3>2, <3>4, <3>5
  <2>3. CASE j \notin J
    <3>1. jobs'[j] = jobs[j]
      BY <2>1, <2>3 DEF Reaped, Existing
    <3> QED BY <2>3, <3>1 DEF Book
  <2> QED BY <2>2, <2>3
<1>4. Book' = [j \in JobIds |-> IF j \in J THEN [Book[j] EXCEPT !.status = "queued"] ELSE Book[j]]
  BY <1>3 DEF Book
<1> HIDE DEF J
<1>5. Ledger!Lapse(J)
  <2>1. UNCHANGED outputs
    BY DEF Sweep
  <2> QED BY <1>2, <1>4, <2>1 DEF Ledger!Lapse, Book
<1> QED BY <1>1, <1>5 DEF Ledger!Next

\* A worker delivers under an attempt, its own, even if others have taken over.
LEMMA RecordMaps ==
    ASSUME RInv, NEW w \in Workers, RecordOutput(w)
    PROVE  [Ledger!Next]_Ledger!vars
<1> DEFINE j == worker[w].job
<1>1. PICK o \in worker[w].todo : outputs' = [outputs EXCEPT ![j] = @ \cup {o}]
  BY DEF RecordOutput
<1>2. j \in Existing /\ worker[w].mine \in 1 .. jobs[j].attempts /\ o \in Outs
  <2>1. Claimed(worker[w]) /\ worker[w] \in Worker /\ worker[w].pc = "outputs"
    BY DEF RecordOutput, RInv, IInv, ClaimsHeld, TypeOK
  <2> QED BY <1>1, <2>1 DEF Claimed, Busy, Worker
<1>3. j \in JobIds /\ jobs[j].attempts \in Nat
  BY <1>2, RowType, AttemptsBound DEF RInv, IInv, Job
<1>4. Book[j].attempts > 0
  <2>1. jobs[j].attempts > 0
    BY <1>2, <1>3
  <2>2. Book[j].attempts = jobs[j].attempts
    BY <1>2, BookAt DEF RInv
  <2> QED BY <2>1, <2>2
<1>5. UNCHANGED Book
  BY DEF RecordOutput, Book
<1> HIDE DEF j
<1>6. Ledger!Deliver(j, o)
  BY <1>1, <1>4, <1>5 DEF Ledger!Deliver, Book
<1> QED BY <1>2, <1>3, <1>6 DEF Ledger!Next

\* A job is settled by whoever comes first, as succeeded only when it is whole.
LEMMA SettleMaps ==
    ASSUME RInv, NEW w \in Workers, Settle(w) \/ Fail(w)
    PROVE  [Ledger!Next]_Ledger!vars
<1>1. UNCHANGED outputs
  BY DEF Settle, Fail
<1>2. CASE UNCHANGED jobs
  BY <1>1, <1>2, BookKept
<1>3. PICK x \in Worker : x = worker[w] /\ Claimed(x) /\ Recorded(x)
  BY DEF RInv, IInv, TypeOK, ClaimsHeld, WorkRecorded
<1>4. ASSUME NEW final \in {"succeeded", "failed"}, NEW retry \in {"never", "pending"},
             x.job \in Existing, jobs[x.job].state = "running",
             jobs' = [jobs EXCEPT ![x.job] = Finalized(jobs[x.job], final, retry)],
             final = "succeeded" => outputs[x.job] = Outs
      PROVE  [Ledger!Next]_Ledger!vars
  <2> DEFINE j == x.job
  <2>1. PICK row : row = Finalized(jobs[j], final, retry)
    OBVIOUS
  <2>2. j \in JobIds /\ jobs[j] \in Job
    BY <1>4, RowType DEF RInv, IInv
  <2>3. /\ row \in Job /\ row.state = final /\ row.retry = retry /\ row.key = jobs[j].key
        /\ row.digest = jobs[j].digest /\ row.attempts = jobs[j].attempts
    BY <2>1, <2>2, FinalizedRow
  <2>4. PICK to : to = StatusOf(row)
    OBVIOUS
  <2>5. to \in {"retry", "succeeded", "failed"} /\ (to = "succeeded" => outputs[j] = Outs)
    BY <1>4, <2>3, <2>4 DEF StatusOf
  <2>6. Book[j] = [key |-> jobs[j].key, digest |-> jobs[j].digest,
                   status |-> StatusOf(jobs[j]), attempts |-> jobs[j].attempts]
    BY <1>4, BookAt DEF RInv
  <2>7. Book[j].status = "running"
    BY <1>4, <2>6 DEF StatusOf
  <2>8. Entry(row) = [Book[j] EXCEPT !.status = to]
    <3>1. Entry(row) = [key |-> jobs[j].key, digest |-> jobs[j].digest,
                        status |-> to, attempts |-> jobs[j].attempts]
      BY <2>3, <2>4, RowEntry
    <3> QED BY <2>6, <3>1
  <2>9. Book' = [Book EXCEPT ![j] = Entry(row)]
    BY <1>4, <2>1, <2>2, BookWritten DEF RInv
  <2> HIDE DEF j
  <2>10. Book' = [Book EXCEPT ![j] = [@ EXCEPT !.status = to]]
    BY <2>2, <2>8, <2>9 DEF Book
  <2>11. Ledger!Settle(j, to)
    BY <1>1, <2>5, <2>7, <2>10 DEF Ledger!Settle, Book
  <2> QED BY <2>2, <2>5, <2>11 DEF Ledger!Next
<1>5. CASE Settle(w) /\ jobs' # jobs
  <2>1. /\ Running(x.job) /\ x.pc = "settle"
        /\ jobs' = [jobs EXCEPT ![x.job] = Finalized(jobs[x.job], x.outcome, x.retry)]
    BY <1>3, <1>5 DEF Settle
  <2>2. x.outcome \in {"succeeded", "failed"} /\ x.retry \in {"never", "pending"} /\ x.job \in Existing
    BY <1>3, <2>1 DEF Claimed, Worker, Busy
  <2>3. x.outcome = "succeeded" => outputs[x.job] = Outs
    BY <1>3, <2>1 DEF Recorded
  <2> QED BY <1>4, <2>1, <2>2, <2>3 DEF Running
<1>6. CASE Fail(w) /\ jobs' # jobs
  <2>1. /\ Running(x.job) /\ x.pc \in {"catch", "reject"}
        /\ jobs' = [jobs EXCEPT ![x.job] = Finalized(jobs[x.job], "failed", "never")]
    BY <1>3, <1>6 DEF Fail
  <2>2. x.job \in Existing
    BY <1>3, <2>1 DEF Claimed, Busy
  <2> QED BY <1>4, <2>1, <2>2 DEF Running
<1> QED BY <1>2, <1>5, <1>6

\* Clocks and cancel requests do not show.
LEMMA ClockMaps ==
    ASSUME RInv, NEW j \in JobIds, RequestCancel(j) \/ Expire(j) \/ RetryDue(j)
    PROVE  UNCHANGED Ledger!vars
<1>1. j \in Existing /\ jobs[j] \in Job
  <2>1. j \in Existing
    BY DEF RequestCancel, Expire, RetryDue, Running, Existing
  <2> QED BY <2>1, RowType DEF RInv, IInv
<1>2. PICK row : /\ jobs' = [jobs EXCEPT ![j] = row]
                 /\ \/ row = [jobs[j] EXCEPT !.cancel = TRUE]
                    \/ row = [jobs[j] EXCEPT !.lease = "expired"]
                    \/ row = [jobs[j] EXCEPT !.retry = "due"] /\ jobs[j].retry = "pending"
  BY DEF RequestCancel, Expire, RetryDue
<1>3. /\ row \in Job /\ row.state = jobs[j].state /\ row.key = jobs[j].key
      /\ row.digest = jobs[j].digest /\ row.attempts = jobs[j].attempts
      /\ (row.retry = "never") = (jobs[j].retry = "never")
  BY <1>1, <1>2 DEF Job
<1>4. Entry(row) = Entry(jobs[j])
  BY <1>1, <1>3, RowEntry DEF StatusOf
<1>5. \A i \in JobIds : Entry(jobs'[i]) = Entry(jobs[i])
  BY <1>2, <1>4 DEF RInv, IInv, TypeOK
<1>6. UNCHANGED outputs
  BY DEF RequestCancel, Expire, RetryDue
<1> QED BY <1>5, <1>6, BookKept

\* The empty database is the empty ledger.
LEMMA LedgerInit == Init => Ledger!Init
BY DEF Init, Ledger!Init, Ledger!Blank, Entry

\* Every statement of every process is a step of the ledger or does not show.
LEMMA LedgerStep == RInv /\ [Next]_vars => [Ledger!Next]_Ledger!vars
<1> SUFFICES ASSUME RInv, [Next]_vars PROVE [Ledger!Next]_Ledger!vars
  OBVIOUS
<1>1. CASE UNCHANGED <<jobs, outputs>>
  BY <1>1, BookKept
<1>2. ASSUME NEW w \in Workers, RunnerStep(w) \/ Crash(w) \/ Restart(w)
      PROVE  [Ledger!Next]_Ledger!vars
  BY <1>1, <1>2, SweepMaps, ClaimMaps, RecordMaps, SettleMaps
     DEF RunnerStep, List, Execute, InsertRun, Work, FinishRun, OutputThrows, OutputsDone, Crash, Restart
<1>3. ASSUME NEW c \in Clients, Insert(c) \/ \E k \in Keys, d \in Digests : Probe(c, k, d)
      PROVE  [Ledger!Next]_Ledger!vars
  BY <1>1, <1>3, InsertMaps DEF Probe
<1> QED BY <1>1, <1>2, <1>3, ClockMaps DEF Next, vars

\* The queue with its runners, its statements, leases and deaths implements the
\* ledger: one job for a key, success only with all outputs, no start after the
\* end.
THEOREM ImplementsLedger == Spec => LedgerOfJobs
<1> QED BY LedgerInit, LedgerStep, RecordsHold, PTL DEF Spec, LedgerOfJobs, Ledger!Spec
================================================================================
