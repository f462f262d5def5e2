----------------------------- MODULE DerivationJobs -----------------------------
(***************************************************************************)
(* Derivation jobs: the durable queue of src/jobs/service.ts over the      *)
(* tables derivation_jobs, derivation_runs and derivation_outputs, and the *)
(* runner of src/jobs/runner.ts with the single-stage executors of         *)
(* src/jobs/executors and src/distillation.                                *)
(*                                                                         *)
(* Workers are `agent-recall jobs run` processes on one data home; they    *)
(* share nothing but the database.  Every SQL statement commits by itself, *)
(* so a worker goes from one statement to the next with everyone else in   *)
(* between: listClaimable (reap, then select), claim (reap, then           *)
(* compare-and-set), startStage (read, then insert), the executor's work,  *)
(* finishStage (close the run, then one insert per output), complete or    *)
(* fail.  A worker may die anywhere; its lease then runs out and the next  *)
(* worker that lists the queue takes the job over.                         *)
(*                                                                         *)
(* Time is abstracted to what the predicates compare it with: a lease is   *)
(* live or expired, a retry window is pending or due.                      *)
(***************************************************************************)
EXTENDS Naturals, FiniteSets

CONSTANTS
    Workers,        \* runner processes
    Clients,        \* processes that enqueue
    Keys,           \* (creator_actor_id, kind, idempotency_key) triples
    Digests,        \* (input_digest, config_digest) pairs
    Unhandled,      \* keys whose kind has no executor in this runner
    Outs,           \* outputs a successful stage produces for its job
    MaxJobs,        \* bound: rows in derivation_jobs
    MaxLate,        \* bound: leases that run out under a worker still at work
    MaxCrashes,     \* bound: workers that die
    MaxRetries,     \* bound: failures that ask for a retry
    None

ASSUME BoundsAssumption ==
    /\ MaxJobs \in Nat /\ MaxLate \in Nat /\ MaxCrashes \in Nat /\ MaxRetries \in Nat
    /\ Unhandled \subseteq Keys /\ IsFiniteSet(Outs)
    /\ None \notin Workers \cup Keys \cup Digests \cup Nat

VARIABLES
    jobs,       \* derivation_jobs, numbered by created_at
    runs,       \* derivation_runs: (job, attempt) -> status
    outputs,    \* derivation_outputs: job -> the outputs recorded for it
    worker,     \* what each runner process is doing
    client,     \* what each enqueuing process is doing
    spent       \* how much of the environment's bounds is used up

vars == <<jobs, runs, outputs, worker, client, spent>>

\* every claim follows the enqueue, a lease that ran out late, a death or a retry
MaxAttempts == 1 + MaxLate + MaxCrashes + MaxRetries

JobIds == 1 .. MaxJobs
Final == {"succeeded", "failed", "cancelled"}
States == {"queued", "running"} \cup Final

Job ==
    [state : States, key : Keys, digest : Digests, owner : Workers \cup {None},
     lease : {"none", "live", "expired"}, attempts : 0 .. MaxAttempts,
     cancel : BOOLEAN, retry : {"never", "pending", "due"}]

RunStatuses == {"started", "succeeded", "failed"}

ASSUME NoneIsNoRow == None \notin Job \cup RunStatuses

WorkerPCs ==
    {"sweep", "list", "resweep", "claim", "reject", "execute", "insert", "work",
     "finish", "outputs", "settle", "catch", "down"}
Worker ==
    [pc : WorkerPCs, job : JobIds \cup {None}, mine : 0 .. MaxAttempts,
     outcome : {"none", "succeeded", "failed"}, retry : {"never", "pending"},
     todo : SUBSET Outs]
Told == {"none", "new", "replayed", "mismatch", "constraint"}
Client ==
    [pc : {"idle", "insert"}, key : Keys \cup {None}, digest : Digests \cup {None},
     told : Told, job : JobIds \cup {None}]

Looking ==
    [pc |-> "sweep", job |-> None, mine |-> 0, outcome |-> "none", retry |-> "never", todo |-> {}]

Down == [Looking EXCEPT !.pc = "down"]

NewClient == [pc |-> "idle", key |-> None, digest |-> None, told |-> "none", job |-> None]

Init ==
    /\ jobs = [j \in JobIds |-> None]
    /\ runs = [r \in JobIds \X (1 .. MaxAttempts) |-> None]
    /\ outputs = [j \in JobIds |-> {}]
    /\ worker = [w \in Workers |-> Looking]
    /\ client = [c \in Clients |-> NewClient]
    /\ spent = [late |-> 0, crashes |-> 0, retries |-> 0]

Existing == {j \in JobIds : jobs[j] # None}
Running(j) == jobs[j] # None /\ jobs[j].state = "running"

--------------------------------------------------------------------------------
(* Enqueue: getDerivationJobByIdempotency, then insertDerivationJob *)

WithKey(k) == {j \in Existing : jobs[j].key = k}

Answered(c, code, j) == [c EXCEPT !.pc = "idle", !.told = code, !.job = j]

Probe(c, k, d) ==
    LET asked == [NewClient EXCEPT !.key = k, !.digest = d]
    IN /\ client[c].pc = "idle"
       /\ \/ /\ WithKey(k) = {}
             /\ client' = [client EXCEPT ![c] = [asked EXCEPT !.pc = "insert"]]
          \/ \E j \in WithKey(k) :
                client' = [client EXCEPT ![c] =
                    IF jobs[j].digest = d THEN Answered(asked, "replayed", j)
                    ELSE Answered(asked, "mismatch", None)]
       /\ UNCHANGED <<jobs, runs, outputs, worker, spent>>

NewJob(k, d) ==
    [state |-> "queued", key |-> k, digest |-> d, owner |-> None, lease |-> "none",
     attempts |-> 0, cancel |-> FALSE, retry |-> "never"]

\* Mutant: the UNIQUE index is missing.
InsertWithoutIndex(c) ==
    LET next == Cardinality(Existing) + 1
    IN /\ client[c].pc = "insert" /\ next <= MaxJobs
       /\ jobs' = [jobs EXCEPT ![next] = NewJob(client[c].key, client[c].digest)]
       /\ client' = [client EXCEPT ![c] = Answered(@, "new", next)]
       /\ UNCHANGED <<runs, outputs, worker, spent>>

\* A client that lost the race to the UNIQUE index gets SQLite's error.
Insert(c) ==
    LET next == Cardinality(Existing) + 1
        k == client[c].key
    IN /\ client[c].pc = "insert"
       /\ \/ /\ WithKey(k) = {} /\ next <= MaxJobs
             /\ jobs' = [jobs EXCEPT ![next] = NewJob(k, client[c].digest)]
             /\ client' = [client EXCEPT ![c] = Answered(@, "new", next)]
          \/ /\ WithKey(k) # {}
             /\ client' = [client EXCEPT ![c] = Answered(@, "constraint", None)]
             /\ UNCHANGED jobs
       /\ UNCHANGED <<runs, outputs, worker, spent>>

\* requestDerivationJobCancel
RequestCancel(j) ==
    /\ jobs[j] # None /\ jobs[j].state \notin Final /\ ~jobs[j].cancel
    /\ jobs' = [jobs EXCEPT ![j].cancel = TRUE]
    /\ UNCHANGED <<runs, outputs, worker, client, spent>>

--------------------------------------------------------------------------------
(* Claiming *)

Goes(w, pc) == worker' = [worker EXCEPT ![w].pc = pc]

\* Mutants: the lease's expiry is not compared; the owner is kept; no reaping.
ReapedAlive(row) ==
    IF row # None /\ row.state = "running"
    THEN [row EXCEPT !.state = "queued", !.owner = None, !.lease = "none"]
    ELSE row

ReapedOwned(row) ==
    IF row # None /\ row.state = "running" /\ row.lease = "expired"
    THEN [row EXCEPT !.state = "queued"]
    ELSE row

ReapedNever(row) == row

\* reapExpiredDerivationJobLeases
Reaped(row) ==
    IF row # None /\ row.state = "running" /\ row.lease = "expired"
    THEN [row EXCEPT !.state = "queued", !.owner = None, !.lease = "none"]
    ELSE row

Sweep(w) ==
    /\ worker[w].pc \in {"sweep", "resweep"}
    /\ jobs' = [j \in JobIds |-> Reaped(jobs[j])]
    /\ Goes(w, IF worker[w].pc = "sweep" THEN "list" ELSE "claim")
    /\ UNCHANGED <<runs, outputs, client, spent>>

\* Mutant: every failed job is claimed again.
ClaimableFailed(row) ==
    /\ row # None
    /\ row.state \in {"queued", "failed"}
    /\ row.owner = None \/ row.lease # "live"

Claimable(row) ==
    /\ row # None
    /\ row.state = "queued" \/ (row.state = "failed" /\ row.retry = "due")
    /\ row.owner = None \/ row.lease # "live"

\* listClaimableDerivationJobs: the oldest; an empty pass polls again
List(w) ==
    LET found == {j \in JobIds : Claimable(jobs[j])}
    IN /\ worker[w].pc = "list"
       /\ \/ found = {} /\ worker' = [worker EXCEPT ![w] = Looking]
          \/ \E j \in found :
                /\ \A i \in found : j <= i
                /\ worker' = [worker EXCEPT ![w] = [Looking EXCEPT !.pc = "resweep", !.job = j]]
       /\ UNCHANGED <<jobs, runs, outputs, client, spent>>

\* Mutant: only a retry counts as a new attempt, a takeover does not.
AttemptOfRetry(row) == IF row.attempts = 0 \/ row.retry = "due" THEN row.attempts + 1 ELSE row.attempts

\* attempts = attempts + 1
Attempt(row) == row.attempts + 1

\* claimDerivationJob; the loser of a race goes on with the next candidate
Claim(w) ==
    LET j == worker[w].job
        attempt == Attempt(jobs[j])
    IN /\ worker[w].pc = "claim"
       /\ \/ /\ Claimable(jobs[j]) /\ attempt <= MaxAttempts
             /\ jobs' = [jobs EXCEPT ![j] =
                    [@ EXCEPT !.state = "running", !.owner = w, !.lease = "live", !.attempts = attempt]]
             /\ worker' = [worker EXCEPT ![w] =
                    [@ EXCEPT !.mine = attempt, !.pc = IF jobs[j].key \in Unhandled THEN "reject" ELSE "execute"]]
          \/ /\ ~Claimable(jobs[j])
             /\ worker' = [worker EXCEPT ![w] = Looking]
             /\ UNCHANGED jobs
       /\ UNCHANGED <<runs, outputs, client, spent>>

--------------------------------------------------------------------------------
(* Executing: one stage *)

\* startStage, first statement.  A missing cursor or plan fails the job
\* before any stage; a job no longer running makes startStage throw.
Execute(w) ==
    /\ worker[w].pc = "execute"
    /\ worker' \in
        {[worker EXCEPT ![w].pc = IF Running(worker[w].job) THEN "insert" ELSE "catch"],
         [worker EXCEPT ![w] = [@ EXCEPT !.pc = "settle", !.outcome = "failed"]]}
    /\ UNCHANGED <<jobs, runs, outputs, client, spent>>

\* startStage, second statement
InsertRun(w) ==
    /\ worker[w].pc = "insert"
    /\ runs' = [runs EXCEPT ![<<worker[w].job, worker[w].mine>>] = "started"]
    /\ Goes(w, "work")
    /\ UNCHANGED <<jobs, outputs, client, spent>>

\* The service call returns, fails, asks for a retry, or throws through the
\* executor.
Work(w) ==
    /\ worker[w].pc = "work"
    /\ \/ \E result \in {"succeeded", "failed"} :
            /\ worker' = [worker EXCEPT ![w] = [@ EXCEPT !.pc = "finish", !.outcome = result]]
            /\ UNCHANGED spent
       \/ /\ spent.retries < MaxRetries
          /\ worker' = [worker EXCEPT ![w] =
                [@ EXCEPT !.pc = "finish", !.outcome = "failed", !.retry = "pending"]]
          /\ spent' = [spent EXCEPT !.retries = @ + 1]
       \/ Goes(w, "catch") /\ UNCHANGED spent
    /\ UNCHANGED <<jobs, runs, outputs, client>>

\* finishStage, completeDerivationRun: the outputs come in later statements
FinishRun(w) ==
    LET produced == IF worker[w].outcome = "succeeded" THEN Outs ELSE {}
    IN /\ worker[w].pc = "finish"
       /\ runs' = [runs EXCEPT ![<<worker[w].job, worker[w].mine>>] = worker[w].outcome]
       /\ worker' = [worker EXCEPT ![w] = [@ EXCEPT !.pc = "outputs", !.todo = produced]]
       /\ UNCHANGED <<jobs, outputs, client, spent>>

\* insertDerivationOutput; a row that is there already is left as it is
RecordOutput(w) ==
    /\ worker[w].pc = "outputs"
    /\ \E o \in worker[w].todo :
        /\ outputs' = [outputs EXCEPT ![worker[w].job] = @ \cup {o}]
        /\ worker' = [worker EXCEPT ![w].todo = @ \ {o}]
    /\ UNCHANGED <<jobs, runs, client, spent>>

\* Mutant: the error is swallowed and the stage counts as done.
OutputErrorSwallowed(w) ==
    /\ worker[w].pc = "outputs" /\ worker[w].todo # {}
    /\ Goes(w, "settle")
    /\ UNCHANGED <<jobs, runs, outputs, client, spent>>

\* The insert throws (SQLITE_BUSY); the executor's own handler calls finish a
\* second time, which throws because the run is closed.
OutputThrows(w) ==
    /\ worker[w].pc = "outputs" /\ worker[w].todo # {}
    /\ Goes(w, "catch")
    /\ UNCHANGED <<jobs, runs, outputs, client, spent>>

OutputsDone(w) ==
    /\ worker[w].pc = "outputs" /\ worker[w].todo = {}
    /\ Goes(w, "settle")
    /\ UNCHANGED <<jobs, runs, outputs, client, spent>>

--------------------------------------------------------------------------------
(* Settling *)

\* Mutant: the two arguments swapped.
FinalizedSwapped(row, final, retry) ==
    [row EXCEPT !.state = retry, !.retry = final, !.owner = None, !.lease = "none"]

\* finalizeDerivationJob asks for state = 'running' and for nothing else
Finalized(row, final, retry) ==
    [row EXCEPT !.state = final, !.retry = retry, !.owner = None, !.lease = "none"]

\* complete, or fail with the executor's outcome; job_not_found is caught
Settle(w) ==
    LET j == worker[w].job
    IN /\ worker[w].pc = "settle"
       /\ \/ /\ Running(j)
             /\ jobs' = [jobs EXCEPT ![j] = Finalized(@, worker[w].outcome, worker[w].retry)]
             /\ worker' = [worker EXCEPT ![w] = Looking]
          \/ /\ ~Running(j)
             /\ Goes(w, "catch")
             /\ UNCHANGED jobs
       /\ UNCHANGED <<runs, outputs, client, spent>>

\* fail from the catch block, or for a kind with no executor.  Nothing
\* catches job_not_found here: runOnce rejects and the process ends.
Fail(w) ==
    LET j == worker[w].job
    IN /\ worker[w].pc \in {"catch", "reject"}
       /\ \/ /\ Running(j)
             /\ jobs' = [jobs EXCEPT ![j] = Finalized(@, "failed", "never")]
             /\ worker' = [worker EXCEPT ![w] = Looking]
          \/ /\ ~Running(j)
             /\ worker' = [worker EXCEPT ![w] = Down]
             /\ UNCHANGED jobs
       /\ UNCHANGED <<runs, outputs, client, spent>>

--------------------------------------------------------------------------------
(* The environment: clocks, deaths, operators *)

Crash(w) ==
    /\ worker[w].pc # "down" /\ spent.crashes < MaxCrashes
    /\ worker' = [worker EXCEPT ![w] = Down]
    /\ spent' = [spent EXCEPT !.crashes = @ + 1]
    /\ UNCHANGED <<jobs, runs, outputs, client>>

\* someone starts `jobs run` again
Restart(w) ==
    /\ worker[w].pc = "down"
    /\ worker' = [worker EXCEPT ![w] = Looking]
    /\ UNCHANGED <<jobs, runs, outputs, client, spent>>

AtWork(w, j) ==
    worker[w].job = j /\ worker[w].pc \in WorkerPCs \ {"list", "resweep", "claim"}

\* lease_expires_at passes, perhaps while the owner is still at work
Expire(j) ==
    LET late == \E w \in Workers : w = jobs[j].owner /\ AtWork(w, j) /\ worker[w].mine = jobs[j].attempts
    IN /\ Running(j) /\ jobs[j].lease = "live"
       /\ late => spent.late < MaxLate
       /\ jobs' = [jobs EXCEPT ![j].lease = "expired"]
       /\ spent' = IF late THEN [spent EXCEPT !.late = @ + 1] ELSE spent
       /\ UNCHANGED <<runs, outputs, worker, client>>

RetryDue(j) ==
    /\ jobs[j] # None /\ jobs[j].state = "failed" /\ jobs[j].retry = "pending"
    /\ jobs' = [jobs EXCEPT ![j].retry = "due"]
    /\ UNCHANGED <<runs, outputs, worker, client, spent>>

RunnerStep(w) ==
    \/ Sweep(w) \/ List(w) \/ Claim(w) \/ Execute(w) \/ InsertRun(w) \/ Work(w)
    \/ FinishRun(w) \/ RecordOutput(w) \/ OutputThrows(w) \/ OutputsDone(w)
    \/ Settle(w) \/ Fail(w)

Next ==
    \/ \E c \in Clients : Insert(c) \/ \E k \in Keys, d \in Digests : Probe(c, k, d)
    \/ \E w \in Workers : RunnerStep(w) \/ Crash(w) \/ Restart(w)
    \/ \E j \in JobIds : RequestCancel(j) \/ Expire(j) \/ RetryDue(j)

Spec == Init /\ [][Next]_vars

\* A runner that is up keeps running, leases and retry windows are reached by
\* the clock, and someone starts a runner again after one has gone down.
Fairness ==
    /\ \A w \in Workers : WF_vars(RunnerStep(w)) /\ WF_vars(Restart(w))
    /\ \A j \in JobIds : WF_vars(Expire(j)) /\ WF_vars(RetryDue(j))

FairSpec == Spec /\ Fairness
--------------------------------------------------------------------------------
(* Properties *)

\* Shape of every variable.
TypeOK ==
    /\ jobs \in [JobIds -> Job \cup {None}]
    /\ runs \in [JobIds \X (1 .. MaxAttempts) -> RunStatuses \cup {None}]
    /\ outputs \in [JobIds -> SUBSET Outs]
    /\ worker \in [Workers -> Worker]
    /\ client \in [Clients -> Client]
    /\ spent \in [late : 0 .. MaxLate, crashes : 0 .. MaxCrashes, retries : 0 .. MaxRetries]

\* A job is running exactly while a lease on it is held: whoever ends it or
\* reaps it clears both (docs/guides/jobs.en.md, key invariants).
RunningIffLeased ==
    \A j \in Existing :
        /\ (jobs[j].state = "running") = (jobs[j].owner # None)
        /\ (jobs[j].state = "running") = (jobs[j].lease # "none")

\* Two workers that list the same job do not both run it: while a lease is
\* live the job stays with its owner until it is settled.
LeaseRespected ==
    [][\A j \in Existing : jobs[j].state = "running" /\ jobs[j].lease = "live" =>
        jobs'[j].owner = jobs[j].owner \/ jobs'[j].state \in Final]_vars

\* Of the workers that run one job after takeovers, no two run the same
\* attempt, and none runs an attempt that was never claimed.
AttemptsAreUnique ==
    \A v, w \in Workers : \A j \in JobIds :
        AtWork(v, j) /\ AtWork(w, j) =>
            /\ v # w => worker[v].mine # worker[w].mine
            /\ worker[v].mine <= jobs[j].attempts

\* A succeeded job has a succeeded run and all its outputs on record, whoever
\* did the work and however often it was taken over.
SucceededHasOutputs ==
    \A j \in Existing : jobs[j].state = "succeeded" =>
        /\ \E a \in 1 .. MaxAttempts : runs[<<j, a>>] = "succeeded"
        /\ outputs[j] = Outs

\* A job that succeeded, was cancelled, or failed with no retry window stays
\* that way: no late worker and no reap reopens it.
FinalIsFinal ==
    [][\A j \in Existing :
        jobs[j].state \in Final /\ jobs[j].retry = "never" => jobs'[j].state = jobs[j].state]_vars

\* Clients that were told of a job for the same key were told the same job,
\* and it carries the digest they asked for.
EnqueueIdempotent ==
    \A b, c \in Clients :
        client[b].job # None /\ client[c].job # None /\ client[b].key = client[c].key =>
            /\ client[b].job = client[c].job
            /\ jobs[client[b].job].digest = client[c].digest

\* Every job that was enqueued is settled in the end, through crashes,
\* takeovers and retries.
JobsSettle ==
    \A j \in JobIds :
        jobs[j] # None ~>
            jobs[j] # None /\ jobs[j].state \in Final /\ jobs[j].retry = "never"

\* "A buggy executor for one kind cannot strand the runner": runOnce never
\* rejects, so a runner is down only because it died.
RunnerSurvives ==
    [][\A w \in Workers : worker'[w].pc = "down" =>
        worker[w].pc = "down" \/ spent'.crashes = spent.crashes + 1]_vars

--------------------------------------------------------------------------------
(* What the queue promises, without runners: a failed job whose retry window is *)
(* open may be started again, any other is settled for good.                    *)

StatusOf(row) == IF row.state = "failed" /\ row.retry # "never" THEN "retry" ELSE row.state

Entry(row) ==
    IF row = None THEN [key |-> None, digest |-> None, status |-> "none", attempts |-> 0]
    ELSE [key |-> row.key, digest |-> row.digest, status |-> StatusOf(row), attempts |-> row.attempts]

Ledger == INSTANCE JobLedger WITH
    Jobs      <- JobIds,
    ledger    <- [j \in JobIds |-> Entry(jobs[j])],
    delivered <- outputs

\* Enqueue, claim, reap, record and settle, each a few statements of several
\* processes, are one step each to whoever enqueues: one job for a key, success
\* only with all outputs, no start after the end.
LedgerOfJobs == Ledger!Spec
================================================================================
