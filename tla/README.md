# A TLA+ model of AgentRecall

AgentRecall is a local-first memory service for coding agents: an MCP server in
TypeScript over one SQLite file. Each agent usually starts a server of its own,
so several processes share the file, together with the command line, a daemon
that serves HTTP, and runners that work on derivation jobs. Nothing but the
database and a few files connects them. This directory holds TLA+ modules
translated from the code, configurations that check them with TLC, and theorems
checked by TLAPS. `PROJECT.json` maps each definition to the lines it models.

Paths below are relative to the repository's `src/`.

## Inventory

| component | state | operations | how it interacts | what makes it correct |
|---|---|---|---|---|
| rows and revisions (`sqlite-store.ts`) | `memory_entries`, `memory_revisions`, `mutation_requests_v2`, ... | insert, update with and without expected revision, peek, reserve and complete a key | every service calls it; one `BEGIN IMMEDIATE` transaction, nested calls join it | the revisions of a memory are a chain without holes; the latest one is the row |
| write service (`services/memory-write-service.ts`, `services/idempotency.ts`, `budget-governor.ts`) | none of its own | remember, update, supersede, merge, forget | called by MCP tools; checks before its transaction, writes inside it | a key takes effect once; retries are told the same; budgets; forgotten is forgotten |
| maintenance plans (`memory-service.ts`, `maintenance-plan-store.ts`) | `maintenance_plans`, items | plan, apply | reads and supersedes the rows of the write service | whole or nothing, once, as planned, only duplicates |
| derivation jobs (`jobs/`) | `derivation_jobs`, `_runs`, `_outputs` | enqueue, list, claim, stages, settle, cancel, reap | runners call distillation and bootstrap through executors | one owner per lease, every job settled, outputs complete |
| maintenance sweeps (`services/memory-maintenance-service.ts`) | rows | merge duplicates, expire, archive | the same rows, listed outside the transaction | only ever retire what another writer changed; of every group something is left |
| distillation (`distillation/`) | candidates, evidence, actions | extract, review, apply | run by jobs; applies through the write service | one memory per candidate, and not without its evidence |
| bootstrap plans (`bootstrap/`) | plans, items | scan, apply, cancel, expire | run by jobs and the command line | items whole; applied means written; an end is final |
| session ingest (`sessions/`) | sessions, events, bodies | ingest, forget | read by distillation | one session per source, its events of the bundle it answers for |
| import (`portability/importer.ts`) | batch rows | preflight, plan, apply | the write service; bundles of an export | atomic, nothing overwritten unplanned, within the budget |
| export, backup (`portability/`, `backup.ts`) | directories, backup files | list, stage, publish; copy, prune, restore | files | a whole export at all times; a restore loses no commit |
| daemon lock and launcher (`mcp/daemon-lock.ts`, `launcher.ts`) | a lock file | acquire or join, release | launchers race on it | a daemon goes on, who gives way gives way to someone; in the end someone listens |
| server lifecycle, HTTP sessions (`mcp/`) | sessions, timers, the shutdown promise | requests, shutdown, idle | signals, stdin, clients | orderly and bounded shutdown; calls attributed to their session |
| HTTP bridge, opencode plugin (`http-bridge/`, `opencode-plugin/`) | a map of sessions; a cached text | POST, DELETE; the hook | clients of the server | sessions begin with an initialize; no outlived text |
| assets, skills, external references, loadouts | versions, payloads, rules, bindings | create, append by compare-and-set, lifecycle, verify, bind, resolve | the database | versions 1 to the head; rules of one update |
| project identity (`scope-resolver.ts`) | identities, aliases | register, resolve strictly, look up | every scoped call | aliases name known projects and stay |
| operator capability (`admin/capability.ts`) | a token file and its copy in memory | grant, revoke, load, authorize | gates privileged writes | a withdrawn token is refused by servers started later |
| schema (`sqlite-store.ts`) | `user_version`, tables | migrate | every process that opens the file | no rows lost, whoever migrates beside |
| recall, context assembly (`services/recall-ranker.ts`, `context-assembly/`) | votes | rank, vote, pack | reads | a total order that votes move the right way; nothing that fits left out |
| memory reads (`services/memory-read-service.ts`, `mcp/resources.ts`, `cli/commands/show.ts`) | provenance links | read one memory, confirm its trust | the rows of the write service | text and trail belong together; not found means it was not |
| validation, doctor, command line, contracts, desktop app, scripts | none that others depend on | parsing, formatting, checks | clients of the services | not modelled, see below |

Handlers are synchronous: within one process nothing interleaves with a handler
up to its return. What is hard is that another process commits between two
statements of a handler, that a process dies between two of them, that clients
retry, and that leases and plans run out meanwhile. `PROJECT.json` lists these
hazards with their lines.

## Modules

| module | models |
|---|---|
| `MemoryStore` | what a row holds, how a patch is merged, what each of the two UPDATE statements stores; no state |
| `MemoryWrites` | the write service in several processes, with keys, crashes and retries |
| `VersionedStore` | what the write service promises: versions, a log of them, one result per key |
| `DerivationJobs` | the queue and its runners |
| `JobLedger` | what the queue promises: one job for a key, whole successes, ends that are final |
| `MaintenancePlans` | plan and apply, beside other writers; extends `MemoryStore` |
| `MemorySweeps` | maintain_memories in several processes, beside the write service |
| `SessionIngest`, `Distillation`, `BootstrapPlans` | sessions, what is drawn from them, and cold-start plans: rows written statement by statement |
| `ImportBatches`, `BatchBudget`, `HistoryBundles` | an import: its batch and transaction; its budget; what it reads of an export that is being replaced |
| `Publication`, `Backups` | directories and database files moved by processes that may die |
| `DaemonLock`, `ServerLifecycle`, `HttpSessions` | the daemon from the race for its lock to its end, and the end of the stdio server |
| `HttpBridge`, `OpencodePlugin` | two clients with a state of their own |
| `Capability`, `ProjectIdentity`, `Loadouts`, `AssetVersions`, `Migrations` | the remaining tables and files, with the compare-and-set or the read before the insert that guards each |
| `RecallRanking`, `ContextPacking`, `EntryReads` | what recall returns: order, packing, and one memory in several statements |
| `Services` | the 22 modules from `MemorySweeps` on, in one specification |
| `MemoryWritesProofs`, `DerivationJobsProofs`, `MaintenancePlansProofs` | the theorems about these modules |
| `ServersProofs`, `SessionsProofs`, `FilesProofs`, `ServicesProofs` | the theorems about `Services`; the last extends the others |
| `SumTheorems` | sums over finite sets, cardinalities, least and largest numbers |
| `MC...` | constants for TLC |

The definitions whose name a comment calls a *mutant* are wrong on purpose: each
is what a plausible bug would make of the definition after it, and TLC finds the
property that `PROJECT.json` names violated when it takes its place. No
specification uses them.

### MemoryWrites

A call goes through `Call` (the early replay probe), `Peek` (one step per memory
it names), `EvaluateBudget`, one `Commit...` action and `Reply`; each is one SQL
statement or one transaction. `Crash` may come before any of them, and stands
for an exception such as `SQLITE_BUSY` too. A client repeats a call simply by
calling again. `effects`, `casWins` and `told` record what happened, for the
properties only.

A title and a text (body and tags) are lengths, which is what budgets and
`char_count` see. Body and tags are one text, so that an update of the one beside an
update of the other is not told from two of the same. A `remember` carries the
status and the list of superseded memories it is given, which nobody looks up; a
supersede or a merge adds its own. `tier` is a column of its own because the two UPDATE statements
differ in it. Budgets per topic and per index are left out, as are secrets,
sensitivity and the capability gate, which refuse a call before any of this.
Rows of one scope are modelled. Whether two texts are duplicates is left open.
`pending` slots are not modelled since reserve and complete share a transaction.

### DerivationJobs

Every statement of a runner is an action: `Sweep`, `List`, `Sweep` again, `Claim`,
`Execute` and `InsertRun` (the two statements of `startStage`), `Work`,
`FinishRun`, `RecordOutput` per output, `Settle` or `Fail`. Time is what the
predicates compare: a lease is live or expired, a retry window pending or due.
Executors of this code have one stage, so checkpoints do not occur; `renewLease`
and `markCancelled` are never reached by a runner. The service an executor
calls is a single step, `Work`, whose result is left open. A worker records
outputs under its job; the run they belong to makes no difference to the
properties.

### MaintenancePlans

`Scan`, `ReadRevisions` (one peek each) and `CreatePlan` make a plan; `GetPlan`,
`PeekRevisions`, `Validate`, then `Mark` or `ApplyPlan`/`ApplyFails` apply it.
`OtherWrite` is an update or a forget of the write service, as it commits.
Contents are numbers compared for equality; near-duplicates, which are only
ever advisory, are left out, and so is the check of the plan's own hash, which
guards against editing the database by hand.

### The other components

Each is a module of 100 to 200 lines with the same layout: variables are tables,
files or the fields of a process; a call that the code makes in several
statements, system calls or awaits has a step for each, held in `call` (`op`,
`proc`, `req`); a death may come between any two. Where a handler is one
transaction it is one action. What is left out is said at the head of the module.

* `MemorySweeps`: `List`/`ListGroups`, `Backup`, then `CommitSweep`, or
  `PeekMember` for each of a group and `Collapse`. `OtherForget` and `OtherUpdate`
  are the write service, which stores the body and status it is given, of an
  archived memory too; each merge keeps by the rule its call names.
* `SessionIngest`: `Lookup`, `Insert` of the session, each event and body, `Replay`.
  `Distillation`: `Extract`, `InsertCandidate`, `InsertDetail`, `StartReview`,
  `EndReview`, `Apply`. `BootstrapPlans`: `StartScan`, `ScanSources`, `Promote`;
  `Look`, then `StartApply`, `ApplyItems`, `Finish`, or `End`.
* `ImportBatches`: `Plan`, `Start` (the batch row), `Apply` or `Rollback` and `Fail`.
  `BatchBudget`: `Preflight`, `Apply`, `Overwrite` row by row. `HistoryBundles`:
  `ListEntries`, `ListRevisions`, `Publish` against `Detect` to `VerifyManifest`.
* `Publication`: the two renames, the audit event, the removal of the old copy and
  each rollback. `Backups`: `Vacuum`, `Prune`, and `Retire`, `Copy` of a restore,
  beside `ServerOpens`, `ServerCommits`, `ServerEnds` and SQLite's `Checkpoint`. What
  was committed is in `main` (memory.sqlite) or, since the last checkpoint, in
  `log` (memory.sqlite-wal); closing a store alone with the database checkpoints,
  and the rename takes `main` only. Once a restore was not alone (`disturbed`), what
  the other process does to its renamed file is not followed.
* `DaemonLock`: a step per system call on the lock file, the probe of the daemon
  it names, a death, a hang; `StartReused` is a launcher with the process id that
  a lock left behind names. `ServerLifecycle`: triggers, the microtask that starts
  the sequence, what settles it, the ceiling. `HttpSessions`: a request up to its
  body and from there, and the event stream a GET holds open (`GetStream`,
  `StreamCloses`).
* `Migrations`: the version read first, then `Migrated` from each version on: the
  second version in its separate statements, the rebuild of plans, the rest as a
  bump of the version.
* `RecallRanking`: `Score` in units of 1/10000, `Precedes` with its ties,
  `RecordFeedback`. `ContextPacking`: `Take`, `PassOver`, `Finish`. `EntryReads`:
  `Classify`, `Elevated`, `Peek`, `ReadEntry`, `ReadTrail`, beside `StartConfirm`,
  `WriteConfirm`, `AuditConfirm`.

## Runs

Bounds are named in each module. Two processes show every race found here, since
each involves one reader and one writer; a third would repeat them.

| run | instance | shows |
|---|---|---|
| `MWRetry` | 2 processes, 4 memories (2 new), one key, every keyed tool but update, an update with expected revision, 3 revisions | exactly-once, replay, one compare-and-set per revision, chain, snapshots, links, refinement to `VersionedStore` |
| `MWSingle` | 1 process, every operation, budget of 3 rows and 6 characters | budget, forgetting, replacement, sizes, types: what holds without concurrency; patches of title, body, status and tier, new entries that are archived or list others |
| `JobsRun` | 2 workers, 1 job, one late lease, one death, one retry, 2 outputs, fairness | leases, attempts, outputs, refinement to `JobLedger`; every job is settled |
| `JobsQueue` | 2 workers, 2 jobs, one of a kind without executor, 2 clients, 2 keys, 2 digests | idempotent enqueue, leases along a queue |
| `MPApply` | 2 processes, 1 plan, 2 keys, a pair and an advisory memory | one key, only as planned, into an active memory |
| `MPTwoGroups` | 1 process and other writers, two pairs | whole or nothing: a stale group stops the whole plan |
| `Services` | 22 modules, bounds below | what each component keeps |

Five further runs check one property each that the code breaks, and end in a
counterexample; the findings in `PROJECT.json` quote the line of the repository
that makes the promise.

| run | counterexample |
|---|---|
| `MWForgetRace` | an update that passed its checks writes a body into a memory another process has forgotten: the transaction does not make the checks again |
| `JobsRunnerDies` | a job is settled by the worker that took it over; the first worker's error path then throws and ends the runner |
| `MPStaleEvidence` | a text written between the grouping and the reading of revisions: the plan merges memories that differ |
| `HttpActorRace` | two sessions are opened by two actors; a call of the first runs as the second |
| `MigrationLosesItems` | a file of version 8 with a plan is migrated; the plan is there, its items are not |

### Services

The components of `Services` share no state with each other here: what couples
them in the program (rows, files, processes) is inside each module as the
environment that writes meanwhile. So they are checked in one run: the initial
state chooses a part, `Next` moves that part, the others rest at `None`. The state
space is the disjoint union of theirs, and a property says what holds in the
behaviours of each part (`part = "import" => ...`). Two processes are enough for
the races of a read before a write; where one is used it is named.

| part | instance | property |
|---|---|---|
| `DaemonLock` | 2 launchers, 3 process ids, 2 losses (of a process, or an id given out again), 1 hang, any lock left behind | a daemon goes on until its own end, and before the first loss who ends leaves one that listens or is about to (`DaemonStays`); in the end one listens for good (`ServersServeAndEnd`) |
| `ServerLifecycle` | 3 calls | an exit with code 0 closed transport and store, an idle one cut off no call (`NothingLeftBehind`); a triggered end comes (`ServersServeAndEnd`) |
| `HttpSessions` | 2 requests at once, 4 in all, 2 sessions, 2 actors | no session left at the end, no call after its DELETE (`NothingLeftBehind`); the end comes once the last connection is gone (`ServersServeAndEnd`) |
| `HttpBridge` | 2 requests at once, 5 in all, 2 ids | sessions begin with an initialize and, closed, stay so (`RowsStand`) |
| `OpencodePlugin` | 2 hooks, time to live 2, clock to 4 | no text older than the time to live (`ReadsAreSound`) |
| `Capability` | 2 tokens, 2 operators, 1 server | withdrawn is refused, privilege needs the profile (`CapabilitySound`) |
| `MemorySweeps` | 2 memories, 2 sweepers, both rules, 1 write of others | superseded leads to what is not, if merges do not overlap (`ChainsEnd`); sweeps bring nothing back (`SweepsOnlyRetire`) |
| `SessionIngest` | 2 clients, 1 source, 2 events, 2 ids | `SessionsConsistent` |
| `Distillation` | 1 worker, 2 reviewers, 2 decisions, 3 reviews | `Distilled` |
| `BootstrapPlans` | 2 processes, 1 plan, 2 sources, 3 applies | items whole (`BatchesAreWhole`), ends final (`RowsStand`) |
| `ImportBatches` | 2 processes, 1 memory, 2 batches, revision 2 of the bundle and the store | `BatchesAreWhole` |
| `BatchBudget` | 4 ids, 2 of them new, 2 topics, budget 3 entries, 4 characters, 2 per topic | `BatchesAreWhole` |
| `HistoryBundles` | 2 memories, 2 revisions, 2 exports | `BatchesAreWhole` |
| `Publication` | 1 process, 3 exports | a whole export on the disk (`FilesSurvive`) |
| `Backups` | 2 processes, 2 states, 3 files, 2 kept | a restore alone with the database loses no commit (`FilesSurvive`) |
| `AssetVersions` | 2 processes, 1 asset, 2 contents, 3 versions | `VersionsHold`; archived stays (`RowsStand`) |
| `Loadouts` | 2 processes, 2 channels, 2 priorities, 2 versions, 2 bindings | `VersionsHold` |
| `ProjectIdentity` | 2 processes, 2 paths, 2 given ids, 3 calls | aliases known (`ReadsAreSound`) and kept (`RowsStand`) |
| `Migrations` | 2 processes, from versions 1 and 8 to 20 | applied plans and events kept (`RowsStand`, `ReadsAreSound`) |
| `ContextPacking` | 3 entries of 1 or 3 characters, room for 2 or 4, 1 or 3 items | nothing that fits left out (`ReadsAreSound`) |
| `RecallRanking` | 2 memories of 7 kinds, 2 actors, 2 votes | a total order, text before tier up to place 15 of the texts (`ReadsAreSound`), praise never sinks (`RowsStand`) |
| `EntryReads` | 2 clients of ceilings 1 and 2, 3 revisions | `ReadsAreSound` |

From the fifteenth place of the list of texts on, a step down costs less than the
difference between the tiers (2000000/75 - 2000000/76 is 351 in the units of `Score`,
core and archival are 360 apart), so `TextBeatsTier` ends there (`LastDecisive`).

Publication is checked with one publisher; what two of them lose is below. A part
ends when its bounds are used up or its process has exited, so this run alone does
not check deadlock.

### What the code does not keep

These formulas are written in the modules, and TLC finds a counterexample to each
at the bounds above; they are in no run, so that each run asks a question of its
own. The last column is the code, and where it says otherwise, its words.

| formula | what happens | where |
|---|---|---|
| `Capability!FailedGrantLeavesNothing` | a grant that reports an error may leave the token it installed | `admin/capability.ts:443`, `:487` |
| `SessionIngest!AnsweredIsWhole` | a replay answers for a session whose events were cut short by a death | `sqlite-store.ts:2330`, `:2376` |
| `MemoryWrites!OneReplacement` | a remember lists a memory as superseded that another one replaced, or none did | `services/memory-service-helpers.ts:522` |
| `MemoryWrites!CharCountExact` | a patch of the title alone leaves the count of the old title | `services/memory-write-service.ts:560` |
| `MemorySweeps!ChainsAlwaysEnd` | two merges at once, one keeping the first and one the newest, supersede two memories by each other: of their text nothing active is left | `services/memory-maintenance-service.ts:575`, `:940` |
| `MemorySweeps!EveryPairReported` | each batch is compared with itself only, so that a pair in two batches is missed; the comment wants the index across the entire dataset | `services/memory-maintenance-service.ts:497`, `:483` |
| `Distillation!NamedAfterItsDecision`, `AppliedIsFinal` | numbering shifts after a decision is passed; a review writes over applied | `distillation/service.ts:325`, `:667` |
| `BootstrapPlans!BrokenPlanFails` | a plan whose items failed stays in applying; "rolls the entire plan back to state='failed'" | `bootstrap/service.ts:383` |
| `BootstrapPlans!ItemsWrittenOnce` | items are written again after a death before the last move | `bootstrap/service.ts:415` |
| `ImportBatches!NextRevisionIsFree` | the imported history holds the number the next update needs, which then fails | `sqlite-store.ts:6337`, `:7399` |
| `ImportBatches!DryRunWritesNothing` | a dry run leaves its batch row | `cli/commands/import.ts:28` |
| `BatchBudget!ProjectionOfEntries` | replaced rows are released and not counted again; "Projected usage after the batch (when all ops succeed)" | `budget-governor.ts:252`, `:127` |
| `BatchBudget!PreflightDecides` | what the preflight passed fails at a row | `budget-governor.ts:160` |
| `BatchBudget!TopicsFit` | an archived row that is overwritten is released from its topic though it took nothing there, and the topic goes over its budget | `budget-governor.ts:345` |
| `HistoryBundles!HistoryStopsAtEntry` | revisions newer than the entry are exported with it | `portability/canonical-model.ts:434` |
| `HistoryBundles!SnapshotIsOne` | topic files of two exports are read as one: the files verified are the later ones | `portability/importer.ts:479` |
| `Publication!ExportSurvives`, 2 publishers | each removes what the other put aside | `portability/atomic-publisher.ts:149` |
| `DaemonLock!JoinsAListener` | a launcher that was given the process id of a stale lock joins itself and ends; the short cut is for "a parent process writes the lock and a child re-reads it", though a child has an id of its own | `mcp/daemon-lock.ts:187`, `:45` |
| `HttpSessions!StopsInTheEnd` | a client that holds its event stream open, or does not finish a body, keeps the shutdown before the closing of the sessions and before the ceiling; "so a hung handler still gets a ceiling" | `mcp/http-server.ts:777`, `:758` |
| `Backups!RestoreIsReversible` | what another process commits after the pre-restore backup is in the log the rename leaves behind, and in no file; "so the restore is itself reversible" | `cli/commands/backup.ts:117`, `:46` |
| `Backups!DatabaseIsThere` | a restore dies between moving the database away and copying | `cli/commands/backup.ts:105`, `:118` |
| `AssetVersions!HeadHasPayload` | a death between version and payload | `skills/service.ts:325` |
| `AssetVersions!VerifiesLive` | a reference archived after the check is verified | `external-refs/service.ts:255` |
| `Loadouts!SpecificWins` | priority is compared across actors, so that a binding of nobody may win | `sqlite-store.ts:7968` |
| `ProjectIdentity!OneProjectPerPath`, `AnswerIsStored`, `ModesAgree` | two processes register one path under two names at once: both are told it is theirs, one with a path that is not the stored one, and a strict look up names one of them | `scope-resolver.ts:205`, `:588` |
| `Migrations!EventsAreRead`, `VersionNeverFalls` | a death in the second version leaves the events in the table aside; a slower process takes the version back | `sqlite-store.ts:3535`, `:5250` |
| `ContextPacking!RequiredSurfaced` | the loop ends at the limit of items with required references still to come | `context-assembly/assembler.ts:176`, `:165` |
| `OpencodePlugin!NeverGoesBack` | a slower call stores an older text | `opencode-plugin/index.js` |
| `HttpBridge!NeverFails` | a POST whose session closes while its body is awaited is answered 500 | `http-bridge/bridge.mjs:485` |
| `RecallRanking!OneIntent` | an actor's up and down stand side by side; "the latest intent wins" | `sqlite-store.ts:6703` |
| `RecallRanking!PinsSurface`, `ReplacementLeads` | pin and hide weigh nothing; a memory is ranked down for superseding another | `services/recall-ranker.ts:164`, `:194` |
| `EntryReads!MissingWasDeleted` | a memory raised above the ceiling meanwhile is called not found; "the row was deleted between the two reads" | `services/memory-read-service.ts:331` |
| `EntryReads!UpdatesStand` | confirm_memory_trust writes back the columns it read before another's update or forget | `sqlite-store.ts:5675`, `:5691` |
| `EntryReads!NextRevisionIsFree`, `RevisionsAreAudited` | and so takes a revision back, or dies before its event | `memory-service.ts:739` |

### Where the code and its words differ otherwise

Met while translating. The models follow the code, so each of these is a
behaviour of its module, and the properties above are stated around it.

* Two processes may supersede the same memory, or exceed the budget together, as
  their checks come before the transaction (`memory-write-service.ts:853`, `:430`);
  `ReplacedOnce` and `WithinBudget` are therefore checked for one process.
* The UPDATE with expected revision stores no tier although the snapshot records
  it (`sqlite-store.ts:7275`): `LatestSnapshot` excepts that column.
* A patch of the title alone leaves `char_count` as it was
  (`memory-write-service.ts:560`): `CharCountOfATitle` says what is left, that the
  count is of the present text with a title the memory has had.
* A `remember` stores the `supersedes` and the status it is given
  (`services/memory-service-helpers.ts:522`, `:528`), and marks nothing as superseded:
  `SupersededByLists` and `ReplacedOnce` are about the link of the old row.
* `update_memory` looks its key up last (`memory-write-service.ts:506`), so a retry
  may be refused: `RetryReplays` is checked for the other tools.
* A worker whose lease ran out may settle the job under its successor
  (`sqlite-store.ts:2015`); `finishStage` closes a run and records outputs by
  separate statements (`jobs/service.ts:368`); nothing reads a cancel request
  (`jobs/service.ts:322`); the loser of two concurrent enqueues gets SQLite's
  error (`jobs/service.ts:216`).
* An apply writes no revision row for what it supersedes
  (`memory-maintenance-service.ts:954`); a late rejection or expiry overwrites
  `completed` (`memory-service.ts:1054`); a retry after `expires_at` is refused
  (`maintenance-plan-store.ts:209`); an advisory plan never completes, so every
  key is answered ok (`memory-service.ts:1110`), which is why `WholeOrNothing` and
  `OneKeyWins` speak of plans with something to merge.

* An apply of candidates has no compare-and-set on the target's revision, and a
  candidate without its action makes `apply --all` throw (`distillation/service.ts`).
  A scan of unchanged sources proposes items again, and `failure_reason` of a plan
  is never set (`bootstrap/service.ts`). The reason of a capability drift is never
  cleared (`admin/capability.ts:579`). `--keep 0` prunes the backup just taken, and a
  daemon goes on writing to a file that was restored away, while its log keeps the
  name the next opener looks for (`backup.ts`, `cli/commands/backup.ts:117`).
* The characters of an exported context do not count its preamble
  (`services/memory-read-service.ts:572`). Nothing calls `getEntry`, `recordAccess`
  or `recordRecallSignal`, so that the accesses the ranking reads come from old
  databases only; relations are written by migrations and imports only.

Bounds. `MaxRev` stops updates of a row at that revision (3 is a create, a change
and a change on top of it). `MaxWrites` bounds what others write during sweeps: one
write is enough to make stale what a sweep or a merge has listed. `MaxLosses` bounds
the losses of launchers and the ids given out again: one leaves a stale lock behind,
a second one happens to who reclaims it. `MaxLate`, `MaxCrashes` and `MaxRetries` bound what
the environment does to runners; `MaxAttempts` follows from them and never
blocks a claim. In `MaintenancePlans` other writers stop at `MaxRev` while a merge
may still go one further, so that a merge of a row that has changed is possible.

Deadlock is checked in every run but `Services`: a process can always start a call, and a runner
that finds nothing lists again.

Symmetry is used on processes, workers, clients, digests and keys of plans, never
in `JobsRun`, which checks liveness.

## Fairness

The property `JobsSettle` of `JobsRun` assumes weak fairness of each runner's own steps (a loop that does
not stop by itself), of leases and retry windows running out (the clock), and of
someone starting a runner again after one has gone down. The code starts none;
an operator does, as `docs/guides/jobs.en.md` describes. Deaths, late leases and
retries are bounded: with infinitely many of them nothing could be promised.

`Services` assumes for `ServersServeAndEnd`: that launchers are started (by their
users) and run on, each step; that queued microtasks run and the timer of the
ceiling fires; and that the HTTP daemon, once its last connection is gone, closes
its sessions and shuts the lifecycle down. Clients are not assumed to finish a body
or to leave a stream, so the end of the HTTP daemon is promised from the moment
there is no connection left (`StopsWhenDrained`); from the signal on it is not kept
(`StopsInTheEnd`). Closing a transport or the store is not assumed to settle: the
ceiling is there for that. Losses of a launcher's process and hangs are bounded, and
a launcher is not for ever given the process id that a stale lock names.

## Proofs

Every safety property of a passing run is a theorem as well: TLC checks it on the
instance of the run, TLAPS proves it for every value of the constants that the
named assumptions of the modules admit. TLC evaluates these assumptions in each run.

### The write service

`MemoryWritesProofs` proves, for any memories, processes, keys, calls and bounds:

* `TypeCorrect`: `Spec => []TypeOK`.
* `ChainIsComplete`: `Spec => []RevisionChain`.
* `SnapshotIsLatest`: `Spec => []LatestSnapshot`.
* `KeysAreExactlyOnce`: `Spec => []ExactlyOnce`.
* `OneWinnerPerRevision`: `Spec => []CasOneWinner`.
* `SupersededIsListed`: `Spec => []SupersededByLists`.
* `RepeatsReplay`: `Spec => []RetryReplays`, if no `update_memory` carries a key.
* `ImplementsStore`: `Spec => AtomicStore`, that is, `MemoryWrites` implements
  `VersionedStore` under the mapping of row revisions, recorded revisions and
  stored answers.

and for one process (`Alone`), as the code keeps none of these for two:
`NeverRevivedAlone`, `ForgottenIsClearedAlone`, `ReplacedOnceAlone`,
`CharCountAlone` and `WithinBudgetAlone`
(finitely many ids, and a store that is within its budget at first).

They rest on the named assumptions of `MemoryStore` and `MemoryWrites`: `None`
is no value of any column or slot, and a request is one the validator lets
through (an update names one memory, a creation carries a title and a text,
status patches are active or archived).

*Type correctness* is not inductive. A transaction adds one to the revision of
rows that were seen by `peekEntry` some steps earlier, and the type of the result
depends on their still being there. `IInv` adds `Sound` for each call: from the
budget on, every memory it names has been seen, and whatever has been seen
exists. `CommitFacts` is what each transaction draws from it.

*The chain.* `TransactionOrQuiet` shows once that every step either leaves the
tables alone or is a `Transaction`: a set of rows, each advanced by one revision
with a snapshot at that revision (`Advances`). `ChainGrows` and `SnapshotStep`
then speak of transactions only, and so does the refinement.

*Exactly once* needs `AnswersMatchSlots`: a call about to answer ok under a key
answers what the slot holds. With it, `FinishOnce` shows that a slot is filled
from empty and its effect counted once, and `NoteReply` that clients are told
one result. `RepeatsReplay` adds `RepeatsAnswered`: a call that began when its key
had been answered has that answer from its first step. An `update_memory` has not:
it looks at the memory first.

*One winner* needs `CasInv`: a revision that a call has won is below the
revision its row has now, and only calls that expect a revision carry one to the
commit, which compares it with the row.

*One process.* `AloneInv` says what the checks before a transaction are worth if
nobody writes in between: what a call has seen is what is there (`Current`), and the
budget is what it was when it was evaluated (`Weighed`). The budget is a sum over the
rows, which a commit changes by what `Exceeds` counts (`SumTheorems`).

### The queue

`DerivationJobsProofs` proves, for any workers, clients, keys, digests, outputs
and bounds, the type invariant and

* `LeasedWhileRunning`: `Spec => []RunningIffLeased`.
* `EnqueueOnce`: `Spec => []EnqueueIdempotent`.
* `AttemptsUnique`: `Spec => []AttemptsAreUnique`.
* `SuccessIsComplete`: `Spec => []SucceededHasOutputs`.
* `LeasesRespected` and `FinalForGood`: the action properties `LeaseRespected` and
  `FinalIsFinal`.
* `ImplementsLedger`: `Spec => LedgerOfJobs`, that is, `DerivationJobs` implements
  `JobLedger`.

Assumed are `BoundsAssumption` and `NoneIsNoRow` (NULL is no job and no status).
There are two inductive invariants. `IInv` is about the queue: rows are numbered
without holes (`RowsInOrder`), no two have one key (`OneRowPerKey`), a runner past its
listing names a job that exists and holds one of the attempts its row counts
(`ClaimsHeld`), and a client was told of a row with its key and digest
(`ClientsTold`). `RInv` adds the runs: each run on record was claimed
(`RunsClaimed`), and a runner that says its attempt succeeded has its run, and the
outputs it has let go of, on record (`WorkRecorded`). The second half is needed
because settling asks only that the job is running: a worker whose lease ran out
settles its successor's claim, and must itself have recorded all outputs by then.

*The ledger.* `Entry` maps a row to its entry, a failed row with an open retry window
to a job that may be started again. An insert is an `Enqueue` by `OneRowPerKey`
and `RowsInOrder`, a claim a `Start`, a reap one `Lapse` of all jobs it gives back, an
output a `Deliver` by `ClaimsHeld` (a worker delivers under an attempt that was
started, though perhaps given up since), and either way to settle a `Settle` by
`WorkRecorded`. No other statement, death, expiry or cancel request shows. That a
cancel request does not show is what the code does: nothing reads it.

### Maintenance plans

`MaintenancePlansProofs` proves, for any memories, plans, processes and keys, the
type invariant and

* `PlansAreWhole`: `Spec => []WholeOrNothing`.
* `OneWinner`: `Spec => []OneKeyWins`.
* `PlansKept` and `KeptActive`: the action properties `MergesAsPlanned` and
  `KeptIsActive`.

Assumed are those of `MemoryStore`, `PlansAssumption` and `NoneIsNoPlan`. None of the
properties is inductive: an answer ok is counted some steps after the transaction,
during which others may mark the plan. `PlanSound` says what holds of a plan in
each state (pending: nothing merged and nobody answered; completed: all merged),
`CallSound` what a call about to answer may rely on, and `PlansStay` why no other
step can spoil it: a plan leaves pending once, and keeps its key and what was
merged from then on, although `Mark` overwrites its state. `RowsBounded` is for the
type of `rev`. That no group keeps what another supersedes (`LosersPlanned`) rests on
`DuplicatesApart`: identical title and body are an equivalence.

### Services

The theorems are about `Spec` of `Services`, for all its constants at once; the
assumptions are `AbsentAssumption` (NULL is none of the values it stands beside),
`BoundsAssumption`, `NumbersAssumption` (memories, events, entries and versions are
numbered, sensitivities are finitely many) and `StockAssumption` (what is ranked and
counted against a budget are rows).

| theorem | states | inductive invariants |
|---|---|---|
| `DaemonsStay` | the action property `DaemonStays` | `DaemonInv`: no two launchers have one process id, and who listens serves; `DaemonRace`: until something is lost nobody releases a lock, who is about to read did not make the lock there is, and where one comes before a lock to be created someone is under way to the port or listens |
| `NothingIsLeft` | `NothingLeftBehind` | `LifeInv`: from the beginning of the sequence no call starts, and for idleness none was open; `HttpInv`: a call that was let in came before the end of its session, from the signal on nothing is let in |
| `CapabilityHolds` | `CapabilitySound` | `CapInv`: a token is on its way to the disk once, and a server loaded none that was withdrawn when it started |
| `ChainsEndAlways` | `ChainsEnd` | `SweepInv`: as long as merges did not overlap one is under way at most, and nothing it found active has been superseded since |
| `SweepsRetireOnly` | the action property `SweepsOnlyRetire` | `SweepInv` |
| `SessionsStayConsistent` | `SessionsConsistent` | `IngestInv`: a session has one ingest under way, and none once it was answered; what is stored or answered has an id that was given out |
| `DistilledOneEach` | `Distilled` | `DistilInv`: evidence comes before the action; a candidate has one memory at most, drawn with its evidence under its slot |
| `FilesAlwaysSurvive` | `FilesSurvive`, with one publisher (`PublishOnePublisher`) | `PublishSurvives`: what is not live is put aside, step by step; `BackupInv` |
| `RestoresKeepCommits` | the half of it about backups, with any processes | `BackupInv`: who has the database open has it there, and a log belongs to a database; no commit is lost |
| `BatchesStayWhole` | `BatchesAreWhole` | `BootInv`: a scan is alone with its plan but for those who end it; `ImportInv`: calls have batches apart; `BatchInv`: the rows fit the budget, or while an import overwrites them one by one those it began with do; `HistoryInv`: what an export read is a moment of the past |
| `VersionsAlwaysHold` | `VersionsHold` | `AssetInv`: a call about to write a payload names the content of its version; `LoadoutInv` |
| `ReadsStaySound` | `ReadsAreSound` | `PackInv`: what was passed over did not fit and would not now; `PluginInv`: no text outlives its reading by more than its time; `MigrateInv`: one process rebuilds at a time, and the events are in one of the tables; `ProjectInv`: a call about to write its alias has seen or written an identity; `RankInv`; `ReadInv` |
| `RowsAlwaysStand` | the action property `RowsStand` | `ProjectInv`, `MigrateInv`, `AssetInv`, `BootInv`, `RankInv`, `BridgeInv` |
| `TypesAlwaysHold` | `TypesHold` | all of them |

Each section of these modules ends in two lemmas that lift the part to the whole:
`...Turn` (a step of `Next` is one of the part, if it is its turn, and `part` never
changes) and `...Always` (`Spec => [](part = "..." => ...Inv)`). The theorems then
join the parts.

The hypothesis is the code's limit, not the proof's: two publishers do lose the
export (see the formulas above). The run `Services` has one, so it holds in it.

*Counting and adding.* `BatchInv`, `WithinBudget`, the numbering of `DistilInv` and the
places of `RankInv` rest on sums and cardinalities of finite sets. The folds of the
community modules are recursive functions chosen by `CHOOSE`; `FoldsExist` and
`FoldsAgree` show by the least number at which it fails that there is one such
function (`WFMin`, `NatLessThanWellFounded`), and `SumAdd`, `SumRemove`, `SumUnion`,
`CharsInUnion` are what the rest cites. This replaces induction theorems that
take an operator, which no installed prover can instantiate.

### Only model-checked

* Liveness: `JobsSettle` and `ServersServeAndEnd`. They need fairness and ENABLED,
  which are out of the prover's reach.
* What the code does not keep: the formulas above and the five runs that end in a
  counterexample, among them `MergesDuplicates`.
* That the bounds of a run let each action fire, which is a matter of the instance.

## Not modelled

* Validation, the secret and risk detectors, text similarity, SKILL.md and
  argument parsing, redaction: pure functions of strings. Models start from a
  valid request, or take a refusal as a choice.
* Renderers, listings, summaries and the doctor: reads of one statement each with
  nothing to interleave, and formatting.
* The desktop app, the release and evaluation scripts, the SQLite driver.
* In modelled components: `insertImportedEntry`'s own validation,
  `configureProjectBudget`, the backup before an apply, `renewLease`, checkpoints and
  `markCancelled` (no caller), accesses and recall signals (no caller), full-text
  search, migrations that only add tables (one kind of step in `Migrations`).
* The client name a binding may match besides its actor and project (`Loadouts`);
  audit rows that another process inserts while a migration runs (`Migrations`).
* Clocks: time is an order of events, except where a bound of it is the point
  (`OpencodePlugin`). Two machines on one file are not modelled; the code does not
  support them.

## Plan

Theorems next: a plan applied at most once as an abstract specification of
`MaintenancePlans` and `BootstrapPlans`, and an exclusive lock as one of `DaemonLock`,
which the code keeps only up to the races named above.

A composition worth checking: `BootstrapPlans` and `Distillation` as the `Work` of
`DerivationJobs`, whose takeovers run them twice.
