---------------------------- MODULE Services ----------------------------
(* The components that share no state with the jobs, the writes and the plans, *)
(* in one specification: the initial state chooses the part that moves, the    *)
(* others rest at None. A property of a part is a property of the behaviours   *)
(* in which it moves. Two of the modules are also instantiated by themselves,  *)
(* for what the code does not keep.                                            *)

EXTENDS Naturals, FiniteSets

CONSTANTS
  None,             \* absent; the value of every variable of a part at rest
  Procs,            \* processes on one database file
  MaxCalls,         \* bound on the calls of a server, and of a resolver
  MaxRev,           \* bound on the revisions of a row
  SessionIds,       \* what randomUUID gives out
  Memories,         \* memory ids, a set of numbers
  Clients,          \* processes that ingest, and that read
  Launchers, Pids, MaxLosses, MaxHangs,                        \* DaemonLock
  HttpRequests, HttpActors, DefaultActor, MaxHttpRequests,     \* HttpSessions
  MaxBridgeRequests,                                           \* HttpBridge
  Hooks, Ttl, MaxTime,                                         \* OpencodePlugin
  Tokens, Operators, Servers,                                  \* Capability
  Sweepers, Strategies, BatchSize, MaxWrites,                  \* MemorySweeps
  Sources, Events,                                             \* SessionIngest
  Workers, Reviewers, Decisions, MaxReviews,                   \* Distillation
  Plans, ConfiguredSources, MaxApplies,                        \* BootstrapPlans
  ImportedIds, Batches, BundleRev, Local, Bundled, Merged,     \* ImportBatches
  Publishers, Exports, Torn,                                   \* Publication
  MaxStates, MaxFiles, Keep,                                   \* Backups
  Assets, Contents, MaxAssetVersion,                           \* AssetVersions
  Channels, Callers, Projects, Tasks, Priorities,              \* Loadouts
  MaxLoadoutVersion, MaxBindings,
  Paths, Given,                                                \* ProjectIdentity
  LastVersion, Started,                                        \* Migrations
  Entries, Costs, Limits, Items,                               \* ContextPacking
  RankedStock, Voters, MaxNotes,                               \* RecallRanking
  ReadCeiling, Sensitivities, MaxReadRev,                      \* EntryReads
  BudgetIds, FreshIds, StoredStock, ImportedStock, Topics,     \* BatchBudget
  Budget,
  ExportModes, MaxExports                                      \* HistoryBundles

VARIABLES
  part,
  lock, phase, pid, saw, joined, listener, losses, hangs,
  exit, pending, sequence, reason, transport, store, procCalls, made,
  listening, httpSessions, resolver, req, ended, arrived, armed, httpStage,
  acted,
  bridgeSessions, bridgeUsed, request, answer, sent,
  pluginNow, cached, hook, served,
  capabilityFile, capabilityOp, issued, withdrawn, failed, capabilityServer,
  capabilityUse,
  sweepRow, task, writes, overlapped,
  session, ingestEvent, blob, ingestUsed, ingestCall, answered,
  passed, cand, memories, slot, work, review, reviews,
  plan, bootstrapItems, written, bootstrapCall, applies, broken,
  importRow, chain, batch, importCall, overwritten,
  publishLive, backup, staging, publishCall, left, done,
  backupMain, backupLog, backupServed, files, retired, backupCall, states,
  taken, tips, disturbed,
  asset, assetVersion, payload, verified, assetCall,
  loadoutsHead, rules, bindings, loadoutsUpdate,
  identity, alias, projectCall, projectCalls, answers,
  schemaVersion, audit, aside, plans, schemaItems, ambiguous, proc,
  packingMode, packingCost, packingKind, packingRequired, maxItems, maxChars,
  packingPos, included, unavailable,
  rankedMem, rankedFeedback,
  readRow, readHistory, readTrail, readLinks, readCall, readSeen,
  batchRows, batchBundle, batchPolicy, batchOld, batchStage, batchTodo,
  batchSaved, batchTouched,
  bundleRev, bundleHistory, bundleExport, bundleLive, bundleExports, import,
  bundleMoments

DL == INSTANCE DaemonLock WITH Nobody <- None

SL == INSTANCE ServerLifecycle WITH calls <- procCalls

HS == INSTANCE HttpSessions WITH
  Requests <- HttpRequests, Ids <- SessionIds, Actors <- HttpActors,
  MaxRequests <- MaxHttpRequests, sessions <- httpSessions, stage <- httpStage

HB == INSTANCE HttpBridge WITH
  Requests <- HttpRequests, Ids <- SessionIds, NoId <- None,
  MaxRequests <- MaxBridgeRequests, sessions <- bridgeSessions,
  used <- bridgeUsed

OP == INSTANCE OpencodePlugin WITH now <- pluginNow

CA == INSTANCE Capability WITH
  file <- capabilityFile, op <- capabilityOp, server <- capabilityServer,
  use <- capabilityUse

MS == INSTANCE MemorySweeps WITH row <- sweepRow

SI == INSTANCE SessionIngest WITH
  Ids <- SessionIds, event <- ingestEvent, used <- ingestUsed,
  call <- ingestCall

DI == INSTANCE Distillation

BP == INSTANCE BootstrapPlans WITH
  Sources <- ConfiguredSources, items <- bootstrapItems, call <- bootstrapCall

IB == INSTANCE ImportBatches WITH
  Ids <- ImportedIds, row <- importRow, call <- importCall

PU == INSTANCE Publication WITH
  Procs <- Publishers, live <- publishLive, call <- publishCall

BA == INSTANCE Backups WITH
  main <- backupMain, log <- backupLog, served <- backupServed,
  call <- backupCall

AV == INSTANCE AssetVersions WITH
  MaxVersion <- MaxAssetVersion, version <- assetVersion, call <- assetCall

LO == INSTANCE Loadouts WITH
  Actors <- Callers, Unset <- None, MaxVersion <- MaxLoadoutVersion,
  head <- loadoutsHead, update <- loadoutsUpdate

PI == INSTANCE ProjectIdentity WITH call <- projectCall, calls <- projectCalls

MG == INSTANCE Migrations WITH
  Last <- LastVersion, version <- schemaVersion, items <- schemaItems

CP == INSTANCE ContextPacking WITH
  mode <- packingMode, cost <- packingCost, kind <- packingKind,
  required <- packingRequired, pos <- packingPos

RR == INSTANCE RecallRanking WITH
  Stock <- RankedStock, Actors <- Voters, mem <- rankedMem,
  feedback <- rankedFeedback

ER == INSTANCE EntryReads WITH
  MaxRev <- MaxReadRev, Ceiling <- ReadCeiling, Levels <- Sensitivities,
  row <- readRow, history <- readHistory,
  trail <- readTrail, links <- readLinks, call <- readCall, seen <- readSeen

BB == INSTANCE BatchBudget WITH
  Ids <- BudgetIds, Fresh <- FreshIds, Stock <- StoredStock,
  Imported <- ImportedStock, rows <- batchRows, bundle <- batchBundle,
  policy <- batchPolicy, old <- batchOld, stage <- batchStage,
  todo <- batchTodo, saved <- batchSaved, touched <- batchTouched

HY == INSTANCE HistoryBundles WITH
  Modes <- ExportModes,
  rev <- bundleRev, history <- bundleHistory, export <- bundleExport,
  live <- bundleLive, exports <- bundleExports, moments <- bundleMoments

-----------------------------------------------------------------------------
(* What the constants are taken to be. None is none of the values it stands   *)
(* for the absence of.                                                        *)
ASSUME AbsentAssumption ==
  /\ None \notin Launchers /\ None \notin Pids /\ None \notin SessionIds /\ None \notin Memories
  /\ None \notin Decisions /\ None \notin Reviewers /\ None \notin Batches
  /\ None \notin Exports /\ None \notin Contents /\ None \notin Paths
  /\ None \notin SI!Bundles /\ None \notin AV!Lifecycles /\ None \notin HY!Scope
  /\ None \notin BB!Row /\ None \notin [topic : Topics, chars : Nat]

(* The bounds are numbers; a revision, a version and a time to live are there *)
(* at all.                                                                    *)
ASSUME BoundsAssumption ==
  /\ MaxCalls \in Nat /\ MaxLosses \in Nat /\ MaxHangs \in Nat
  /\ MaxHttpRequests \in Nat /\ MaxBridgeRequests \in Nat /\ MaxTime \in Nat
  /\ MaxWrites \in Nat /\ MaxReviews \in Nat /\ MaxApplies \in Nat /\ MaxBindings \in Nat
  /\ MaxStates \in Nat /\ MaxFiles \in Nat /\ MaxExports \in Nat
  /\ MaxRev \in Nat \ {0} /\ MaxReadRev \in Nat \ {0} /\ Ttl \in Nat \ {0}
  /\ MaxAssetVersion \in Nat \ {0} /\ MaxLoadoutVersion \in Nat \ {0}

(* What is numbered: memories, whose numbers a merge can order, the events of *)
(* a bundle, the decisions of a summary and the entries of a context, each in *)
(* its order, the versions of a schema, costs, limits and sensitivities.      *)
ASSUME NumbersAssumption ==
  /\ Memories \subseteq Nat
  /\ Memories # {} => \E n \in Memories : Memories \subseteq 0..n
  /\ Events \subseteq Nat
  /\ IsFiniteSet(Decisions) /\ Decisions = 1..Cardinality(Decisions)
  /\ IsFiniteSet(Entries) /\ Entries # {} /\ Entries = 1..Cardinality(Entries)
  /\ Costs \subseteq Nat /\ Limits \subseteq Nat /\ Items \subseteq Nat
  /\ LastVersion \in Nat /\ Started \subseteq 1..LastVersion /\ BundleRev \in 1..MaxRev + 1
  /\ Sensitivities \subseteq Nat \ {0} /\ IsFiniteSet(Sensitivities)
  /\ ReadCeiling \in [Clients -> Nat]

(* What is there to be ranked and counted, and the modes of an export.        *)
ASSUME StockAssumption ==
  /\ IsFiniteSet(Voters) /\ RankedStock \subseteq RR!Fields
  /\ IsFiniteSet(BudgetIds) /\ BudgetIds \subseteq Nat
  /\ StoredStock \subseteq BB!Row /\ ImportedStock \subseteq [topic : Topics, chars : Nat]
  /\ Budget.entries \in Nat /\ Budget.chars \in Nat
  /\ "snapshot" \in ExportModes

-----------------------------------------------------------------------------
RestDL ==
  /\ lock = None /\ phase = None /\ pid = None /\ saw = None /\ joined = None
  /\ listener = None /\ losses = None /\ hangs = None
RestSL ==
  /\ exit = None /\ pending = None /\ sequence = None /\ reason = None
  /\ transport = None /\ store = None /\ procCalls = None /\ made = None
RestHS ==
  /\ listening = None /\ httpSessions = None /\ resolver = None /\ req = None
  /\ ended = None /\ arrived = None /\ armed = None /\ httpStage = None
  /\ acted = None
RestHB ==
  /\ bridgeSessions = None /\ bridgeUsed = None /\ request = None
  /\ answer = None /\ sent = None
RestOP ==
  /\ pluginNow = None /\ cached = None /\ hook = None /\ served = None
RestCA ==
  /\ capabilityFile = None /\ capabilityOp = None /\ issued = None
  /\ withdrawn = None /\ failed = None /\ capabilityServer = None
  /\ capabilityUse = None
RestMS ==
  /\ sweepRow = None /\ task = None /\ writes = None /\ overlapped = None
RestSI ==
  /\ session = None /\ ingestEvent = None /\ blob = None /\ ingestUsed = None
  /\ ingestCall = None /\ answered = None
RestDI ==
  /\ passed = None /\ cand = None /\ memories = None /\ slot = None
  /\ work = None /\ review = None /\ reviews = None
RestBP ==
  /\ plan = None /\ bootstrapItems = None /\ written = None
  /\ bootstrapCall = None /\ applies = None /\ broken = None
RestIB ==
  /\ importRow = None /\ chain = None /\ batch = None /\ importCall = None
  /\ overwritten = None
RestPU ==
  /\ publishLive = None /\ backup = None /\ staging = None
  /\ publishCall = None /\ left = None /\ done = None
RestBA ==
  /\ backupMain = None /\ backupLog = None /\ backupServed = None
  /\ files = None /\ retired = None /\ backupCall = None /\ states = None
  /\ taken = None /\ tips = None /\ disturbed = None
RestAV ==
  /\ asset = None /\ assetVersion = None /\ payload = None /\ verified = None
  /\ assetCall = None
RestLO ==
  /\ loadoutsHead = None /\ rules = None /\ bindings = None
  /\ loadoutsUpdate = None
RestPI ==
  /\ identity = None /\ alias = None /\ projectCall = None
  /\ projectCalls = None /\ answers = None
RestMG ==
  /\ schemaVersion = None /\ audit = None /\ aside = None /\ plans = None
  /\ schemaItems = None /\ ambiguous = None /\ proc = None
RestCP ==
  /\ packingMode = None /\ packingCost = None /\ packingKind = None
  /\ packingRequired = None /\ maxItems = None /\ maxChars = None
  /\ packingPos = None /\ included = None /\ unavailable = None
RestRR ==
  /\ rankedMem = None /\ rankedFeedback = None
RestER ==
  /\ readRow = None /\ readHistory = None /\ readTrail = None
  /\ readLinks = None /\ readCall = None /\ readSeen = None
RestBB ==
  /\ batchRows = None /\ batchBundle = None /\ batchPolicy = None
  /\ batchOld = None /\ batchStage = None /\ batchTodo = None
  /\ batchSaved = None /\ batchTouched = None
RestHY ==
  /\ bundleRev = None /\ bundleHistory = None /\ bundleExport = None
  /\ bundleLive = None /\ bundleExports = None /\ import = None
  /\ bundleMoments = None

Init ==
  /\ part \in {"daemon", "lifecycle", "http", "bridge", "plugin",
                "capability", "sweeps", "sessions",
                "distillation", "bootstrap", "import",
                "publication", "backups", "assets", "loadouts",
                "projects", "migrations", "packing", "ranking",
                "reads", "budget", "history"}
  /\ IF part = "daemon" THEN DL!Init ELSE RestDL
  /\ IF part = "lifecycle" THEN SL!Init ELSE RestSL
  /\ IF part = "http" THEN HS!Init ELSE RestHS
  /\ IF part = "bridge" THEN HB!Init ELSE RestHB
  /\ IF part = "plugin" THEN OP!Init ELSE RestOP
  /\ IF part = "capability" THEN CA!Init ELSE RestCA
  /\ IF part = "sweeps" THEN MS!Init ELSE RestMS
  /\ IF part = "sessions" THEN SI!Init ELSE RestSI
  /\ IF part = "distillation" THEN DI!Init ELSE RestDI
  /\ IF part = "bootstrap" THEN BP!Init ELSE RestBP
  /\ IF part = "import" THEN IB!Init ELSE RestIB
  /\ IF part = "publication" THEN PU!Init ELSE RestPU
  /\ IF part = "backups" THEN BA!Init ELSE RestBA
  /\ IF part = "assets" THEN AV!Init ELSE RestAV
  /\ IF part = "loadouts" THEN LO!Init ELSE RestLO
  /\ IF part = "projects" THEN PI!Init ELSE RestPI
  /\ IF part = "migrations" THEN MG!Init ELSE RestMG
  /\ IF part = "packing" THEN CP!Init ELSE RestCP
  /\ IF part = "ranking" THEN RR!Init ELSE RestRR
  /\ IF part = "reads" THEN ER!Init ELSE RestER
  /\ IF part = "budget" THEN BB!Init ELSE RestBB
  /\ IF part = "history" THEN HY!Init ELSE RestHY

daemonVars == <<lock, phase, pid, saw, joined, listener, losses, hangs>>
lifecycleVars == <<exit, pending, sequence, reason, transport, store,
  procCalls, made>>
httpVars == <<listening, httpSessions, resolver, req, ended, arrived, armed,
  httpStage, acted>>
bridgeVars == <<bridgeSessions, bridgeUsed, request, answer, sent>>
pluginVars == <<pluginNow, cached, hook, served>>
capabilityVars == <<capabilityFile, capabilityOp, issued, withdrawn, failed,
  capabilityServer, capabilityUse>>
sweepsVars == <<sweepRow, task, writes, overlapped>>
sessionsVars == <<session, ingestEvent, blob, ingestUsed, ingestCall,
  answered>>
distillationVars == <<passed, cand, memories, slot, work, review, reviews>>
bootstrapVars == <<plan, bootstrapItems, written, bootstrapCall, applies,
  broken>>
importVars == <<importRow, chain, batch, importCall, overwritten>>
publicationVars == <<publishLive, backup, staging, publishCall, left, done>>
backupsVars == <<backupMain, backupLog, backupServed, files, retired,
  backupCall, states, taken, tips, disturbed>>
assetsVars == <<asset, assetVersion, payload, verified, assetCall>>
loadoutsVars == <<loadoutsHead, rules, bindings, loadoutsUpdate>>
projectsVars == <<identity, alias, projectCall, projectCalls, answers>>
migrationsVars == <<schemaVersion, audit, aside, plans, schemaItems, ambiguous,
  proc>>
packingVars == <<packingMode, packingCost, packingKind, packingRequired,
  maxItems, maxChars, packingPos, included, unavailable>>
rankingVars == <<rankedMem, rankedFeedback>>
readsVars == <<readRow, readHistory, readTrail, readLinks, readCall, readSeen>>
budgetVars == <<batchRows, batchBundle, batchPolicy, batchOld, batchStage,
  batchTodo, batchSaved, batchTouched>>
historyVars == <<bundleRev, bundleHistory, bundleExport, bundleLive,
  bundleExports, import, bundleMoments>>

vars == <<part, daemonVars, lifecycleVars, httpVars, bridgeVars, pluginVars,
          capabilityVars, sweepsVars, sessionsVars,
          distillationVars, bootstrapVars, importVars,
          publicationVars, backupsVars, assetsVars,
          loadoutsVars, projectsVars, migrationsVars,
          packingVars, rankingVars, readsVars, budgetVars,
          historyVars>>

(* What stays when a part moves. *)
Only(moving) ==
  /\ part = moving /\ UNCHANGED part
  /\ IF moving = "daemon" THEN TRUE ELSE UNCHANGED daemonVars
  /\ IF moving = "lifecycle" THEN TRUE ELSE UNCHANGED lifecycleVars
  /\ IF moving = "http" THEN TRUE ELSE UNCHANGED httpVars
  /\ IF moving = "bridge" THEN TRUE ELSE UNCHANGED bridgeVars
  /\ IF moving = "plugin" THEN TRUE ELSE UNCHANGED pluginVars
  /\ IF moving = "capability" THEN TRUE ELSE UNCHANGED capabilityVars
  /\ IF moving = "sweeps" THEN TRUE ELSE UNCHANGED sweepsVars
  /\ IF moving = "sessions" THEN TRUE ELSE UNCHANGED sessionsVars
  /\ IF moving = "distillation" THEN TRUE ELSE UNCHANGED distillationVars
  /\ IF moving = "bootstrap" THEN TRUE ELSE UNCHANGED bootstrapVars
  /\ IF moving = "import" THEN TRUE ELSE UNCHANGED importVars
  /\ IF moving = "publication" THEN TRUE ELSE UNCHANGED publicationVars
  /\ IF moving = "backups" THEN TRUE ELSE UNCHANGED backupsVars
  /\ IF moving = "assets" THEN TRUE ELSE UNCHANGED assetsVars
  /\ IF moving = "loadouts" THEN TRUE ELSE UNCHANGED loadoutsVars
  /\ IF moving = "projects" THEN TRUE ELSE UNCHANGED projectsVars
  /\ IF moving = "migrations" THEN TRUE ELSE UNCHANGED migrationsVars
  /\ IF moving = "packing" THEN TRUE ELSE UNCHANGED packingVars
  /\ IF moving = "ranking" THEN TRUE ELSE UNCHANGED rankingVars
  /\ IF moving = "reads" THEN TRUE ELSE UNCHANGED readsVars
  /\ IF moving = "budget" THEN TRUE ELSE UNCHANGED budgetVars
  /\ IF moving = "history" THEN TRUE ELSE UNCHANGED historyVars

Next ==
  \/ Only("daemon") /\ DL!Next
  \/ Only("lifecycle") /\ SL!Next
  \/ Only("http") /\ HS!Next
  \/ Only("bridge") /\ HB!Next
  \/ Only("plugin") /\ OP!Next
  \/ Only("capability") /\ CA!Next
  \/ Only("sweeps") /\ MS!Next
  \/ Only("sessions") /\ SI!Next
  \/ Only("distillation") /\ DI!Next
  \/ Only("bootstrap") /\ BP!Next
  \/ Only("import") /\ IB!Next
  \/ Only("publication") /\ PU!Next
  \/ Only("backups") /\ BA!Next
  \/ Only("assets") /\ AV!Next
  \/ Only("loadouts") /\ LO!Next
  \/ Only("projects") /\ PI!Next
  \/ Only("migrations") /\ MG!Next
  \/ Only("packing") /\ CP!Next
  \/ Only("ranking") /\ RR!Next
  \/ Only("reads") /\ ER!Next
  \/ Only("budget") /\ BB!Next
  \/ Only("history") /\ HY!Next

(* The processes and timers each module assumes to go on: a step of the part   *)
(* that moves leaves the variables of the others alone.                        *)
Fairness ==
  /\ \A l \in Launchers :
       /\ WF_daemonVars(part = "daemon" /\ DL!Start(l))
       /\ WF_daemonVars(part = "daemon" /\ DL!Run(l))
  /\ WF_lifecycleVars(part = "lifecycle" /\ SL!Microtask)
  /\ WF_lifecycleVars(part = "lifecycle" /\ SL!Ceiling)
  /\ WF_httpVars(part = "http" /\ HS!CloseAll)
  /\ WF_httpVars(part = "http" /\ HS!LifecycleShutdown)

Spec == Init /\ [][Next]_vars /\ Fairness

-----------------------------------------------------------------------------
(* Every variable of the part that moves has its type. *)
TypesHold ==
  /\ part = "daemon" => DL!TypeOK
  /\ part = "lifecycle" => SL!TypeOK
  /\ part = "http" => HS!TypeOK
  /\ part = "bridge" => HB!TypeOK
  /\ part = "plugin" => OP!TypeOK
  /\ part = "capability" => CA!TypeOK
  /\ part = "sweeps" => MS!TypeOK
  /\ part = "sessions" => SI!TypeOK
  /\ part = "distillation" => DI!TypeOK
  /\ part = "bootstrap" => BP!TypeOK
  /\ part = "import" => IB!TypeOK
  /\ part = "publication" => PU!TypeOK
  /\ part = "backups" => BA!TypeOK
  /\ part = "assets" => AV!TypeOK
  /\ part = "loadouts" => LO!TypeOK
  /\ part = "projects" => PI!TypeOK
  /\ part = "migrations" => MG!TypeOK
  /\ part = "packing" => CP!TypeOK
  /\ part = "ranking" => RR!TypeOK
  /\ part = "reads" => ER!TypeOK
  /\ part = "budget" => BB!TypeOK
  /\ part = "history" => HY!TypeOK

(* launcher.ts, daemon-lock.ts: whatever becomes of its lock, the daemon that *)
(* listens goes on until its own stop or crash; and until a process is lost   *)
(* or an identifier given out again, a launcher that ends leaves a daemon or  *)
(* one that is about to bind the port.                                        *)
DaemonStays == [][part = "daemon" => DL!PortKept /\ DL!GivesWay]_vars

(* server-lifecycle.ts, idle-timer.ts, http-server.ts: an exit with code 0    *)
(* has closed transport and store, one for idleness has cut off no call; the  *)
(* HTTP daemon goes down with no session registered, not even one whose first *)
(* request was being read at the signal; and no call that comes after the     *)
(* answer to its session's DELETE runs a tool.                                *)
NothingLeftBehind ==
  /\ part = "lifecycle" => SL!OrderlyExit
  /\ part = "http" => HS!NoSessionLeft /\ HS!DeletedIsGone

(* Whatever lock was left, and however launchers race for it, in the end one  *)
(* of them listens for good; once anything has triggered the end of the stdio *)
(* server it ends, whether or not its closes settle; the HTTP daemon ends     *)
(* after a signal once no request is under way and no stream is open.         *)
ServersServeAndEnd ==
  /\ <>[](part = "daemon" => listener # None)
  /\ (part = "lifecycle" /\ (pending # "none" \/ sequence # "none")) ~> exit # "no"
  /\ (part = "http" /\ httpStage = "draining" /\ HS!Drained) ~> httpStage \in {"down", "killed"}

(* capability.ts: no server accepts a token that was revoked or replaced      *)
(* before it started, and only one of the admin profile raises trust or       *)
(* sensitivity, however grants, revocations and their failures cross.         *)
CapabilitySound == part = "capability" => CA!WithdrawnIsRefused /\ CA!PrivilegeNeedsProfile

(* memory-maintenance-service.ts: as long as no two merges were under way at  *)
(* once, following superseded_by from a superseded memory leads to one that   *)
(* is not, whichever rules the merges kept by and whatever was swept,         *)
(* forgotten, archived and brought back in between.                           *)
ChainsEnd == part = "sweeps" => MS!ChainsEnd

(* memory-maintenance-service.ts: a sweep writes over rows that changed since *)
(* it listed them, but only ever retires: it brings back no text that was     *)
(* cleared meanwhile and no older one, makes no memory active, and counts     *)
(* what it changed in the revision.                                           *)
SweepsOnlyRetire == [][part = "sweeps" => MS!OnlyRetires]_vars

(* sessions/service.ts: however ingests of one source overlap, throw, die and *)
(* are forgotten, one session answers for a source, its events are of the     *)
(* bundle it has the hash of, they find their bodies, and a fresh ingest that *)
(* was answered is there in full.                                             *)
SessionsConsistent == part = "sessions" => SI!SessionsConsistent

(* distillation/service.ts: however extractions repeat, reviews race and      *)
(* applies die, a candidate becomes one memory at most, and one that has its  *)
(* evidence.                                                                  *)
Distilled == part = "distillation" => DI!Distilled

(* bootstrap/service.ts, portability/importer.ts: the items of a bootstrap    *)
(* plan are written all together and a plan that reads applied has them; a    *)
(* completed import batch names memories that are there, one that did not     *)
(* complete names none, and no import writes over a revision it did not plan. *)
(* budget-governor.ts: a scope stays within its entries and characters,       *)
(* whatever is imported beside other writers, and has the characters the      *)
(* preflight projected. canonical-model.ts, migration-adapter.ts: the entries *)
(* an import reads with a full history were those of the scope at one moment, *)
(* and the history reaches each.                                              *)
BatchesAreWhole ==
  /\ part = "bootstrap" => BP!PlansAreWhole
  /\ part = "import" => IB!ImportsAreWhole
  /\ part = "budget" => BB!ImportFits
  /\ part = "history" => HY!BundlesHold

(* atomic-publisher.ts, backup.ts: once an export has been published a whole  *)
(* one is on the disk, wherever the publisher dies; restores that are alone   *)
(* with the database lose no commit, whatever is backed up, pruned,           *)
(* checkpointed or cut short.                                                 *)
FilesSurvive ==
  /\ part = "publication" => PU!ExportSurvives
  /\ part = "backups" => BA!CommitsSurvive

(* assets/service.ts, loadouts/service.ts: the versions of an asset are 1 to  *)
(* its head and a payload is the one its version names; the rules of a        *)
(* loadout's version come from one update; no call resolves to a default as   *)
(* such, the earlier levels having found it.                                  *)
VersionsHold ==
  /\ part = "assets" => AV!VersionsHold
  /\ part = "loadouts" => LO!LoadoutsHold

(* scope-resolver.ts, sqlite-store.ts, bridge.mjs: what is final stays so,    *)
(* under racing and dying writers: an alias and an identity, the applied      *)
(* result of a plan under a slower process that migrates a file already       *)
(* migrated, an archived asset, an ended bootstrap plan; a vote for a memory  *)
(* never puts it behind one it preceded (recall-ranker.ts); and a bridge      *)
(* session begins with an initialize and never again.                         *)
RowsStand ==
  [][/\ part = "projects" => PI!KeepsAliases
     /\ part = "migrations" => MG!KeepsApplied
     /\ part = "assets" => AV!KeepsArchived
     /\ part = "bootstrap" => BP!KeepsEnd
     /\ part = "ranking" => RR!PraiseNeverSinks
     /\ part = "bridge" => HB!KeepsClosed /\ HB!OnlyInitialize]_vars

(* assembler.ts, index.js of the plugin, sqlite-store.ts: nothing that would  *)
(* fit is left out of a context behind an oversized entry; no call of the     *)
(* plugin gets a text that had outlived its time when it began; the audit     *)
(* events of a file under migration are in one of their tables; an alias      *)
(* names a project that is known; a ranking has every memory at one place, a  *)
(* better text before a better tier (recall-ranker.ts); a memory that is read *)
(* is shown with the event of its text, and said to be missing only if it was *)
(* or its sensitivity changed meanwhile (memory-read-service.ts).             *)
ReadsAreSound ==
  /\ part = "packing" => CP!NothingThatFits
  /\ part = "plugin" => OP!FreshEnough
  /\ part = "migrations" => MG!EventsAreSomewhere
  /\ part = "projects" => PI!AliasesAreKnown
  /\ part = "ranking" => RR!RankingHolds
  /\ part = "reads" => ER!ReadsHold
=============================================================================
