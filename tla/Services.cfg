SPECIFICATION Spec
CONSTANTS
    None = None
    Procs = {"p1", "p2"}
    MaxCalls = 3
    MaxRev = 2
    SessionIds = {"i1", "i2"}
    Memories = {1, 2}
    Clients = {"c1", "c2"}
    Launchers = {"l1", "l2"}
    Pids = {1, 2, 3}
    MaxLosses = 2
    MaxHangs = 1
    HttpRequests = {"r1", "r2"}
    HttpActors = {"a1", "a2"}
    DefaultActor = "a0"
    MaxHttpRequests = 4
    MaxBridgeRequests = 5
    Hooks = {"h1", "h2"}
    Ttl = 2
    MaxTime = 4
    Tokens = {"t1", "t2"}
    Operators = {"o1", "o2"}
    Servers = {"s1"}
    Sweepers = {"s1", "s2"}
    Strategies = {"keep_first", "keep_newest"}
    MaxWrites = 1
    BatchSize = 2
    Sources = {"x"}
    Events = {1, 2}
    Workers = {"w1"}
    Reviewers = {"r1", "r2"}
    Decisions = {1, 2}
    MaxReviews = 3
    Plans = {"p1"}
    ConfiguredSources = {"s1", "s2"}
    MaxApplies = 3
    ImportedIds = {1}
    Batches = {"b1", "b2"}
    BundleRev = 2
    Local = Local
    Bundled = Bundled
    Merged = Merged
    Publishers = {"p1"}
    Exports = {"e1", "e2", "e3"}
    Torn = Torn
    MaxStates = 2
    MaxFiles = 3
    Keep = 2
    Assets = {"s"}
    Contents = {"c1", "c2"}
    MaxAssetVersion = 3
    Channels = {"bootstrap", "query"}
    Callers = {"a"}
    Projects = {"j"}
    Tasks = {"t"}
    Priorities = {0, 1}
    MaxLoadoutVersion = 2
    MaxBindings = 2
    Paths = {"a", "b"}
    Given = {"g", "h"}
    LastVersion = 20
    Started = {1, 8}
    Entries = {1, 2, 3}
    Costs = {1, 3}
    Limits = {2, 4}
    Items = {1, 3}
    RankedStock <- MCRankedStock
    Voters = {"a", "b"}
    MaxNotes = 2
    ReadCeiling <- MCReadCeiling
    Sensitivities = {1, 2}
    MaxReadRev = 3
    BudgetIds = {1, 2, 3, 4}
    FreshIds = {3, 4}
    StoredStock <- MCStoredStock
    ImportedStock <- MCImportedStock
    Topics = {"t1", "t2"}
    Budget <- MCBudget
    ExportModes = {"snapshot", "full_history"}
    MaxExports = 2
INVARIANT TypesHold
INVARIANT NothingLeftBehind
INVARIANT CapabilitySound
INVARIANT ChainsEnd
INVARIANT SessionsConsistent
INVARIANT Distilled
INVARIANT BatchesAreWhole
INVARIANT FilesSurvive
INVARIANT VersionsHold
INVARIANT ReadsAreSound
PROPERTY DaemonStays
PROPERTY SweepsOnlyRetire
PROPERTY RowsStand
PROPERTY ServersServeAndEnd
CHECK_DEADLOCK FALSE
