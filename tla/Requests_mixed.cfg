CONSTANTS
    Moving = {"ailog", "scan", "advice", "plan"}
    Pages = {p1, p2}
    None = None
    Max = 1
    MaxChats = 2
    MaxTokens = 1
    MaxClears = 1
    MaxLost = 1
    Tables <- MCTables
    Letters <- MCLetters
    Servers <- MCServers
    BundleFailures <- MCBundleFailures
    ProbeFailures <- MCProbeFailures
    Captures <- MCCaptures
    Learning = 1
    Mature = 1
    Live = 0
    Window = 1
    Retention = 1
    ManyDeadlocks = 1
    FewBlocked = 1
    ManyBlocked = 2
    SomeWait = 1
    HighWait = 1
    MaxTime = 2
    MaxSamples = 2
    Ids = {1, 2, 3}
    Catalogs <- MCCatalogs
    Queries <- MCQueries
    MaxReads = 1
    MaxSuggestions = 3
    Batches <- MCBatches
    Heavy <- MCHeavy
SPECIFICATION RequestsSpec
SYMMETRY PageSymmetry
INVARIANTS EndIsStored AnswerIsWhole ClearedStaysCleared
    WorstIsKept OrderFree ChecksAreHonest
    ConsolidationIsSound NoUnaskedLoad 
PROPERTIES AllClearIsEarned  
