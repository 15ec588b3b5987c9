CONSTANTS
    Pollers = {p1, p2}
    Graphs = {g1, g2}
    Retention = 1
    MaxTime = 2
    MaxCrashes = 1
    None = None
    LateTime = 3
    MaxFaults = 1
    Database <- OneDatabase
    Results <- MCResults
    OldLogs <- MCOldLogs
    Unit = 840
    MaxSamples = 7
    MaxPolls = 3
    Tables = {t1, t2}
    Gap = 2
    MRetention = 2
    Metrics = {"io"}
    Rules <- Tiers
    Silent = {"io"}
    Unreadable = {"io"}
    SameName = TRUE
    Webhook = TRUE
    Cooldown = 2
    PassTime = 1
    MaxLevel = 2
SPECIFICATION CollectorsSpec
INVARIANTS  BaselineIsBatch  
    
PROPERTIES Captured SpikeShows LooksAreRecorded  StandingBreachFires
