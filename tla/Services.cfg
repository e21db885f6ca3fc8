SPECIFICATION ServicesSpec
CHECK_DEADLOCK FALSE
CONSTANTS
    PoolRoots = {"r"}
    PoolCallers = {"main", "reindex"}
    MaxSpawns = 3
    MaxPoolCalls = 2
    MaxDeaths = 1
    Embedders = {"pass", "search"}
    MaxRtCancels = 1
    MaxRtUpheavals = 3
    FsFiles = {"a", "b", "rules"}
    InSub = {"b"}
    FsRules = "rules"
    MaxFsVersion = 2
    MaxFsDeletes = 1
    FlushSlots = {1, 2}
    PollConfigs <- MCPollConfigs
    PollDefaults <- MCPollDefaults
    Recorders = {"server", "broker"}
    MaxFeedback = 3
    MaxFbDeletes = 1
INVARIANTS NoChildLeaks  OneProbe PollsInTime ExportIsWhole
PROPERTIES CallsReturn RuntimeRecovers 
