CONSTANTS
    Paths = {"a", "b"}
    Indexable = {"a", "b"}
    Callers = {"tool", "monitor"}
    Rank <- MCRank
    Size <- MCSize
    Ops <- ToolsAndMonitor
    MaxVersion = 2
    MaxFileBytes = 2
    MaxTotalBytes = 2
    Embedding = {TRUE, FALSE}
    QueueCap = 1
    MaxCalls = 2
    MaxRuleEdits = 1
    MaxCrashes = 0
SPECIFICATION Spec
CHECK_DEADLOCK FALSE
INVARIANTS EntryHasChunks PassIsExact BytesAccounted
PROPERTY IgnoredStaysOut
