CONSTANTS
    Paths = {"a"}
    Indexable = {"a"}
    Callers = {"tool", "monitor"}
    Rank <- MCRank
    Size <- MCSize
    Ops <- WithClear
    MaxVersion = 3
    MaxFileBytes = 9
    MaxTotalBytes = 9
    Embedding = {TRUE, FALSE}
    QueueCap = 1
    MaxCalls = 3
    MaxRuleEdits = 0
    MaxCrashes = 1
SPECIFICATION Spec
CHECK_DEADLOCK FALSE
INVARIANTS IInv FreshSkipSound VectorsMatchChunks PostingsMatchChunks
