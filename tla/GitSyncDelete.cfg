CONSTANTS
    Paths = {"a", "ignore"}
    Indexable = {"a"}
    RulesFile = "ignore"
    Callers = {"f", "g"}
    Rank <- MCRank
    Size <- MCSize
    Ops <- Flushes
    MaxVersion = 2
    MaxFileBytes = 1
    MaxTotalBytes = 2
    Embedding = {FALSE}
    QueueCap = 1
    MaxCalls = 20
    MaxRuleEdits = 0
    MaxUpheavals = 1
    MaxCrashes = 0
    Hasty = FALSE
SPECIFICATION GitSpec
CHECK_DEADLOCK FALSE
INVARIANT DeletedIsRemoved
