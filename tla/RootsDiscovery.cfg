\* Two workspaces, a client that answers with the root it has by then.
\* The client may stop sending: the session then idles.
SPECIFICATION FairSpec
CONSTANTS
    Roots = {r1, r2}
    Launch = r1
    NoRoot = NoRoot
    Snapshot = FALSE
    MaxSent = 3
INVARIANTS NoStaleResults MemoryNeedsName NothingSpawnedEarly
PROPERTIES DiscoveryEnds
CHECK_DEADLOCK FALSE
