\* The same, with a client that answers with the root it had when it read the request.
SPECIFICATION Spec
CONSTANTS
    Roots = {r1, r2}
    Launch = r1
    NoRoot = NoRoot
    Snapshot = TRUE
    MaxSent = 3
INVARIANTS NoStaleResults
CHECK_DEADLOCK FALSE
