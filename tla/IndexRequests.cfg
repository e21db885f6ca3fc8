CONSTANTS
    Callers = {a, b, c}
    Patient = {a, b}
    QueueCap = 1
    Gone = Gone
    Nobody = Nobody
SPECIFICATION FairSpec
INVARIANTS OneRequestEach NobodyForgotten
PROPERTIES ServiceKept EveryCallReturns
