SPECIFICATION RelationSpec
CHECK_DEADLOCK FALSE
CONSTANTS
    GraphCallers = {"call"}
    GraphLanguages = {"go"}
    MaxTreeVersion = 2
    MaxGraphCalls = 2
INVARIANTS GoGraphIsCurrent
