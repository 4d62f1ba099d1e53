SPECIFICATION Spec
CONSTANTS
    Chats = {c1}
    Depth = 5
    Stores <- MCStores
    Second <- MCSecond
    Carriers = {3}
    Window = 2
    Budget = 2
    MaxRounds = 2
    Sweeps = {s1, s2}
    OperatorCount = 2
    MaxOperatorAsks = 1
    MaxFaults = 1
INVARIANTS RequestsAreBounded WalkLeavesNoGap
PROPERTIES WalkReads
CHECK_DEADLOCK FALSE
