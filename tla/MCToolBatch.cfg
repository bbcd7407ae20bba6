SPECIFICATION Spec
CONSTANTS
    Keys = {"r1", "r2", "r3", "w1", "w2", "x"}
    Known = {"r1", "r2", "r3", "w1", "w2"}
    Safe = {"r1", "r2", "r3"}
    MaxCalls = 3
    MaxLater = 2
    Batches <- MCBatches
    LaterBatches <- MCLaterBatches
    MaxBatches = 3
    MaxParallel = 2
    MaxReceipts = 2
    Denials = {"Deny", "DenyTurn"}
    Outcomes = {"ok", "err", "image", "intervened"}
    MayBlock = TRUE
INVARIANTS
    OneResultPerId
    NoDuplicateEffect
    WriteBarrier
    ConfirmedNotRerun
    ReuseIsTrusted
PROPERTIES
    StopHolds
    BatchEnds
CHECK_DEADLOCK FALSE
