SPECIFICATION Spec
CONSTANTS
    Ids = {1, 2}
    Responses <- MCTwoCalls
    Snapshots <- MCFresh
    Keep = TRUE
    MidTurn = FALSE
    MaxEpoch = 0
    MaxTags = 5
INVARIANTS
    ResultsReachModel
CHECK_DEADLOCK FALSE
