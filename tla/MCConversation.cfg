SPECIFICATION Spec
CONSTANTS
    Ids = {1, 2}
    Responses <- MCResponses
    Snapshots <- MCResumed
    Keep = TRUE
    MidTurn = TRUE
    MaxEpoch = 1
    MaxTags = 5
INVARIANTS
    WireLegal
    RepairIsExact
    OnlyBlockWithholds
PROPERTIES
    PrefixStable
    ProtectedKept
CHECK_DEADLOCK FALSE
