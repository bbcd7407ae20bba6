SPECIFICATION Spec
CONSTANTS
    MaxRounds = 1
    Checkpoint = TRUE
    MaxOverflow = 1
    MaxProviderRetries = 1
    MaxStreamRetries = 1
    MaxPartial = 1
    MaxRateWaits = 1
    MaxEmpty = 1
    MaxTruncated = 1
    MaxContinuations = 1
    MaxGrants = 1
    MaxSteers = 1
INVARIANTS
    RoundsCountAnswers
    ShownIsKept
PROPERTIES
    TurnEnds
CHECK_DEADLOCK FALSE
