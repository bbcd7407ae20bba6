SPECIFICATION AnsweringSpec
CONSTANTS
    Kinds = {"Send", "SendWithContext", "Synthetic", "Snapshot", "Compact", "Cancel", "Shutdown"}
    MaxSent = 3
    MaxRounds = 2
    MaxCalls = 2
    NeedsApproval = TRUE
INVARIANTS
    NothingLost
    OneTerminalPerTurn
PROPERTIES
    EveryCommandServed
    ShutdownEnds
CHECK_DEADLOCK FALSE
