CONSTANTS
    Files = {f1, f2}
    Scopes = {"code", "conversation", "both"}
    MaxTurns = 2
    MaxFaults = 2
    MaxCrashes = 2
SPECIFICATION Spec
INVARIANTS
    AllOrNothing
    RecoveryKept
PROPERTIES
    JournalResolved
CHECK_DEADLOCK FALSE
