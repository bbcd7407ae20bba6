CONSTANTS
    Files = {f1, f2}
    Scopes = {"code", "conversation", "both"}
    MaxTurns = 2
    MaxFaults = 0
    MaxCrashes = 0
SPECIFICATION Spec
PROPERTIES LaterWorkKept
CHECK_DEADLOCK FALSE
