SPECIFICATION GuardsSpec
CONSTANTS
    Sigs = {a, b}
    Prints = {p, q}
    None = none
    Warn = 3
    Stop = 5
    NudgeAt = 3
    MaxRepeat = 6
    Cap = 11
INVARIANTS
    RunawayBounded
    StopNeedsEvidence
    StopIsWarned
CHECK_DEADLOCK FALSE
