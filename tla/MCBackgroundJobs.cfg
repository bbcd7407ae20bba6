SPECIFICATION Spec
CONSTANTS
    Jobs = {j1}
    Pollers = {p1}
    Watchers = {w1}
    None = none
    MaxJobs = 1
    MaxChunks = 2
    MaxKills = 1
INVARIANTS
    NoMissedWakeup
    LeftStaysKillable
    CompletionIsFinal
PROPERTIES
    KillReaches
CHECK_DEADLOCK FALSE
