SPECIFICATION Spec
CONSTANTS
    Jobs = {j1}
    Pollers = {p1}
    Watchers = {}
    None = none
    MaxJobs = 1
    MaxChunks = 1
    MaxKills = 0
INVARIANTS
    DroppedIsDelivered
CHECK_DEADLOCK FALSE
