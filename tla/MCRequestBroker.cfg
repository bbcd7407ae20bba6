SPECIFICATION Spec
CONSTANTS
    Requesters = {r1, r2}
    Answers = {yes}
    Null = null
    NoReturn = noReturn
    MaxRequests = 2
    MaxCommands = 2
INVARIANTS
    WaiterReachable
    NoLeak
PROPERTIES
    ImplementsPromise
    TimeoutUnblocks
    CancelUnblocks
CHECK_DEADLOCK FALSE
