SPECIFICATION Spec
CONSTANTS
    None = none
    Msgs = {m1}
    Peers = {p1}
    MaxRounds = 2
    MaxCmds = 2
INVARIANTS
    MessagesAccounted
    NoStrayStop
PROPERTIES
    StopHolds
    NoFoldAfterStop
    StopEndsTurn
    MessagesSettled
CHECK_DEADLOCK FALSE
