SPECIFICATION Spec
CONSTANTS
    Sessions = {s1, s2}
    Sockets = {w1, w2}
    Stops = {}
    MaxCalls = 3
    MaxPending = 3
    NoSession = NoSession
    NoSocket = NoSocket
    Free = Free
INVARIANTS
    SentToOwnSession
CHECK_DEADLOCK FALSE
