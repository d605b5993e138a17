SPECIFICATION Spec
CONSTANTS
    Sessions = {s1, s2}
    Sockets = {w1, w2}
    Stops = {x1}
    MaxCalls = 2
    MaxPending = 2
    NoSession = NoSession
    NoSocket = NoSocket
    Free = Free
SYMMETRY HubSymmetry
INVARIANTS
    NoCrossDelivery
    EachTextOnce
    LockHolderProceeds
PROPERTIES
    LiveClientStays
    OwnerTextsKept
CHECK_DEADLOCK FALSE
