SPECIFICATION FairSpec
CONSTANTS
    Children = {c1, c2}
    NoChild = NoChild
    Streams = {g1, g2}
    NoStream = NoStream
    MaxConsecutiveErrorRotations = 1
    MaxFaults = 1
INVARIANTS
    OneOfEach
    RecoveryArmed
    StopLeavesNothing
PROPERTIES
    AudioReturns
CHECK_DEADLOCK FALSE
