SPECIFICATION FairSpec
CONSTANTS
    Sessions = {s1, s2}
    MaxDeltas = 3
    MaxSegment = 2
    MaxQueued = 1
    InputSize = 1
    MaxFailures = 1
INVARIANTS
    SentenceOfOneSegment
    EachDeltaOnce
    SpokenOrder
    NoStrandedText
PROPERTIES
    ImplementsSentenceFeed
    EveryDeltaShipped
CHECK_DEADLOCK FALSE
