SPECIFICATION FairSpec
CONSTANTS
    MaxSpans = 3
    MaxBuffered = 2
    TTL = 1
    MaxTransit = 1
    Window = 3
INVARIANTS
    StoredOnce
    QueueIsRecentWindow
    NoSilentLoss
PROPERTIES
    ImplementsSpanFeed
    EverySpanLeaves
