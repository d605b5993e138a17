SPECIFICATION FairSpec
CONSTANTS
    Sessions = {s1, s2}
    Sockets = {w1, w2}
    Calls = {c1}
    None = None
INVARIANTS
    OneRuntime
PROPERTIES
    TeardownOnlyAlone
    GhostStops
    PythonIsToldOfEnd
CHECK_DEADLOCK FALSE
