SPECIFICATION RecordsFairSpec
CONSTANTS
    Sessions = {s1}
    NoSession = none
    MaxMonitors = 2
    MaxStops = 2
    MaxPairs = 2
    MaxFaults = 1
INVARIANTS
    RowBeforePair
    EndIsReportedOnce
PROPERTIES
    
    EndIsTold
CHECK_DEADLOCK FALSE
