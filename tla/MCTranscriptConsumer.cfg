SPECIFICATION FairSpec
CONSTANTS
    Sessions = {s1, s2}
    MaxMessages = 3
    Unparseable = {2}
    Batch = 2
    MaxDeliver = 3
    MaxTracked = 1
    Faults = {"transit", "ack", "restart"}
    MaxFaults = 1
INVARIANTS
    OfferedInOrder
    SettledWasOffered

    
    
CHECK_DEADLOCK FALSE
