SPECIFICATION Spec
CONSTANTS
    Words = {a}
    MaxLength = 2
    MaxSegment = 1
    MaxResults = 2
    MaxFailures = 0
    MaxCalls = 1
INVARIANTS
    FinalsAreDelivered
CHECK_DEADLOCK FALSE
