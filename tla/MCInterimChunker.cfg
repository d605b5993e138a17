SPECIFICATION Spec
CONSTANTS
    Words = {a, b}
    MaxLength = 2
    MaxSegment = 2
    MaxResults = 3
    MaxFailures = 1
    MaxCalls = 3
SYMMETRY ChunkerSymmetry
INVARIANTS
    SpanOfOneSegment
    
CHECK_DEADLOCK FALSE
