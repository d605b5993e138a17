SPECIFICATION QueriesFairSpec
CONSTANTS
    MaxRow = 3
    MaxSession = 3
    At <- MCAt
    Filters <- MCFilters
    Limits <- MCLimits
    Default = 2
    Maximum = 2
    None = none
INVARIANTS
    KeysetWalkIsComplete
    OffsetWalkIsComplete
PROPERTIES
    WalkEnds
