SPECIFICATION FairSpec
CONSTANTS
    A = A
    B = B
    C = C
    None = None
    Address <- TwoAddresses
    MaxNodes = 2
    MaxLosses = 0
    Restarts = TRUE
PROPERTY JoinsComplete
CHECK_DEADLOCK FALSE
