SPECIFICATION MCSpec
CONSTANTS
    A = A
    B = B
    C = C
    None = None
    Address <- ThreeAddresses
    MaxNodes = 3
    MaxLosses = 1
    Restarts = FALSE
INVARIANTS TypeOK LinkFollowsChain
PROPERTIES JoinsComplete LinkCatchesUp
CHECK_DEADLOCK FALSE
