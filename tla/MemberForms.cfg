SPECIFICATION Spec
CONSTANTS
    A = A
    B = B
    C = C
    None = None
    Address <- ThreeAddresses
    MaxNodes = 3
    MaxLosses = 0
    Restarts = FALSE
INVARIANT ChainForms
CHECK_DEADLOCK FALSE
