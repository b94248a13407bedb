SPECIFICATION Spec
CONSTANTS
    MaxServers = 3
    Formed = 2
    MaxWrites = 2
    MaxFaults = 0
INVARIANT CopiesAgree
CHECK_DEADLOCK FALSE
