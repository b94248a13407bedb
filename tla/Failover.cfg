SPECIFICATION FairSpec
CONSTANTS
    MaxServers = 3
    Formed = 2
    MaxWrites = 2
    MaxFaults = 1
INVARIANTS TypeOK AckedWritesKept TablesAgree
CHECK_DEADLOCK FALSE
PROPERTY WritesEnd
