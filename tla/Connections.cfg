SPECIFICATION MCSpec
CONSTANTS
    c1 = c1
    c2 = c2
    c3 = c3
    Conn <- ThreeConnections
    MaxThreads = 4
    MaxRequests = 1
INVARIANTS TypeOK ClientsCounted SocketsOwned
PROPERTIES RefusalIsForEver HandlersEnd
CHECK_DEADLOCK FALSE
