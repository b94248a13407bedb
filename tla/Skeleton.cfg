SPECIFICATION MCSpec
CONSTANTS
    h1 = h1
    h2 = h2
    h3 = h3
    k1 = k1
    k2 = k2
    v1 = v1
    Absent = Absent
    Handler <- ThreeHandlers
    Key <- OneKey
    Value <- OneValue
    Operation <- AllOperations
    MaxRequests = 1
INVARIANTS TypeOK TotalCounts UndisturbedReads
PROPERTY AllAnswered
CHECK_DEADLOCK FALSE
