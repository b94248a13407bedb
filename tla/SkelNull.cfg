SPECIFICATION Spec
CONSTANTS
    h1 = h1
    h2 = h2
    h3 = h3
    k1 = k1
    k2 = k2
    v1 = v1
    Absent = Absent
    Handler <- TwoHandlers
    Key <- OneKey
    Value <- OneValue
    Operation <- AllOperations
    MaxRequests = 2
INVARIANT InvokeReturns
CHECK_DEADLOCK FALSE
