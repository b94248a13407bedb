SPECIFICATION MCFairSpec
CONSTANTS
    N = 3
    c1 = c1
    c2 = c2
    k1 = k1
    v1 = v1
    v2 = v2
    Absent = Absent
    Client <- TwoClients
    Key <- OneKey
    Value <- TwoValues
    MaxRequests = 2
INVARIANTS TypeOK NoDivergence WritesDescend NoLostWakeup
PROPERTIES Linearizable AllAnswered
