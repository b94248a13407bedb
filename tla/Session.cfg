SPECIFICATION MCSpec
CONSTANTS
    c1 = c1
    c2 = c2
    c3 = c3
    k1 = k1
    k2 = k2
    None = None
    Client <- ThreeClients
    Key <- OneKey
    Limit = 2
    Descriptors = 2
    MaxCommands = 3
INVARIANTS TypeOK OwnAnswers
PROPERTY WaitsForOthers
CHECK_DEADLOCK FALSE
