SPECIFICATION Spec
CONSTANTS
    Key <- FiveKeys
    Code <- FiveCodes
    Name <- FiveNames
    Value = {v1, v2}
    Absent = Absent
    Error = Error
    Size = 2
    MemoryFails = TRUE
INVARIANTS WellFormed KeysSurvive
PROPERTY IsDictionary
CHECK_DEADLOCK FALSE
