\* Keys run out, and a wish that is fulfilled may end it all.
SPECIFICATION Spec
CONSTANTS
    Keys = {k1, k2}
    Values = {own, mates}
    Others = {mates}
    Foreign = foreign
    Author = author
    Other = other
    None = None
    MaxFaults = 2
SYMMETRY NewKeys
INVARIANTS
    KeyIsKept
    OthersRecordKept
PROPERTY
    ImplementsTaskSet
CHECK_DEADLOCK FALSE
