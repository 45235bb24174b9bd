\* A resend is refused before the first request has reached the lock.
SPECIFICATION Spec
CONSTANTS
    Keys = {k1, k2}
    Values = {own, mates}
    Others = {mates}
    Foreign = foreign
    Author = author
    Other = other
    None = None
    MaxFaults = 2
SYMMETRY NewKeys
INVARIANTS
    SlowIsNotTwice
CHECK_DEADLOCK FALSE
