SPECIFICATION Spec
CONSTANTS
    Users = {1, 2, 3, 4}
    Requests = {r1, r2}
    MaxActiveAdmins = 2
    Patches <- MixedChanges
    Nobody = Nobody
SYMMETRY Interchangeable
INVARIANTS
    RemovalLeavesAnother
    OverrunIsBounded
CHECK_DEADLOCK FALSE
