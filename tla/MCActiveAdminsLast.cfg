SPECIFICATION Spec
CONSTANTS
    Users = {1, 2, 3}
    Requests = {r1, r2}
    MaxActiveAdmins = 2
    Patches <- AllChanges
    Nobody = Nobody
SYMMETRY Interchangeable
INVARIANTS
    AlwaysAnAdmin
