SPECIFICATION Spec
CONSTANTS
    Users = {1, 2, 3}
    Requests = {r1, r2}
    MaxActiveAdmins = 3
    Patches <- RoleChanges
    Nobody = Nobody
SYMMETRY Interchangeable
INVARIANTS
    DemotionsStayApart
