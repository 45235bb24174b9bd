SPECIFICATION Spec
CONSTANTS
    Requests = {r1, r2}
    MaxStarts = 3
    Amounts = {100}
    Cents <- SmallAmounts
    Gates <- SomeReasons
    Patches <- AllPatches
    Jobs = {j1, j2, j3}
    ActiveJobs = {j1, j2}
    Nobody = Nobody
SYMMETRY Interchangeable
INVARIANT CashCarriesNoGst
