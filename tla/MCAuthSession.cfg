\* The bound on sign-ins ends every behaviour signed out.
SPECIFICATION FairSpec
CONSTANTS
    Requests = {r1, r2}
    MaxNonce = 4
INVARIANTS
    OwnToken
    StoreIsOneSession
PROPERTIES
    EndsOnlyItsSession
    RequestsSettle
CHECK_DEADLOCK FALSE
