\* The bound on sign-ins ends every behaviour signed out.
SPECIFICATION Spec
CONSTANTS
    Requests = {r1, r2}
    MaxNonce = 3
PROPERTY
    SignOutEndsOnlyItsSession
CHECK_DEADLOCK FALSE
