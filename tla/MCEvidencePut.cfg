\* A restored database uses attempt 1 again, whose object is still in the bucket.
SPECIFICATION Spec
CONSTANTS
    Evidences = {e1}
    Attempts = {1, 2}
    Contents = {x, y}
    Empty = Empty
    GraceTicks = 1
    Earlier <- FirstEarlier
    None = None
SYMMETRY SameBytes
CHECK_DEADLOCK FALSE
INVARIANTS
    FinalIsItsHash
    ResidueIsExplained
    CancellationPropagates
    OrphanIsExplained
PROPERTIES
    CleanupIsBounded
