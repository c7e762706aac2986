\* InsertNth against the place after the index-th visible element, over
\* every tree of at most two ops per leaf; two replicas, five ops.
CONSTANTS
    None = None
    Actor <- MCActor
    MaxOps = 5
    MaxNode = 2
    k1 = k1
    k2 = k2
    Props <- MCProps
SPECIFICATION Spec
INVARIANTS
    InsertNthIsNth
CHECK_DEADLOCK FALSE
