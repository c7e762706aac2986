\* Two replicas and five ops (enough for two concurrent updates of one
\* element beside two more elements), leaves of at most two ops, so the
\* trees over five ops have one to three leaves with separators between.
CONSTANTS
    None = None
    Actor <- MCActor
    MaxOps = 5
    MaxNode = 2
    k1 = k1
    k2 = k2
    Props <- MCProps
SPECIFICATION Spec
INVARIANTS
    SeekOpIsScan
    ReplicasAgree
PROPERTIES
    ListRefined
CHECK_DEADLOCK FALSE
