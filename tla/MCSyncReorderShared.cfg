\* Violation: a reordered stale message makes the shared heads regress.
CONSTANTS
    a = a
    b = b
    c1 = c1
    c2 = c2
    c3 = c3
    None = None
    Peer <- MCPeer
    Change <- MCChange
    MaxInFlight = 2
    MaxFalsePositives = 0
    Reorder = TRUE
    Duplicate = FALSE
    MaxLoss = 0
    MaxRestarts = 0
    RestartedMayCommit = FALSE
    Codec = "v1"
    Compressible = {}
    HashOrder <- MCHashOrder
SPECIFICATION Spec
SYMMETRY Symmetry
PROPERTIES
    SharedHeadsMonotone
CHECK_DEADLOCK FALSE
