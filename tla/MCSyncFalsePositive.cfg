\* Violation: a bloom false positive leaves a sent change without its
\* dependency.
CONSTANTS
    a = a
    b = b
    c1 = c1
    c2 = c2
    c3 = c3
    None = None
    Peer <- MCPeer
    Change <- MCChange
    MaxInFlight = 1
    MaxFalsePositives = 1
    Reorder = FALSE
    Duplicate = FALSE
    MaxLoss = 0
    MaxRestarts = 0
    RestartedMayCommit = FALSE
    Codec = "v1"
    Compressible = {}
    HashOrder <- MCHashOrder
SPECIFICATION Spec
SYMMETRY Symmetry
INVARIANTS
    ChangesApplicable
CHECK_DEADLOCK FALSE
