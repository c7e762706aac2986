\* Violation: after one lost message the peers never converge (two changes).
CONSTANTS
    a = a
    b = b
    c1 = c1
    c2 = c2
    c3 = c3
    None = None
    Peer <- MCPeer
    Change <- MCChangePair
    MaxInFlight = 1
    MaxFalsePositives = 0
    Reorder = FALSE
    Duplicate = FALSE
    MaxLoss = 1
    MaxRestarts = 0
    RestartedMayCommit = FALSE
    Codec = "v1"
    Compressible = {}
    HashOrder <- MCHashOrder
SPECIFICATION Spec
PROPERTIES
    Convergence
CHECK_DEADLOCK FALSE
