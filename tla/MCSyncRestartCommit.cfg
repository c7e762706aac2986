\* Violation (two changes): a peer that restarts empty and makes a change before it
\* resyncs never receives the changes it lost.
CONSTANTS
    a = a
    b = b
    c1 = c1
    c2 = c2
    c3 = c3
    None = None
    Peer <- MCPeer
    Change <- MCChangePair
    MaxInFlight = 1
    MaxFalsePositives = 0
    Reorder = FALSE
    Duplicate = FALSE
    MaxLoss = 0
    MaxRestarts = 1
    RestartedMayCommit = TRUE
    Codec = "v1"
    Compressible = {}
    HashOrder <- MCHashOrder
SPECIFICATION Spec
PROPERTIES
    Convergence
CHECK_DEADLOCK FALSE
