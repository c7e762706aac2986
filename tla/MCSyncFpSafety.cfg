\* Safety with bloom false positives over a FIFO transport that may
\* duplicate and may lose one message; three changes, one message in
\* flight per channel.  Safety only, so symmetry is sound.
CONSTANTS
    a = a
    b = b
    c1 = c1
    c2 = c2
    c3 = c3
    None = None
    Peer <- MCPeer
    Change <- MCChange
    MaxInFlight = 1
    MaxFalsePositives = 1
    Reorder = FALSE
    Duplicate = TRUE
    MaxLoss = 1
    MaxRestarts = 0
    RestartedMayCommit = FALSE
    Codec = "v2"
    Compressible = {}
    HashOrder <- MCHashOrder
SPECIFICATION Spec
SYMMETRY Symmetry
INVARIANTS
    SharedHeadsHeld
PROPERTIES
    SharedHeadsMonotone
CHECK_DEADLOCK FALSE
