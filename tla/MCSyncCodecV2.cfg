\* The storage-v2 codec, with one change large enough to be deflated, over
\* a reliable FIFO transport with exact bloom filters.
CONSTANTS
    a = a
    b = b
    c1 = c1
    c2 = c2
    c3 = c3
    None = None
    Peer <- MCPeer
    Change <- MCChange
    MaxInFlight = 1
    MaxFalsePositives = 0
    Reorder = FALSE
    Duplicate = FALSE
    MaxLoss = 0
    MaxRestarts = 0
    RestartedMayCommit = FALSE
    Codec = "v2"
    Compressible = {c1}
    HashOrder <- MCHashOrder
SPECIFICATION Spec
INVARIANTS
    CodecRoundTrip
CHECK_DEADLOCK FALSE
