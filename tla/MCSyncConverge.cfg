\* Convergence, and changes that always apply on arrival, over a reliable
\* FIFO transport with exact bloom filters, three changes, one message in
\* flight per channel; one peer may restart empty, and resyncs before it
\* makes changes of its own.  Messages cross as the bytes of the build
\* without storage-v2, where one change is large enough to be deflated.
CONSTANTS
    a = a
    b = b
    c1 = c1
    c2 = c2
    c3 = c3
    None = None
    Peer <- MCPeer
    Change <- MCChange
    MaxInFlight = 1
    MaxFalsePositives = 0
    Reorder = FALSE
    Duplicate = FALSE
    MaxLoss = 0
    MaxRestarts = 1
    RestartedMayCommit = FALSE
    Codec = "v1"
    Compressible = {c1}
    HashOrder <- MCHashOrder
SPECIFICATION Spec
INVARIANTS
    ChangesApplicable
    CodecRoundTrip
PROPERTIES
    Convergence
CHECK_DEADLOCK FALSE
