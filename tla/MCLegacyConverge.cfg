\* Backend sync: convergence over a reliable FIFO transport, exact bloom
\* filters, three changes, one message in flight per channel; messages cross
\* as the bytes SyncMessage::encode writes, and one change is large enough
\* that automerge would deflate it.
CONSTANTS
    a = a
    b = b
    c1 = c1
    c2 = c2
    c3 = c3
    None = None
    Peer <- MCPeer
    Change <- MCChange
    MaxInFlight = 1
    MaxFalsePositives = 0
    MaxRestarts = 1
    Compressible = {c1}
    HashOrder <- MCHashOrder
SPECIFICATION Spec
INVARIANTS
    CodecRoundTrip
PROPERTIES
    Convergence
CHECK_DEADLOCK FALSE
