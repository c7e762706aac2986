--------------------------- MODULE MCSyncProtocol ---------------------------
(* Model-checking instance of SyncProtocol: two peers, three changes. *)
EXTENDS SyncProtocol, TLC

CONSTANTS a, b, c1, c2, c3

MCPeer == {a, b}
MCChange == {c1, c2, c3}

\* Two changes: enough for one to depend on the other.
MCChangePair == {c1, c2}

\* The ascending byte order of the change hashes.
MCHashOrder == <<c1, c2, c3>>

\* Change ids and peers are interchangeable: all start empty and nothing
\* compares them except for equality.
Symmetry == Permutations(MCChange) \cup Permutations(MCPeer)
=============================================================================
