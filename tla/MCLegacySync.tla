---------------------------- MODULE MCLegacySync ----------------------------
(* Model-checking instance of LegacySync: two peers, up to three changes. *)
EXTENDS LegacySync, TLC

CONSTANTS a, b, c1, c2, c3

MCPeer == {a, b}
MCChange == {c1, c2, c3}
MCChangePair == {c1, c2}

\* The ascending byte order of the change hashes.
MCHashOrder == <<c1, c2, c3>>
=============================================================================
