----------------------------- MODULE MCRleRange -----------------------------
(* Model-checking instance of RleRange: two values and Null, columns of up *)
(* to three rows, up to two replacement rows.                              *)
EXTENDS RleRange, TLC

CONSTANTS v1, v2

MCValue == {v1, v2}
=============================================================================
