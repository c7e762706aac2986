--------------------------- MODULE MCOpTreeQuery ----------------------------
(* Model-checking instance of OpTreeQuery: two actors numbered 1 and 2,  *)
(* and two map keys k1 < k2 (model values).                              *)
EXTENDS OpTreeQuery, TLC

CONSTANTS k1, k2

MCActor == {1, 2}

MCProps == <<k1, k2>>
=============================================================================
