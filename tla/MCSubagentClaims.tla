------------------------- MODULE MCSubagentClaims -------------------------
(* SubagentClaims for TLC: which members delegate to which, and which      *)
(* mishaps there are.                                                      *)
EXTENDS SubagentClaims

CONSTANTS m1, m2       \* members

OneEdge == {<<m1, m2>>}

EachOnce   == [k \in Mishaps |-> 1]
OneTimeout == [k \in Mishaps |-> IF k = "timeout" THEN 1 ELSE 0]
=============================================================================
