---------------------------- MODULE MCBatchClaims ----------------------------
(* BatchClaims for TLC: sessions 1, 2, 3 in ready order.                   *)
EXTENDS BatchClaims

Independent == [s \in Sessions |-> {}]
SecondNeedsFirst == [s \in Sessions |-> IF s = 2 THEN {1} ELSE {}]

Once == [s \in Sessions |-> 1]
SecondTwice == [s \in Sessions |-> IF s = 2 THEN 2 ELSE 1]
==============================================================================
