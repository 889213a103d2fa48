------------------------------ MODULE MCChurn ------------------------------
(* Instances of Churn for TLC: node zero between two nodes that come and go.  *)
EXTENDS Churn

Three == {1, 2, 3}
ZeroBetween == [i \in {0, 1, 2} |-> IF i = 0 THEN 2 ELSE 2 * i - 1]
=============================================================================
