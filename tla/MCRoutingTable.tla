--------------------------- MODULE MCRoutingTable ---------------------------
(* Instances of RoutingTable for TLC: keys are numbers, of which 0 is the    *)
(* node's own, the even others fall into bucket 0 and the odd into bucket 1. *)
EXTENDS RoutingTable

P(key, address) == [key |-> key, address |-> address]

\* Nodes 2, 4 and 6 compete for bucket 0; 6 lives at the address node 2 left,
\* and at the one of node 4 there is later node 1, or the node itself.
Reused == {P(0, 12), P(2, 11), P(4, 12), P(6, 11), P(1, 12)}

\* Every node has an address of its own, and there are two newcomers.
Distinct == {P(2, 11), P(4, 12), P(6, 13), P(8, 14)}

ByParity == [key \in Key |-> IF key = 0 THEN 2 ELSE key % 2]

ZeroAddress == {12}
=============================================================================
