------------------------------ MODULE MCLookup ------------------------------
(* Instances of Lookup for TLC: three nodes, as near to one target as far    *)
(* from the other.                                                           *)
EXTENDS Lookup

Opposite == [t \in Target |-> [n \in Node |-> IF t = 1 THEN n ELSE 4 - n]]
=============================================================================
