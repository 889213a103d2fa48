---------------------------- MODULE MCTransport ----------------------------
(* Instances of Transport for TLC: three addresses, small queues. *)
EXTENDS Transport

CONSTANTS t1, t2

Two == {1, 2}
Three == {1, 2, 3}
=============================================================================
