------------------------------- MODULE MCKeys -------------------------------
(* The key space of two bytes of two bits, for TLC.                          *)
EXTENDS KeySpace
=============================================================================
