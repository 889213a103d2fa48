----------------------------- MODULE MCRefresh -----------------------------
(* Instances of Refresh for TLC. *)
EXTENDS Refresh
=============================================================================
