----------------------------- MODULE MCListener -----------------------------
(* Listener for TLC: connections are model values.                         *)
EXTENDS Listener
=============================================================================
