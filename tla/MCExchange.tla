----------------------------- MODULE MCExchange -----------------------------
(* Exchange for TLC: buffers and streams of a few chunks. *)
EXTENDS Exchange
=============================================================================
