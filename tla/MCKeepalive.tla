----------------------------- MODULE MCKeepalive -----------------------------
(* A small instance of Keepalive for TLC: the interval is three units of time. *)
EXTENDS Keepalive

MCTimeout == 2 * Period
==============================================================================
