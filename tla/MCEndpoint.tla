----------------------------- MODULE MCEndpoint -----------------------------
(* Endpoint for TLC: the threads are model values.                           *)
EXTENDS Endpoint

CONSTANTS c1, c2, s1, s2
=============================================================================
