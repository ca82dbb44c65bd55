----------------------------- MODULE MCLocalGate -----------------------------
(* LocalGate with two requests, two threads of the host and a watcher.         *)
EXTENDS LocalGate, TLC

CONSTANTS r1, r2, o1, o2, w1
=============================================================================
