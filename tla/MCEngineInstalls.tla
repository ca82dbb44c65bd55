--------------------------- MODULE MCEngineInstalls ---------------------------
(* EngineInstalls with one session, which gives any commands one after the other.      *)
EXTENDS EngineInstalls

CONSTANT s1
===============================================================================
