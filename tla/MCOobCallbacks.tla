---------------------------- MODULE MCOobCallbacks ----------------------------
(* One scan, which may leave a registration behind that it has no answer for. *)
EXTENDS OobCallbacks, TLC

===============================================================================
