----------------------------- MODULE MCFrontend ----------------------------
(* TLC instances of Frontend. *)
EXTENDS Frontend
============================================================================
