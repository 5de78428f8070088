---------------------------- MODULE MCIrpCache -----------------------------
(* TLC instances of IrpCache. *)
EXTENDS IrpCache
============================================================================
