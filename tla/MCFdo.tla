------------------------------- MODULE MCFdo -------------------------------
(* TLC instances of HidControl, and of Driver and Fdo in it. *)
EXTENDS HidControl
============================================================================
