----------------------------- MODULE MCVkbdRing ----------------------------
(* TLC instances of VkbdRing. *)
EXTENDS VkbdRing
============================================================================
