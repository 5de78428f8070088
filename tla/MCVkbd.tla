------------------------------- MODULE MCVkbd ------------------------------
(* TLC instances of Vkbd. *)
EXTENDS Vkbd, TLC

KeySymmetry == Permutations(Key)

NoMotion == {}
\* Positions outside, on and inside each bound.
BoundaryMotion == {<<-1, 0, -2>>, <<1, 2, 1>>, <<0, 1, 0>>, <<2, -1, 2>>}
============================================================================
