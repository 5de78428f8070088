---------------------------- MODULE MCHidReport ----------------------------
(* TLC instances of HidReport. *)
EXTENDS HidReport

\* One key, one modifier of each hand, two buttons.
SomeCodes == {30, 224, 228, 272, 274}
SomeKeys == {29, 30, 31, 59}
NoMotion == {}
\* Positions outside, on and inside each bound, on both sides of a byte.
BoundaryMotion == {<<-1, 255, -128>>, <<256, 40000, 127>>, <<32767, 0, -1>>}
============================================================================
