----------------------------- MODULE ReadQueue -----------------------------
(***************************************************************************)
(* What the IRP cache of the function driver promises to the code around   *)
(* it: a bounded first-in first-out queue of pended reads.  A taker that   *)
(* takes the oldest read holds it, alone, until it has answered it.        *)
(***************************************************************************)
EXTENDS Integers, Sequences

CONSTANTS Irp,          \* the read requests
          Taker,        \* the threads that take reads out
          Capacity,
          NoIrp

VARIABLES queue,        \* the pended reads, oldest first
          held          \* the read each taker is about to answer

vars == <<queue, held>>

Init == /\ queue = << >>
        /\ held = [t \in Taker |-> NoIrp]

Put(r) == /\ Len(queue) < Capacity
          /\ queue' = Append(queue, r)
          /\ UNCHANGED held

Take(t) == /\ held[t] = NoIrp
           /\ queue # << >>
           /\ held' = [held EXCEPT ![t] = Head(queue)]
           /\ queue' = Tail(queue)

Answer(t) == /\ held[t] # NoIrp
             /\ held' = [held EXCEPT ![t] = NoIrp]
             /\ UNCHANGED queue

Next == \/ \E r \in Irp : Put(r)
        \/ \E t \in Taker : Take(t) \/ Answer(t)

Spec == Init /\ [][Next]_vars
============================================================================
