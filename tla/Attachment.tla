----------------------------- MODULE Attachment ----------------------------
(***************************************************************************)
(* What frontend.c promises to fdo.c: an enable, called while detached,    *)
(* ends attached or leaves nothing; a disable, called while attached,      *)
(* always ends detached.  A link that can be used is made in an enable     *)
(* only, never breaks at rest, and Connected says in the last step of      *)
(* either what became of it.  A resume is a disable and an enable in one.  *)
(* An ASSERT fails only while there is no usable link.                     *)
(***************************************************************************)

VARIABLES connected,    \* what the caller may rely on
          usable,       \* the link can be used, by the backend too
          operation     \* "none", "enable", "disable", or "dead"

vars == <<connected, usable, operation>>

Init == ~connected /\ ~usable /\ operation = "none"

EnableBegins == /\ operation = "none" /\ ~connected
                /\ operation' = "enable"
                /\ UNCHANGED <<connected, usable>>

DisableBegins == /\ operation = "none" /\ connected /\ usable
                 /\ operation' = "disable"
                 /\ UNCHANGED <<connected, usable>>

Made == /\ operation = "enable" /\ ~connected /\ ~usable
        /\ usable' = TRUE
        /\ UNCHANGED <<connected, operation>>

\* In an enable too: the backend may not follow.
Broken == /\ operation \in {"enable", "disable"} /\ usable
          /\ usable' = FALSE
          /\ UNCHANGED <<connected, operation>>

EnableEnds == /\ operation = "enable"
              /\ connected' = usable
              /\ operation' = "none"
              /\ UNCHANGED usable

DisableEnds == /\ operation = "disable" /\ ~usable
               /\ connected' = FALSE
               /\ operation' \in {"none", "enable"}
               /\ UNCHANGED usable

AssertFails == /\ operation # "dead" /\ ~usable
               /\ operation' = "dead"
               /\ UNCHANGED <<connected, usable>>

Next == \/ EnableBegins \/ DisableBegins \/ Made \/ Broken
        \/ EnableEnds \/ DisableEnds \/ AssertFails

Spec == Init /\ [][Next]_vars
============================================================================
