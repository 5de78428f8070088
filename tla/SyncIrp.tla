------------------------------ MODULE SyncIrp ------------------------------
(***************************************************************************)
(* A request that fdo.c sends to the driver below and waits for, with an   *)
(* event on its own stack: FdoForwardIrpSynchronously and the call in      *)
(* FdoQueryInterface.                                                      *)
(*                                                                         *)
(* The driver below completes the IRP inside IoCallDriver or at any time   *)
(* after it said STATUS_PENDING, also between saying so and the wait of    *)
(* the caller.  Completing writes the status where the caller reads it     *)
(* (Irp->IoStatus, or StatusBlock) and sets the event.                     *)
(***************************************************************************)

VARIABLES
    caller,         \* "none", "called" in IoCallDriver, "waiting" for Event
    irp,            \* "none", with the driver "below", or "completed"
    event,          \* Event is signalled
    result          \* the status the IRP was completed with

syncVars == <<caller, irp, event, result>>

Status == {"success", "failure"}

SyncInit == /\ caller = "none" /\ irp = "none"
            /\ event = FALSE /\ result = "failure"

\* The event is initialised and the lower driver called.
Send == /\ caller = "none"
        /\ caller' = "called" /\ irp' = "below" /\ event' = FALSE
        /\ UNCHANGED result

\* The lower driver completes the request: __FdoForwardIrpSynchronously, or
\* the I/O manager for a request made by IoBuildSynchronousFsdRequest.
LowerCompletes ==
    /\ irp = "below"
    /\ irp' = "completed" /\ event' = TRUE
    /\ result' \in Status
    /\ UNCHANGED caller

\* Mutant of CallPending: the event is initialised too late.
CallPendingClears ==
    /\ caller = "called"
    /\ caller' = "waiting"
    /\ event' = FALSE
    /\ UNCHANGED <<irp, result>>

\* IoCallDriver returns STATUS_PENDING.
CallPending ==
    /\ caller = "called"
    /\ caller' = "waiting"
    /\ UNCHANGED <<irp, event, result>>

\* Mutant of Return: STATUS_PENDING is taken for a success.
ReturnEarly(status) ==
    /\ \/ caller = "called" /\ irp = "completed" /\ status = result
       \/ caller = "waiting" /\ status = "success"
    /\ caller' = "none"
    /\ UNCHANGED <<irp, event, result>>

\* IoCallDriver returns the status the request was completed with, or the
\* wait ends and that status is read.
Return(status) ==
    /\ \/ caller = "called" /\ irp = "completed"
       \/ caller = "waiting" /\ event
    /\ status = result
    /\ caller' = "none"
    /\ UNCHANGED <<irp, event, result>>

SyncTypeOK ==
    /\ caller \in {"none", "called", "waiting"}
    /\ irp \in {"none", "below", "completed"}
    /\ event \in BOOLEAN
    /\ result \in Status

\* Once the function is left its stack is gone: the driver below no longer
\* has the request, so nobody will signal the event or write the status
\* there, and the function did not go on with a status that was not final.
NoRequestOutstanding == caller = "none" => irp # "below"
============================================================================
