------------------------------- MODULE Driver -------------------------------
(***************************************************************************)
(* driver.c around fdo.c: the driver is entered, registers with HIDCLASS,  *)
(* gets a device and is unloaded when it has none.                         *)
(*                                                                         *)
(* A driver whose DriverEntry fails is taken out of memory without         *)
(* DriverUnload; one entered in safe mode registers nothing, is given no   *)
(* device and has no DriverUnload.  A new load starts with fresh data.     *)
(***************************************************************************)
EXTENDS Fdo

VARIABLES
    driver,         \* "absent", "entered", "registered", "safe"
    driverObject    \* Driver.DriverObject # NULL

driverVars == <<driver, driverObject>>
allVars == <<vars, driverVars>>

DriverInit == Init /\ driver = "absent" /\ driverObject = FALSE

\* The image is loaded and DriverEntry called.
DriverEntry(safeBoot) ==
    /\ driver = "absent" /\ failed = "none"
    /\ Assert(~driverObject)
    /\ driverObject' = TRUE
    /\ driver' = IF safeBoot THEN "safe" ELSE "entered"
    /\ UNCHANGED <<syncVars, systemVars, threadVars, suspending, createVars,
                   pnpVars, powerVars, enabled, linkVars, suspendVars>>

\* The last step of DriverEntry.
HidRegisterMinidriver ==
    /\ driver = "entered" /\ failed = "none"
    /\ \/ driver' = "registered" /\ UNCHANGED driverObject
       \/ driver' = "absent" /\ driverObject' = FALSE
    /\ UNCHANGED vars

DriverUnload ==
    /\ driver = "registered" /\ failed = "none"
    /\ Request({"Absent", "Gone"})
    /\ Assert(driverObject)
    /\ driverObject' = FALSE
    /\ driver' = "absent"
    /\ UNCHANGED <<syncVars, systemVars, threadVars, suspending, createVars,
                   pnpVars, powerVars, enabled, linkVars, suspendVars>>

\* AddDevice and Dispatch: FdoCreate and FdoDispatch once HIDCLASS knows the
\* driver.
Dispatch == driver = "registered" /\ Next /\ UNCHANGED driverVars

DriverNext == \/ \E safeBoot \in BOOLEAN : DriverEntry(safeBoot)
              \/ HidRegisterMinidriver \/ DriverUnload
              \/ Dispatch

DriverSpec == DriverInit /\ [][DriverNext]_allVars

\* The lower driver answers, a suspend is followed by its resume, and the
\* thread goes on, however often suspends come in between.
DriverFairness ==
    /\ WF_allVars(Dispatch /\ LowerCompletes)
    /\ WF_allVars(Dispatch /\ SuspendUp)
    /\ SF_allVars(Dispatch /\ Thread)

----------------------------------------------------------------------------
\* The types of the variables.
DriverTypeOK ==
    /\ TypeOK
    /\ driver \in {"absent", "entered", "registered", "safe"}
    /\ driverObject \in BOOLEAN

\* Code that is not in memory is called by nobody: without a registered
\* driver no callback is registered, no request is with the driver below and
\* no interface is referenced, whatever failed while there was a device.
UnloadedIsUnreferenced ==
    driver # "registered" /\ failed = "none" =>
        /\ ~suspendCallback /\ ~debugCallback
        /\ suspendRefs = 0 /\ debugRefs = 0
        /\ irp # "below" /\ ~frontend /\ interfaces = {}

\* AddDevice and every PnP request come to an end, unless an ASSERT fails:
\* the wake-up of a synchronous request is not lost.
RequestReturns == pc # "idle" ~> pc = "idle" \/ failed # "none"
============================================================================
