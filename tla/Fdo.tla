-------------------------------- MODULE Fdo --------------------------------
(***************************************************************************)
(* The life of the device object in fdo.c: its creation with the           *)
(* interfaces of the driver below, the PnP and power states, the path      *)
(* between D3 and D0, the callbacks and interface references taken on it,  *)
(* the suspend callback that walks the path down and up again at any time, *)
(* and the destruction.                                                    *)
(*                                                                         *)
(* One thread runs AddDevice and the PnP requests, a step at a time.  The  *)
(* suspend callback cannot come while that thread is at DISPATCH_LEVEL,    *)
(* and the thread stands still while it runs.  FrontendEnable and          *)
(* FrontendDisable (module Frontend) are the value of Connected they       *)
(* leave.  Every call that can fail may fail.  An ASSERT that fails ends   *)
(* the behaviour: the free build calls KeBugCheckEx.                       *)
(***************************************************************************)
EXTENDS Integers, SyncIrp

VARIABLES
    system,         \* what the PnP manager last completed for the device
    cancelTo,       \* where a cancelled query takes it back to
    pc,             \* where the thread is
    asked,          \* which interface FdoCreate is asking for
    removing,       \* it runs FdoRemoveDevice
    suspending,     \* FdoSuspendCallback is between its two calls
    interfaces,     \* the interface pointers that are not NULL
    frontend,       \* Frontend # NULL
    pnp, previous,  \* DevicePnpState, PreviousDevicePnpState
    power,          \* DevicePowerState
    systemPower,    \* SystemPowerState
    enabled,        \* Enabled
    connected,      \* Frontend->Connected
    debugRefs, debugCallback,
    suspendRefs, suspendCallback,
    failed          \* the ASSERT that failed: that of the resume, or another

systemVars == <<system, cancelTo>>
threadVars == <<pc, asked, removing>>
createVars == <<interfaces, frontend>>
pnpVars == <<pnp, previous>>
powerVars == <<power, systemPower>>
debugVars == <<debugRefs, debugCallback>>
suspendVars == <<suspendRefs, suspendCallback>>
linkVars == <<connected, debugVars>>
vars == <<syncVars, systemVars, threadVars, suspending, createVars, pnpVars,
          powerVars, enabled, linkVars, failed, suspendVars>>

\* In the order FdoCreate asks for them.
Interface == <<"STORE", "DEBUG", "EVTCHN", "GNTTAB", "SUSPEND">>

AllInterfaces == {Interface[i] : i \in 1 .. 5}

\* There is no device object.
Init == /\ SyncInit
        /\ system = "Absent" /\ cancelTo = "Absent"
        /\ pc = "idle" /\ asked = 1 /\ removing = FALSE
        /\ suspending = FALSE
        /\ interfaces = {} /\ frontend = FALSE
        /\ pnp = "Invalid" /\ previous = "Invalid"
        /\ power = "Unspecified" /\ systemPower = "Unspecified"
        /\ enabled = FALSE /\ connected = FALSE
        /\ debugRefs = 0 /\ debugCallback = FALSE
        /\ suspendRefs = 0 /\ suspendCallback = FALSE
        /\ failed = "none"

\* The thread may take its next step.
At(label) == pc = label /\ ~suspending /\ failed = "none"

\* A PnP request arrives that the PnP manager may send in these states.
Request(states) == At("idle") /\ system \in states

Assert(condition) == failed' = IF condition THEN failed ELSE "assert"

\* Mutant: the previous state survives a cancelled query.
SetPnpKeepsPrevious(state) ==
    /\ Assert(pnp # "Deleted" \/ state = "Deleted")
    /\ previous' = IF previous = "Invalid" THEN pnp ELSE previous
    /\ pnp' = state

\* __FdoSetDevicePnpState
SetPnp(state) ==
    /\ Assert(pnp # "Deleted" \/ state = "Deleted")
    /\ previous' = pnp /\ pnp' = state

\* __FdoRestoreDevicePnpState
RestorePnp(state) ==
    /\ pnp' = IF pnp = state THEN previous ELSE pnp
    /\ UNCHANGED previous

----------------------------------------------------------------------------
\* FdoCreate for a new device, which may come after one that is gone: the
\* zeroed structure, then the interfaces one by one.
AddDevice ==
    /\ Request({"Absent", "Gone"})
    /\ interfaces' = {} /\ frontend' = FALSE
    /\ pnp' = "Added" /\ previous' = "Invalid"
    /\ power' = "D3" /\ systemPower' = "Shutdown"
    /\ enabled' = FALSE /\ debugCallback' = FALSE
    /\ suspendCallback' = FALSE
    /\ pc' = "query" /\ asked' = 1
    /\ UNCHANGED <<syncVars, systemVars, removing, suspending, connected,
                   debugRefs, failed, suspendRefs>>

\* Mutant of CreateFails: the label a failure jumps to is one too low.
CreateFailsShort ==
    /\ interfaces' = interfaces \ {Interface[i] : i \in 1 .. asked - 2}
    /\ pc' = "idle" /\ system' = "Absent"
    /\ UNCHANGED <<asked, frontend, connected>>

\* The labels fail6 to fail1: the interfaces obtained before are forgotten.
CreateFails ==
    /\ interfaces' = interfaces \ {Interface[i] : i \in 1 .. asked - 1}
    /\ pc' = "idle" /\ system' = "Absent"
    /\ UNCHANGED <<asked, frontend, connected>>

\* FdoQueryInterface: no IRP can be built, or it is sent.
QueryInterface ==
    /\ At("query")
    /\ \/ Send /\ UNCHANGED <<system, pc, asked, createVars, connected>>
       \/ caller = "none" /\ CreateFails /\ UNCHANGED syncVars
    /\ UNCHANGED <<cancelTo, removing, suspending, pnpVars, powerVars, enabled,
                   debugVars, failed, suspendVars>>

\* The query failed, or was answered with another version, or succeeded.
InterfaceReturned ==
    /\ At("query")
    /\ \/ \E status \in Status : Return(status) /\ CreateFails
       \/ /\ Return("success")
          /\ interfaces' = interfaces \cup {Interface[asked]}
          /\ asked' = asked + 1
          /\ pc' = IF asked = 5 THEN "frontend" ELSE "query"
          /\ UNCHANGED <<system, frontend, connected>>
    /\ UNCHANGED <<cancelTo, removing, suspending, pnpVars, powerVars, enabled,
                   debugVars, failed, suspendVars>>

\* A zeroed XENHID_FRONTEND; FrontendDestroy frees whatever is there.
FrontendCreate == frontend' = TRUE /\ connected' = FALSE
FrontendDestroy == frontend' = FALSE /\ connected' = FALSE

\* FrontendCreate, which allocates, and the rest of FdoCreate.
CreateFrontend ==
    /\ At("frontend")
    /\ \/ /\ FrontendCreate
          /\ pc' = "idle" /\ system' = "Added"
          /\ UNCHANGED <<asked, interfaces>>
       \/ CreateFails
    /\ UNCHANGED <<syncVars, cancelTo, removing, suspending, pnpVars,
                   powerVars, enabled, debugVars, failed, suspendVars>>

----------------------------------------------------------------------------
\* Mutant of UpFails: the reference on DEBUG is kept.
UpFailsLeaks ==
    /\ debugRefs' = debugRefs + 1
    /\ debugCallback' = FALSE
    /\ UNCHANGED <<connected, failed>>

\* __FdoD3ToD0 when DEBUG Register or FrontendEnable fails.
UpFails ==
    /\ debugCallback' = FALSE
    /\ UNCHANGED <<debugRefs, connected, failed>>

\* __FdoD3ToD0 after what its caller asserted, with the ASSERT of
\* FrontendEnable.
Up(asserted) ==
    /\ Assert(asserted /\ ~connected)
    /\ connected' = TRUE
    /\ debugRefs' = debugRefs + 1 /\ debugCallback' = TRUE

\* __FdoD0ToD3, with the ASSERT of FrontendDisable.
Down == /\ Assert(connected)
        /\ connected' = FALSE
        /\ debugRefs' = debugRefs - 1 /\ debugCallback' = FALSE

\* FdoSuspendCallback, in two steps; its ASSERT fails with __FdoD3ToD0.
SuspendDown ==
    /\ suspendCallback /\ ~suspending /\ failed = "none"
    /\ pc \notin {"register", "unwind", "down"}      \* DISPATCH_LEVEL
    /\ Down
    /\ suspending' = TRUE
    /\ UNCHANGED <<syncVars, systemVars, threadVars, createVars, pnpVars,
                   powerVars, enabled, suspendVars>>

SuspendUp ==
    /\ suspending /\ failed = "none"
    /\ suspending' = FALSE
    /\ \/ Up(TRUE)
       \/ failed' = "resume" /\ UNCHANGED linkVars
    /\ UNCHANGED <<syncVars, systemVars, threadVars, createVars, pnpVars,
                   powerVars, enabled, suspendVars>>

----------------------------------------------------------------------------
\* FdoStartDevice: the request is forwarded and waited for, then FdoD3ToD0.
StartDevice ==
    /\ Request({"Added", "Stopped"})
    /\ Send
    /\ pc' = "forward"
    /\ UNCHANGED <<systemVars, asked, removing, suspending, createVars, pnpVars,
                   powerVars, enabled, linkVars, failed, suspendVars>>

StartForwarded ==
    /\ At("forward")
    /\ \/ Return("success") /\ systemPower' = "Working" /\ pc' = "up"
       \/ Return("failure") /\ pc' = "idle" /\ UNCHANGED systemPower
    /\ UNCHANGED <<systemVars, asked, removing, suspending, createVars, pnpVars,
                   power, enabled, linkVars, failed, suspendVars>>

D3ToD0 ==
    /\ At("up")
    /\ \/ Up(power = "D3") /\ pc' = "register"
       \/ UpFails /\ pc' = "startFails"
    /\ UNCHANGED <<syncVars, systemVars, asked, removing, suspending,
                   createVars, pnpVars, powerVars, enabled, suspendVars>>

\* SUSPEND Acquire and Register; a failure releases and goes down again.
RegisterSuspend ==
    /\ At("register")
    /\ \/ /\ suspendRefs' = suspendRefs + 1 /\ suspendCallback' = TRUE
          /\ pc' = "started"
       \/ pc' = "unwind" /\ UNCHANGED suspendVars
    /\ UNCHANGED <<syncVars, systemVars, asked, removing, suspending,
                   createVars, pnpVars, powerVars, enabled, linkVars, failed>>

\* Mutant of UnwindD3ToD0: the frontend stays connected.
UnwindKeepsLink ==
    /\ At("unwind")
    /\ pc' = "startFails"
    /\ UNCHANGED <<syncVars, systemVars, asked, removing, suspending,
                   createVars, pnpVars, powerVars, enabled, linkVars, failed,
                   suspendVars>>

\* The label fail2 of FdoD3ToD0.
UnwindD3ToD0 ==
    /\ At("unwind")
    /\ Down
    /\ pc' = "startFails"
    /\ UNCHANGED <<syncVars, systemVars, asked, removing, suspending,
                   createVars, pnpVars, powerVars, enabled, suspendVars>>

StartFails ==
    /\ At("startFails")
    /\ systemPower' = "Shutdown"
    /\ pc' = "idle"
    /\ UNCHANGED <<syncVars, systemVars, asked, removing, suspending,
                   createVars, pnpVars, power, enabled, linkVars, failed,
                   suspendVars>>

\* The IRQL is lowered, the power state set, FdoResumeData called.
Started ==
    /\ At("started")
    /\ power' = "D0"
    /\ enabled' = TRUE
    /\ SetPnp("Started")
    /\ pc' = "idle" /\ system' = "Started"
    /\ UNCHANGED <<syncVars, cancelTo, asked, removing, suspending, createVars,
                   systemPower, linkVars, suspendVars>>

----------------------------------------------------------------------------
\* Mutant of StopDevice: the suspend callback stays registered.
StopDeviceKeepsCallback ==
    /\ Request({"StopQueried"})
    /\ Assert(power = "D0")
    /\ power' = "D3"
    /\ pc' = "down" /\ removing' = FALSE
    /\ UNCHANGED <<syncVars, systemVars, asked, suspending, createVars, pnpVars,
                   systemPower, enabled, linkVars, suspendVars>>

\* Mutant of RemoveDevice: the power state is not looked at.
RemoveDeviceAnyPower ==
    /\ Request({"Added", "Stopped", "RemoveQueried", "Surprised"})
    /\ removing' = TRUE
    /\ Assert(TRUE)
    /\ enabled' = FALSE
    /\ power' = "D3"
    /\ pc' = "deregister"
    /\ UNCHANGED <<syncVars, systemVars, asked, suspending, createVars, pnpVars,
                   systemPower, linkVars, suspendVars>>

\* Mutant of RemoveDevice: FdoPauseData is not called.
RemoveDeviceUnpaused ==
    /\ Request({"Added", "Stopped", "RemoveQueried", "Surprised"})
    /\ removing' = TRUE
    /\ \/ power = "D0" /\ power' = "D3" /\ pc' = "deregister"
       \/ power # "D0" /\ pc' = "delete" /\ UNCHANGED power
    /\ UNCHANGED <<syncVars, systemVars, asked, suspending, createVars, pnpVars,
                   systemPower, enabled, linkVars, failed, suspendVars>>

\* FdoStopDevice and FdoRemoveDevice: FdoRemoveDevice pauses before
\* FdoD0ToD3, and does neither when the device is in D3; FdoStopDevice pauses
\* after it.
StopDevice ==
    /\ Request({"StopQueried"})
    /\ Assert(power = "D0")
    /\ power' = "D3"
    /\ pc' = "deregister" /\ removing' = FALSE
    /\ UNCHANGED <<syncVars, systemVars, asked, suspending, createVars, pnpVars,
                   systemPower, enabled, linkVars, suspendVars>>

RemoveDevice ==
    /\ Request({"Added", "Stopped", "RemoveQueried", "Surprised"})
    /\ removing' = TRUE
    /\ \/ /\ power = "D0"
          /\ enabled' = FALSE
          /\ power' = "D3"
          /\ pc' = "deregister"
       \/ /\ power # "D0"
          /\ pc' = "delete"
          /\ UNCHANGED <<enabled, power>>
    /\ UNCHANGED <<syncVars, systemVars, asked, suspending, createVars, pnpVars,
                   systemPower, linkVars, failed, suspendVars>>

\* Mutant of DeregisterSuspend: the reference on SUSPEND is not released.
DeregisterSuspendLeaks ==
    /\ At("deregister")
    /\ suspendCallback' = FALSE
    /\ pc' = "down"
    /\ UNCHANGED <<syncVars, systemVars, asked, removing, suspending,
                   createVars, pnpVars, powerVars, enabled, linkVars, failed,
                   suspendRefs>>

\* FdoD0ToD3 at DISPATCH_LEVEL.
DeregisterSuspend ==
    /\ At("deregister")
    /\ suspendRefs' = suspendRefs - 1 /\ suspendCallback' = FALSE
    /\ pc' = "down"
    /\ UNCHANGED <<syncVars, systemVars, asked, removing, suspending,
                   createVars, pnpVars, powerVars, enabled, linkVars, failed>>

D0ToD3 ==
    /\ At("down")
    /\ Down
    /\ systemPower' = "Shutdown"
    /\ pc' = IF removing THEN "delete" ELSE "stop"
    /\ UNCHANGED <<syncVars, systemVars, asked, removing, suspending,
                   createVars, pnpVars, power, enabled, suspendVars>>

\* Mutant of StopFinish: FdoPauseData is not called.
StopFinishUnpaused ==
    /\ At("stop")
    /\ SetPnp("Stopped")
    /\ pc' = "idle" /\ system' = "Stopped"
    /\ UNCHANGED <<syncVars, cancelTo, asked, removing, suspending, createVars,
                   powerVars, enabled, linkVars, suspendVars>>

StopFinish ==
    /\ At("stop")
    /\ enabled' = FALSE
    /\ SetPnp("Stopped")
    /\ pc' = "idle" /\ system' = "Stopped"
    /\ UNCHANGED <<syncVars, cancelTo, asked, removing, suspending, createVars,
                   powerVars, linkVars, suspendVars>>

\* The request goes on to the driver below.
RemoveFinish ==
    /\ At("delete")
    /\ SetPnp("Deleted")
    /\ pc' = "destroy"
    /\ UNCHANGED <<syncVars, systemVars, asked, removing, suspending,
                   createVars, powerVars, enabled, linkVars, suspendVars>>

\* FdoDestroy.
Destroy ==
    /\ At("destroy")
    /\ Assert(pnp = "Deleted")
    /\ FrontendDestroy
    /\ interfaces' = {}
    /\ pc' = "idle" /\ system' = "Gone"
    /\ UNCHANGED <<syncVars, cancelTo, asked, removing, suspending, pnpVars,
                   powerVars, enabled, debugVars, suspendVars>>

----------------------------------------------------------------------------
\* The queries succeed here; when the driver below or above fails one, the
\* PnP manager cancels it.  A cancellation may also come without its query.
\* These requests, and those not named here, are passed on and not waited for.
QueryStop ==
    /\ Request({"Started"})
    /\ SetPnp("StopPending")
    /\ cancelTo' = system /\ system' = "StopQueried"
    /\ UNCHANGED <<syncVars, threadVars, suspending, createVars, powerVars,
                   enabled, linkVars, suspendVars>>

CancelStop ==
    /\ Request({"StopQueried", "Started"})
    /\ RestorePnp("StopPending")
    /\ system' = IF system = "StopQueried" THEN cancelTo ELSE system
    /\ UNCHANGED <<syncVars, cancelTo, threadVars, suspending, createVars,
                   powerVars, enabled, linkVars, failed, suspendVars>>

QueryRemove ==
    /\ Request({"Added", "Started"})
    /\ SetPnp("RemovePending")
    /\ cancelTo' = system /\ system' = "RemoveQueried"
    /\ UNCHANGED <<syncVars, threadVars, suspending, createVars, powerVars,
                   enabled, linkVars, suspendVars>>

CancelRemove ==
    /\ Request({"RemoveQueried", "Added", "Started"})
    /\ RestorePnp("RemovePending")
    /\ system' = IF system = "RemoveQueried" THEN cancelTo ELSE system
    /\ UNCHANGED <<syncVars, cancelTo, threadVars, suspending, createVars,
                   powerVars, enabled, linkVars, failed, suspendVars>>

SurpriseRemoval ==
    /\ Request({"Started", "StopQueried", "Stopped", "RemoveQueried"})
    /\ SetPnp("SurpriseRemovePending")
    /\ system' = "Surprised"
    /\ UNCHANGED <<syncVars, cancelTo, threadVars, suspending, createVars,
                   powerVars, enabled, linkVars, suspendVars>>

\* FdoDispatchPower, IRP_MN_SET_POWER: a device state resumes or pauses the
\* reads, of the system states only the shutdown pauses them, and nothing is
\* done when the request comes from a shutdown.  Power requests reach devices
\* that were started.
DeviceState == {"D0", "D1", "D2", "D3"}
SystemPowerState == {"Working", "Sleeping", "Shutdown"}
PowerAction == {"None", "Sleep", "Shutdown"}

SetPower(type, state, action) ==
    /\ Request({"Started", "StopQueried"})
    /\ action # "Shutdown"
    /\ enabled' = CASE type = "device"                       -> state = "D0"
                    [] type = "system" /\ state = "Shutdown" -> FALSE
                    [] OTHER                                 -> enabled
    /\ UNCHANGED <<syncVars, systemVars, threadVars, suspending, createVars,
                   pnpVars, powerVars, linkVars, failed, suspendVars>>

\* What the thread does once it has a request.
Thread == \/ QueryInterface \/ InterfaceReturned \/ CreateFrontend
          \/ StartForwarded \/ D3ToD0 \/ RegisterSuspend \/ UnwindD3ToD0
          \/ StartFails \/ Started
          \/ DeregisterSuspend \/ D0ToD3 \/ StopFinish \/ RemoveFinish
          \/ Destroy

\* The driver below, while there is one.
Lower == /\ failed = "none"
         /\ \/ LowerCompletes
            \/ CallPending
         /\ UNCHANGED <<systemVars, threadVars, suspending, createVars, pnpVars,
                        powerVars, enabled, linkVars, failed, suspendVars>>

\* FdoDispatchPnp and FdoDispatchPower; requests of another kind that change
\* nothing here are passed on.
DispatchPnp == \/ StartDevice \/ StopDevice \/ RemoveDevice
               \/ QueryStop \/ CancelStop \/ QueryRemove \/ CancelRemove
               \/ SurpriseRemoval

DispatchPower ==
    \E action \in PowerAction :
        \/ \E s \in DeviceState : SetPower("device", s, action)
        \/ \E s \in SystemPowerState : SetPower("system", s, action)

Next == \/ AddDevice \/ DispatchPnp \/ DispatchPower
        \/ Thread \/ Lower \/ SuspendDown \/ SuspendUp

Spec == Init /\ [][Next]_vars

----------------------------------------------------------------------------
PnpState == {"Invalid", "Added", "Started", "StopPending", "Stopped",
             "RemovePending", "SurpriseRemovePending", "Deleted"}

SystemState == {"Absent", "Added", "Started", "StopQueried", "Stopped",
                "RemoveQueried", "Surprised", "Gone"}

Label == {"idle", "query", "frontend", "forward", "up", "register", "unwind",
          "startFails", "started", "deregister", "down", "stop", "delete",
          "destroy"}

\* The types of the variables: no reference is taken twice or given back
\* without having been taken.
TypeOK ==
    /\ SyncTypeOK
    /\ system \in SystemState /\ cancelTo \in SystemState
    /\ pc \in Label
    /\ asked \in 1 .. 6
    /\ removing \in BOOLEAN /\ suspending \in BOOLEAN
    /\ interfaces \subseteq AllInterfaces /\ frontend \in BOOLEAN
    /\ pnp \in PnpState /\ previous \in PnpState
    /\ power \in {"Unspecified", "D0", "D3"}
    /\ systemPower \in {"Unspecified", "Working", "Shutdown"}
    /\ enabled \in BOOLEAN /\ connected \in BOOLEAN
    /\ debugRefs \in {0, 1} /\ debugCallback \in BOOLEAN
    /\ suspendRefs \in {0, 1} /\ suspendCallback \in BOOLEAN
    /\ failed \in {"none", "assert", "resume"}

\* The device exists for the PnP manager.
Exists == system \notin {"Absent", "Gone"}

\* Whichever interface could not be had, FdoCreate leaves all of them and a
\* frontend or none, and FdoDestroy leaves none.
CreatedWhole ==
    At("idle") => /\ interfaces = IF Exists THEN AllInterfaces ELSE {}
                  /\ frontend <=> Exists

\* Between requests the device holds, in D0, one reference and one callback
\* of each of the two interfaces and a connected frontend, and in D3 nothing
\* of these, whichever call failed and wherever a suspend came in.
HeldWhilePowered ==
    At("idle") =>
        /\ connected <=> power = "D0"
        /\ debugCallback <=> power = "D0"
        /\ suspendCallback <=> power = "D0"
        /\ systemPower = "Working" <=> power = "D0"
        /\ debugRefs = IF power = "D0" THEN 1 ELSE 0
        /\ suspendRefs = debugRefs

\* One level of PreviousDevicePnpState is enough: between requests the
\* device's state is the one the PnP manager has for it, after cancelled
\* queries and cancellations without a query too.
PnpFollowsSystem ==
    At("idle") /\ system # "Absent" =>
        pnp = CASE system = "StopQueried"   -> "StopPending"
                [] system = "RemoveQueried" -> "RemovePending"
                [] system = "Surprised"     -> "SurpriseRemovePending"
                [] system = "Gone"          -> "Deleted"
                [] OTHER                    -> system

\* A device that is not started, stopped, gone or about to be destroyed takes
\* no reads and can be called back by nobody, although FdoRemoveDevice does
\* not pause a device in D3 and FrontendDestroy disconnects nothing.
QuietWhenStopped ==
    (\/ At("idle") /\ system \in {"Absent", "Added", "Stopped", "Gone"}
     \/ At("destroy"))
    => ~enabled /\ ~suspendCallback /\ ~debugCallback /\ ~connected

\* Reads are taken only while the frontend can complete them: every path that
\* disconnects it has paused the reads before and every path that resumes them
\* has connected it, except a suspend, which connects it again, and
\* FdoStopDevice, whose pause comes last.
ReadsAreServed ==
    enabled /\ failed = "none" => connected \/ suspending \/ pc = "stop"

\* The ASSERTs on Connected (FrontendEnable, FrontendDisable), on the power
\* state (FdoD3ToD0, FdoD0ToD3), on leaving Deleted (__FdoSetDevicePnpState)
\* and on being in it (FdoDestroy) hold: no request walks the path twice, and
\* neither registering the suspend callback before the power state is set nor
\* removing it after leaves a gap for a suspend.
AssertionsHold == failed # "assert"
============================================================================
