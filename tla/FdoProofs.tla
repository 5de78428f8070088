----------------------------- MODULE FdoProofs -----------------------------
(***************************************************************************)
(* Proofs about Fdo: what the device object holds and which state it is in *)
(* follow from where the thread is, from the power state and from what the *)
(* PnP manager last completed.                                             *)
(***************************************************************************)
EXTENDS Fdo, TLAPS

Creating == pc \in {"query", "frontend"}

Starting == pc \in {"forward", "up", "register", "unwind", "startFails",
                    "started"}

Stopping == pc \in {"deregister", "down", "stop"}

\* Where the path to D0 has been walked, unless a suspend walked it back.
Linked == \/ pc \in {"register", "unwind", "started", "deregister", "down"}
          \/ pc = "idle" /\ power = "D0"

\* Where the suspend callback is registered.
Callable == \/ pc \in {"started", "deregister"}
            \/ pc = "idle" /\ power = "D0"

\* TypeOK, in four parts.
PlacesOK ==
    /\ system \in SystemState /\ cancelTo \in SystemState
    /\ pc \in Label
    /\ asked \in 1 .. 6
    /\ interfaces \subseteq AllInterfaces

StatesOK ==
    /\ pnp \in PnpState /\ previous \in PnpState
    /\ power \in {"Unspecified", "D0", "D3"}
    /\ systemPower \in {"Unspecified", "Working", "Shutdown"}
    /\ failed \in {"none", "assert", "resume"}

FlagsOK ==
    /\ removing \in BOOLEAN /\ suspending \in BOOLEAN
    /\ frontend \in BOOLEAN /\ enabled \in BOOLEAN /\ connected \in BOOLEAN
    /\ debugCallback \in BOOLEAN /\ suspendCallback \in BOOLEAN

CountsOK == debugRefs \in {0, 1} /\ suspendRefs \in {0, 1}

\* A request is out only where the thread waits for one, and the event tells
\* whether it came back.
RequestByPlace ==
    /\ NoRequestOutstanding
    /\ caller # "none" => /\ pc \in {"query", "forward"}
                          /\ irp # "none"
                          /\ event <=> irp = "completed"

\* What is held, where the thread is and whether a suspend is under way.
HeldByPlace ==
    failed = "none" =>
        /\ connected <=> Linked /\ ~suspending
        /\ debugCallback <=> connected
        /\ debugRefs = IF connected THEN 1 ELSE 0
        /\ suspendCallback <=> Callable
        /\ suspendRefs = IF suspendCallback THEN 1 ELSE 0
        /\ suspending => suspendCallback
        /\ systemPower = "Working" <=> Linked \/ pc \in {"up", "startFails"}

\* The power state, from what the PnP manager completed.
PowerByPlace ==
    /\ power = "D0" => pc = "idle"
    /\ Creating \/ Starting \/ Stopping => power = "D3"
    /\ pc = "idle" =>
           /\ system \in {"Added", "Stopped"} => power = "D3"
           /\ system \in {"Absent", "Gone"} => power # "D0"
           /\ system \in {"Started", "StopQueried"} => power = "D0"
           /\ Exists => power \in {"D0", "D3"}
           /\ system = "RemoveQueried" =>
                  (power = "D0" <=> cancelTo = "Started")

\* Reads are taken in D0, and while a device is stopped until it is paused.
EnabledByPlace ==
    enabled => \/ pc = "idle" /\ power = "D0"
               \/ Stopping /\ ~removing

\* FdoCreate has the interfaces it asked for so far.
CreatedByPlace ==
    /\ pc = "query" =>
           /\ asked \in 1 .. 5
           /\ interfaces = {Interface[i] : i \in 1 .. asked - 1}
    /\ pc = "frontend" => asked = 6
    /\ pc = "idle" /\ ~Exists => interfaces = {}
    /\ pc # "query" /\ (pc = "idle" => Exists) => interfaces = AllInterfaces
    /\ frontend <=> Exists /\ ~Creating

\* Which request the thread is in, from what came before it.
SystemByPlace ==
    /\ Creating => ~Exists
    /\ Starting => system \in {"Added", "Stopped"}
    /\ Stopping /\ removing => system \in {"RemoveQueried", "Surprised"}
    /\ Stopping /\ ~removing => system = "StopQueried"
    /\ pc = "stop" => ~removing
    /\ pc \in {"delete", "destroy"} => Exists

\* The device's PnP state for each state the PnP manager knows.
Named(state) ==
    IF state = "StopQueried" THEN "StopPending"
    ELSE IF state = "RemoveQueried" THEN "RemovePending"
    ELSE IF state = "Surprised" THEN "SurpriseRemovePending"
    ELSE IF state = "Gone" THEN "Deleted"
    ELSE state

\* The device's PnP state follows until the request that ends it; what a
\* cancelled query returns to is the previous state.
PnpByPlace ==
    /\ Creating => pnp = "Added"
    /\ pc = "destroy" => pnp = "Deleted"
    /\ system # "Absent" /\ ~Creating /\ pc # "destroy" => pnp = Named(system)
    /\ system \in {"StopQueried", "RemoveQueried"} /\ pc # "destroy" =>
           previous = cancelTo

CancelledTo ==
    /\ system = "StopQueried" => cancelTo = "Started"
    /\ system = "RemoveQueried" => cancelTo \in {"Added", "Started"}

IInv == /\ SyncTypeOK /\ PlacesOK /\ StatesOK /\ FlagsOK /\ CountsOK
        /\ AssertionsHold
        /\ RequestByPlace
        /\ HeldByPlace
        /\ PowerByPlace
        /\ EnabledByPlace
        /\ CreatedByPlace
        /\ SystemByPlace
        /\ PnpByPlace
        /\ CancelledTo

----------------------------------------------------------------------------
\* Up to NextInvariant every leaf needs the invariant and the groups of
\* variables; it names the action and what the action calls.
USE DEF IInv, SyncTypeOK, Status, PlacesOK, StatesOK, FlagsOK, CountsOK,
        AssertionsHold, RequestByPlace, NoRequestOutstanding, HeldByPlace,
        PowerByPlace, EnabledByPlace, SystemByPlace,
        PnpByPlace, CancelledTo, Creating, Starting, Stopping, Linked,
        Callable, Named, Exists, PnpState, SystemState, Label,
        syncVars, systemVars, threadVars, createVars, pnpVars, powerVars,
        debugVars, suspendVars, linkVars

LEMMA InitInvariant ==
    ASSUME Init
    PROVE  IInv
  <1>1. SyncTypeOK /\ StatesOK /\ FlagsOK /\ CountsOK
    BY DEF Init, SyncInit
  <1>2. PlacesOK
    <2>1. interfaces \subseteq AllInterfaces
      BY DEF Init
    <2> QED
      BY <2>1 DEF Init
  <1>3. AssertionsHold /\ RequestByPlace /\ HeldByPlace
    BY DEF Init, SyncInit
  <1>4. PowerByPlace /\ EnabledByPlace
    BY DEF Init, SyncInit
  <1>5. CreatedByPlace
    BY DEF Init, SyncInit, CreatedByPlace
  <1>6. SystemByPlace /\ PnpByPlace /\ CancelledTo
    BY DEF Init, SyncInit
  <1> QED
    BY <1>1, <1>2, <1>3, <1>4, <1>5, <1>6

LEMMA StutterInvariant == IInv /\ UNCHANGED vars => IInv'
  BY DEF vars, CreatedByPlace

LEMMA AddDeviceInvariant ==
    ASSUME IInv, AddDevice
    PROVE  IInv'
  <1>1. (SyncTypeOK /\ StatesOK /\ AssertionsHold)'
    BY DEF AddDevice, Request, At
  <1>2. PlacesOK'
    BY DEF AddDevice, Request, At
  <1>3. FlagsOK'
    BY DEF AddDevice, Request, At
  <1>4. CountsOK'
    BY DEF AddDevice, Request, At
  <1>5. (RequestByPlace /\ HeldByPlace)'
    BY DEF AddDevice, Request, At
  <1>6. (PowerByPlace /\ EnabledByPlace)'
    BY DEF AddDevice, Request, At
  <1>7. CreatedByPlace'
    BY DEF AddDevice, Request, At, CreatedByPlace
  <1>8. (SystemByPlace /\ CancelledTo /\ PnpByPlace)'
    BY DEF AddDevice, Request, At
  <1> QED
    BY <1>1, <1>2, <1>3, <1>4, <1>5, <1>6, <1>7, <1>8

LEMMA QueryInterfaceInvariant ==
    ASSUME IInv, QueryInterface
    PROVE  IInv'
  <1>1. (SyncTypeOK /\ StatesOK /\ AssertionsHold)'
    BY DEF QueryInterface, CreateFails, Send, At
  <1>2. PlacesOK'
    BY DEF QueryInterface, CreateFails, Send, At
  <1>3. FlagsOK'
    BY DEF QueryInterface, CreateFails, Send, At
  <1>4. CountsOK'
    BY DEF QueryInterface, CreateFails, Send, At
  <1>5. (RequestByPlace /\ HeldByPlace)'
    BY DEF QueryInterface, CreateFails, Send, At
  <1>6. (PowerByPlace /\ EnabledByPlace)'
    BY DEF QueryInterface, CreateFails, Send, At
  <1>7. CreatedByPlace'
    BY DEF QueryInterface, CreateFails, Send, At, CreatedByPlace
  <1>8. (SystemByPlace /\ CancelledTo /\ PnpByPlace)'
    BY DEF QueryInterface, CreateFails, Send, At
  <1> QED
    BY <1>1, <1>2, <1>3, <1>4, <1>5, <1>6, <1>7, <1>8

LEMMA InterfaceReturnedInvariant ==
    ASSUME IInv, InterfaceReturned
    PROVE  IInv'
  <1>1. (SyncTypeOK /\ StatesOK /\ AssertionsHold)'
    BY DEF InterfaceReturned, CreateFails, Return, At
  <1>2. PlacesOK'
    <2>1. asked \in 1 .. 5 /\ asked' \in {asked, asked + 1}
      BY DEF InterfaceReturned, CreateFails, At, CreatedByPlace
    <2>2. interfaces' \subseteq interfaces \cup {Interface[asked]}
      BY DEF InterfaceReturned, CreateFails
    <2>3. Interface[asked] \in AllInterfaces
      BY <2>1 DEF AllInterfaces
    <2>4. interfaces' \subseteq AllInterfaces
      BY <2>2, <2>3
    <2> QED
      BY <2>1, <2>4 DEF InterfaceReturned, CreateFails
  <1>3. FlagsOK'
    BY DEF InterfaceReturned, CreateFails, Return, At
  <1>4. CountsOK'
    BY DEF InterfaceReturned, CreateFails, Return, At
  <1>5. (RequestByPlace /\ HeldByPlace)'
    BY DEF InterfaceReturned, CreateFails, Return, At
  <1>6. (PowerByPlace /\ EnabledByPlace)'
    BY DEF InterfaceReturned, CreateFails, Return, At
  <1>7. CreatedByPlace'
    <2>1. /\ asked \in 1 .. 5
          /\ interfaces = {Interface[i] : i \in 1 .. asked - 1}
          /\ ~Exists /\ ~frontend /\ frontend' = frontend
      BY DEF InterfaceReturned, CreateFails, At, CreatedByPlace
    <2>2. CASE CreateFails
      <3>1. interfaces' = {}
        BY <2>1, <2>2 DEF CreateFails
      <3> QED
        BY <2>1, <2>2, <3>1 DEF CreateFails, CreatedByPlace
    <2>3. CASE /\ interfaces' = interfaces \cup {Interface[asked]}
               /\ asked' = asked + 1
               /\ pc' = IF asked = 5 THEN "frontend" ELSE "query"
               /\ UNCHANGED system
      <3>1. interfaces' = {Interface[i] : i \in 1 .. asked' - 1}
        BY <2>1, <2>3
      <3>2. asked = 5 => interfaces' = AllInterfaces
        BY <2>3, <3>1 DEF AllInterfaces
      <3> QED
        BY <2>1, <2>3, <3>1, <3>2 DEF CreatedByPlace
    <2> QED
      BY <2>2, <2>3 DEF InterfaceReturned
  <1>8. (SystemByPlace /\ CancelledTo /\ PnpByPlace)'
    BY DEF InterfaceReturned, CreateFails, Return, At
  <1> QED
    BY <1>1, <1>2, <1>3, <1>4, <1>5, <1>6, <1>7, <1>8

LEMMA CreateFrontendInvariant ==
    ASSUME IInv, CreateFrontend
    PROVE  IInv'
  <1>1. (SyncTypeOK /\ StatesOK /\ AssertionsHold)'
    BY DEF CreateFrontend, FrontendCreate, CreateFails, At
  <1>2. PlacesOK'
    BY DEF CreateFrontend, FrontendCreate, CreateFails, At
  <1>3. FlagsOK'
    BY DEF CreateFrontend, FrontendCreate, CreateFails, At
  <1>4. CountsOK'
    BY DEF CreateFrontend, FrontendCreate, CreateFails, At
  <1>5. (RequestByPlace /\ HeldByPlace)'
    BY DEF CreateFrontend, FrontendCreate, CreateFails, At
  <1>6. (PowerByPlace /\ EnabledByPlace)'
    BY DEF CreateFrontend, FrontendCreate, CreateFails, At
  <1>7. CreatedByPlace'
    <2>1. asked = 6 /\ interfaces = AllInterfaces /\ ~Exists /\ ~frontend
      BY DEF CreateFrontend, At, CreatedByPlace
    <2>2. CASE CreateFails
      <3>1. interfaces' = {}
        BY <2>1, <2>2 DEF CreateFails, AllInterfaces
      <3> QED
        BY <2>1, <2>2, <3>1 DEF CreateFails, CreatedByPlace
    <2>3. CASE FrontendCreate
      BY <2>1, <2>3 DEF CreateFrontend, FrontendCreate, CreateFails,
                        CreatedByPlace
    <2> QED
      BY <2>2, <2>3 DEF CreateFrontend
  <1>8. (SystemByPlace /\ CancelledTo /\ PnpByPlace)'
    BY DEF CreateFrontend, FrontendCreate, CreateFails, At
  <1> QED
    BY <1>1, <1>2, <1>3, <1>4, <1>5, <1>6, <1>7, <1>8

LEMMA SuspendDownInvariant ==
    ASSUME IInv, SuspendDown
    PROVE  IInv'
  <1>1. (SyncTypeOK /\ StatesOK /\ AssertionsHold)'
    BY DEF SuspendDown, Down, Assert
  <1>2. PlacesOK'
    BY DEF SuspendDown, Down, Assert
  <1>3. FlagsOK'
    BY DEF SuspendDown, Down, Assert
  <1>4. CountsOK'
    BY DEF SuspendDown, Down, Assert
  <1>5. (RequestByPlace /\ HeldByPlace)'
    BY DEF SuspendDown, Down, Assert
  <1>6. (PowerByPlace /\ EnabledByPlace)'
    BY DEF SuspendDown, Down, Assert
  <1>7. CreatedByPlace'
    BY DEF SuspendDown, Down, Assert, CreatedByPlace
  <1>8. (SystemByPlace /\ CancelledTo /\ PnpByPlace)'
    BY DEF SuspendDown, Down, Assert
  <1> QED
    BY <1>1, <1>2, <1>3, <1>4, <1>5, <1>6, <1>7, <1>8

LEMMA SuspendUpInvariant ==
    ASSUME IInv, SuspendUp
    PROVE  IInv'
  <1>1. (SyncTypeOK /\ StatesOK /\ AssertionsHold)'
    BY DEF SuspendUp, Up, Assert
  <1>2. PlacesOK'
    BY DEF SuspendUp, Up, Assert
  <1>3. FlagsOK'
    BY DEF SuspendUp, Up, Assert
  <1>4. CountsOK'
    BY DEF SuspendUp, Up, Assert
  <1>5. (RequestByPlace /\ HeldByPlace)'
    BY DEF SuspendUp, Up, Assert
  <1>6. (PowerByPlace /\ EnabledByPlace)'
    BY DEF SuspendUp, Up, Assert
  <1>7. CreatedByPlace'
    BY DEF SuspendUp, Up, Assert, CreatedByPlace
  <1>8. (SystemByPlace /\ CancelledTo /\ PnpByPlace)'
    BY DEF SuspendUp, Up, Assert
  <1> QED
    BY <1>1, <1>2, <1>3, <1>4, <1>5, <1>6, <1>7, <1>8

LEMMA StartDeviceInvariant ==
    ASSUME IInv, StartDevice
    PROVE  IInv'
  <1>1. (SyncTypeOK /\ StatesOK /\ AssertionsHold)'
    BY DEF StartDevice, Send, Request, At
  <1>2. PlacesOK'
    BY DEF StartDevice, Send, Request, At
  <1>3. FlagsOK'
    BY DEF StartDevice, Send, Request, At
  <1>4. CountsOK'
    BY DEF StartDevice, Send, Request, At
  <1>5. (RequestByPlace /\ HeldByPlace)'
    BY DEF StartDevice, Send, Request, At
  <1>6. (PowerByPlace /\ EnabledByPlace)'
    BY DEF StartDevice, Send, Request, At
  <1>7. CreatedByPlace'
    BY DEF StartDevice, Send, Request, At, CreatedByPlace
  <1>8. (SystemByPlace /\ CancelledTo /\ PnpByPlace)'
    BY DEF StartDevice, Send, Request, At
  <1> QED
    BY <1>1, <1>2, <1>3, <1>4, <1>5, <1>6, <1>7, <1>8

LEMMA StartForwardedInvariant ==
    ASSUME IInv, StartForwarded
    PROVE  IInv'
  <1>1. (SyncTypeOK /\ StatesOK /\ AssertionsHold)'
    BY DEF StartForwarded, Return, At
  <1>2. PlacesOK'
    BY DEF StartForwarded, Return, At
  <1>3. FlagsOK'
    BY DEF StartForwarded, Return, At
  <1>4. CountsOK'
    BY DEF StartForwarded, Return, At
  <1>5. (RequestByPlace /\ HeldByPlace)'
    BY DEF StartForwarded, Return, At
  <1>6. (PowerByPlace /\ EnabledByPlace)'
    BY DEF StartForwarded, Return, At
  <1>7. CreatedByPlace'
    BY DEF StartForwarded, Return, At, CreatedByPlace
  <1>8. (SystemByPlace /\ CancelledTo /\ PnpByPlace)'
    BY DEF StartForwarded, Return, At
  <1> QED
    BY <1>1, <1>2, <1>3, <1>4, <1>5, <1>6, <1>7, <1>8

LEMMA D3ToD0Invariant ==
    ASSUME IInv, D3ToD0
    PROVE  IInv'
  <1>1. (SyncTypeOK /\ StatesOK /\ AssertionsHold)'
    BY DEF D3ToD0, Up, UpFails, Assert, At
  <1>2. PlacesOK'
    BY DEF D3ToD0, Up, UpFails, Assert, At
  <1>3. FlagsOK'
    BY DEF D3ToD0, Up, UpFails, Assert, At
  <1>4. CountsOK'
    BY DEF D3ToD0, Up, UpFails, Assert, At
  <1>5. (RequestByPlace /\ HeldByPlace)'
    BY DEF D3ToD0, Up, UpFails, Assert, At
  <1>6. (PowerByPlace /\ EnabledByPlace)'
    BY DEF D3ToD0, Up, UpFails, Assert, At
  <1>7. CreatedByPlace'
    BY DEF D3ToD0, Up, UpFails, Assert, At, CreatedByPlace
  <1>8. (SystemByPlace /\ CancelledTo /\ PnpByPlace)'
    BY DEF D3ToD0, Up, UpFails, Assert, At
  <1> QED
    BY <1>1, <1>2, <1>3, <1>4, <1>5, <1>6, <1>7, <1>8

LEMMA RegisterSuspendInvariant ==
    ASSUME IInv, RegisterSuspend
    PROVE  IInv'
  <1>1. (SyncTypeOK /\ StatesOK /\ AssertionsHold)'
    BY DEF RegisterSuspend, At
  <1>2. PlacesOK'
    BY DEF RegisterSuspend, At
  <1>3. FlagsOK'
    BY DEF RegisterSuspend, At
  <1>4. CountsOK'
    BY DEF RegisterSuspend, At
  <1>5. (RequestByPlace /\ HeldByPlace)'
    BY DEF RegisterSuspend, At
  <1>6. (PowerByPlace /\ EnabledByPlace)'
    BY DEF RegisterSuspend, At
  <1>7. CreatedByPlace'
    BY DEF RegisterSuspend, At, CreatedByPlace
  <1>8. (SystemByPlace /\ CancelledTo /\ PnpByPlace)'
    BY DEF RegisterSuspend, At
  <1> QED
    BY <1>1, <1>2, <1>3, <1>4, <1>5, <1>6, <1>7, <1>8

LEMMA UnwindD3ToD0Invariant ==
    ASSUME IInv, UnwindD3ToD0
    PROVE  IInv'
  <1>1. (SyncTypeOK /\ StatesOK /\ AssertionsHold)'
    BY DEF UnwindD3ToD0, Down, Assert, At
  <1>2. PlacesOK'
    BY DEF UnwindD3ToD0, Down, Assert, At
  <1>3. FlagsOK'
    BY DEF UnwindD3ToD0, Down, Assert, At
  <1>4. CountsOK'
    BY DEF UnwindD3ToD0, Down, Assert, At
  <1>5. (RequestByPlace /\ HeldByPlace)'
    BY DEF UnwindD3ToD0, Down, Assert, At
  <1>6. (PowerByPlace /\ EnabledByPlace)'
    BY DEF UnwindD3ToD0, Down, Assert, At
  <1>7. CreatedByPlace'
    BY DEF UnwindD3ToD0, Down, Assert, At, CreatedByPlace
  <1>8. (SystemByPlace /\ CancelledTo /\ PnpByPlace)'
    BY DEF UnwindD3ToD0, Down, Assert, At
  <1> QED
    BY <1>1, <1>2, <1>3, <1>4, <1>5, <1>6, <1>7, <1>8

LEMMA StartFailsInvariant ==
    ASSUME IInv, StartFails
    PROVE  IInv'
  <1>1. (SyncTypeOK /\ StatesOK /\ AssertionsHold)'
    BY DEF StartFails, At
  <1>2. PlacesOK'
    BY DEF StartFails, At
  <1>3. FlagsOK'
    BY DEF StartFails, At
  <1>4. CountsOK'
    BY DEF StartFails, At
  <1>5. (RequestByPlace /\ HeldByPlace)'
    BY DEF StartFails, At
  <1>6. (PowerByPlace /\ EnabledByPlace)'
    BY DEF StartFails, At
  <1>7. CreatedByPlace'
    BY DEF StartFails, At, CreatedByPlace
  <1>8. (SystemByPlace /\ CancelledTo /\ PnpByPlace)'
    BY DEF StartFails, At
  <1> QED
    BY <1>1, <1>2, <1>3, <1>4, <1>5, <1>6, <1>7, <1>8

LEMMA StartedInvariant ==
    ASSUME IInv, Started
    PROVE  IInv'
  <1>1. (SyncTypeOK /\ StatesOK /\ AssertionsHold)'
    BY DEF Started, SetPnp, Assert, At
  <1>2. PlacesOK'
    BY DEF Started, SetPnp, Assert, At
  <1>3. FlagsOK'
    BY DEF Started, SetPnp, Assert, At
  <1>4. CountsOK'
    BY DEF Started, SetPnp, Assert, At
  <1>5. (RequestByPlace /\ HeldByPlace)'
    BY DEF Started, SetPnp, Assert, At
  <1>6. (PowerByPlace /\ EnabledByPlace)'
    BY DEF Started, SetPnp, Assert, At
  <1>7. CreatedByPlace'
    BY DEF Started, SetPnp, Assert, At, CreatedByPlace
  <1>8. (SystemByPlace /\ CancelledTo /\ PnpByPlace)'
    BY DEF Started, SetPnp, Assert, At
  <1> QED
    BY <1>1, <1>2, <1>3, <1>4, <1>5, <1>6, <1>7, <1>8

LEMMA StopDeviceInvariant ==
    ASSUME IInv, StopDevice
    PROVE  IInv'
  <1>1. (SyncTypeOK /\ StatesOK /\ AssertionsHold)'
    BY DEF StopDevice, Assert, Request, At
  <1>2. PlacesOK'
    BY DEF StopDevice, Assert, Request, At
  <1>3. FlagsOK'
    BY DEF StopDevice, Assert, Request, At
  <1>4. CountsOK'
    BY DEF StopDevice, Assert, Request, At
  <1>5. (RequestByPlace /\ HeldByPlace)'
    BY DEF StopDevice, Assert, Request, At
  <1>6. (PowerByPlace /\ EnabledByPlace)'
    BY DEF StopDevice, Assert, Request, At
  <1>7. CreatedByPlace'
    BY DEF StopDevice, Assert, Request, At, CreatedByPlace
  <1>8. (SystemByPlace /\ CancelledTo /\ PnpByPlace)'
    BY DEF StopDevice, Assert, Request, At
  <1> QED
    BY <1>1, <1>2, <1>3, <1>4, <1>5, <1>6, <1>7, <1>8

LEMMA RemoveDeviceInvariant ==
    ASSUME IInv, RemoveDevice
    PROVE  IInv'
  <1>1. (SyncTypeOK /\ StatesOK /\ AssertionsHold)'
    BY DEF RemoveDevice, Request, At
  <1>2. PlacesOK'
    BY DEF RemoveDevice, Request, At
  <1>3. FlagsOK'
    BY DEF RemoveDevice, Request, At
  <1>4. CountsOK'
    BY DEF RemoveDevice, Request, At
  <1>5. (RequestByPlace /\ HeldByPlace)'
    BY DEF RemoveDevice, Request, At
  <1>6. (PowerByPlace /\ EnabledByPlace)'
    BY DEF RemoveDevice, Request, At
  <1>7. CreatedByPlace'
    BY DEF RemoveDevice, Request, At, CreatedByPlace
  <1>8. (SystemByPlace /\ CancelledTo /\ PnpByPlace)'
    BY DEF RemoveDevice, Request, At
  <1> QED
    BY <1>1, <1>2, <1>3, <1>4, <1>5, <1>6, <1>7, <1>8

LEMMA DeregisterSuspendInvariant ==
    ASSUME IInv, DeregisterSuspend
    PROVE  IInv'
  <1>1. (SyncTypeOK /\ StatesOK /\ AssertionsHold)'
    BY DEF DeregisterSuspend, At
  <1>2. PlacesOK'
    BY DEF DeregisterSuspend, At
  <1>3. FlagsOK'
    BY DEF DeregisterSuspend, At
  <1>4. CountsOK'
    BY DEF DeregisterSuspend, At
  <1>5. (RequestByPlace /\ HeldByPlace)'
    BY DEF DeregisterSuspend, At
  <1>6. (PowerByPlace /\ EnabledByPlace)'
    BY DEF DeregisterSuspend, At
  <1>7. CreatedByPlace'
    BY DEF DeregisterSuspend, At, CreatedByPlace
  <1>8. (SystemByPlace /\ CancelledTo /\ PnpByPlace)'
    BY DEF DeregisterSuspend, At
  <1> QED
    BY <1>1, <1>2, <1>3, <1>4, <1>5, <1>6, <1>7, <1>8

LEMMA D0ToD3Invariant ==
    ASSUME IInv, D0ToD3
    PROVE  IInv'
  <1>1. (SyncTypeOK /\ StatesOK /\ AssertionsHold)'
    BY DEF D0ToD3, Down, Assert, At
  <1>2. PlacesOK'
    BY DEF D0ToD3, Down, Assert, At
  <1>3. FlagsOK'
    BY DEF D0ToD3, Down, Assert, At
  <1>4. CountsOK'
    BY DEF D0ToD3, Down, Assert, At
  <1>5. (RequestByPlace /\ HeldByPlace)'
    BY DEF D0ToD3, Down, Assert, At
  <1>6. (PowerByPlace /\ EnabledByPlace)'
    BY DEF D0ToD3, Down, Assert, At
  <1>7. CreatedByPlace'
    BY DEF D0ToD3, Down, Assert, At, CreatedByPlace
  <1>8. (SystemByPlace /\ CancelledTo /\ PnpByPlace)'
    BY DEF D0ToD3, Down, Assert, At
  <1> QED
    BY <1>1, <1>2, <1>3, <1>4, <1>5, <1>6, <1>7, <1>8

LEMMA StopFinishInvariant ==
    ASSUME IInv, StopFinish
    PROVE  IInv'
  <1>1. (SyncTypeOK /\ StatesOK /\ AssertionsHold)'
    BY DEF StopFinish, SetPnp, Assert, At
  <1>2. PlacesOK'
    BY DEF StopFinish, SetPnp, Assert, At
  <1>3. FlagsOK'
    BY DEF StopFinish, SetPnp, Assert, At
  <1>4. CountsOK'
    BY DEF StopFinish, SetPnp, Assert, At
  <1>5. (RequestByPlace /\ HeldByPlace)'
    BY DEF StopFinish, SetPnp, Assert, At
  <1>6. (PowerByPlace /\ EnabledByPlace)'
    BY DEF StopFinish, SetPnp, Assert, At
  <1>7. CreatedByPlace'
    BY DEF StopFinish, SetPnp, Assert, At, CreatedByPlace
  <1>8. (SystemByPlace /\ CancelledTo /\ PnpByPlace)'
    BY DEF StopFinish, SetPnp, Assert, At
  <1> QED
    BY <1>1, <1>2, <1>3, <1>4, <1>5, <1>6, <1>7, <1>8

LEMMA RemoveFinishInvariant ==
    ASSUME IInv, RemoveFinish
    PROVE  IInv'
  <1>1. (SyncTypeOK /\ StatesOK /\ AssertionsHold)'
    BY DEF RemoveFinish, SetPnp, Assert, At
  <1>2. PlacesOK'
    BY DEF RemoveFinish, SetPnp, Assert, At
  <1>3. FlagsOK'
    BY DEF RemoveFinish, SetPnp, Assert, At
  <1>4. CountsOK'
    BY DEF RemoveFinish, SetPnp, Assert, At
  <1>5. (RequestByPlace /\ HeldByPlace)'
    BY DEF RemoveFinish, SetPnp, Assert, At
  <1>6. (PowerByPlace /\ EnabledByPlace)'
    BY DEF RemoveFinish, SetPnp, Assert, At
  <1>7. CreatedByPlace'
    BY DEF RemoveFinish, SetPnp, Assert, At, CreatedByPlace
  <1>8. (SystemByPlace /\ CancelledTo /\ PnpByPlace)'
    BY DEF RemoveFinish, SetPnp, Assert, At
  <1> QED
    BY <1>1, <1>2, <1>3, <1>4, <1>5, <1>6, <1>7, <1>8

LEMMA DestroyInvariant ==
    ASSUME IInv, Destroy
    PROVE  IInv'
  <1>1. (SyncTypeOK /\ StatesOK /\ AssertionsHold)'
    BY DEF Destroy, FrontendDestroy, Assert, At
  <1>2. PlacesOK'
    BY DEF Destroy, FrontendDestroy, Assert, At
  <1>3. FlagsOK'
    BY DEF Destroy, FrontendDestroy, Assert, At
  <1>4. CountsOK'
    BY DEF Destroy, FrontendDestroy, Assert, At
  <1>5. (RequestByPlace /\ HeldByPlace)'
    BY DEF Destroy, FrontendDestroy, Assert, At
  <1>6. (PowerByPlace /\ EnabledByPlace)'
    BY DEF Destroy, FrontendDestroy, Assert, At
  <1>7. CreatedByPlace'
    BY DEF Destroy, FrontendDestroy, Assert, At, CreatedByPlace
  <1>8. (SystemByPlace /\ CancelledTo /\ PnpByPlace)'
    BY DEF Destroy, FrontendDestroy, Assert, At
  <1> QED
    BY <1>1, <1>2, <1>3, <1>4, <1>5, <1>6, <1>7, <1>8

LEMMA QueryStopInvariant ==
    ASSUME IInv, QueryStop
    PROVE  IInv'
  <1>1. (SyncTypeOK /\ StatesOK /\ AssertionsHold)'
    BY DEF QueryStop, SetPnp, Assert, Request, At
  <1>2. PlacesOK'
    BY DEF QueryStop, SetPnp, Assert, Request, At
  <1>3. FlagsOK'
    BY DEF QueryStop, SetPnp, Assert, Request, At
  <1>4. CountsOK'
    BY DEF QueryStop, SetPnp, Assert, Request, At
  <1>5. (RequestByPlace /\ HeldByPlace)'
    BY DEF QueryStop, SetPnp, Assert, Request, At
  <1>6. (PowerByPlace /\ EnabledByPlace)'
    BY DEF QueryStop, SetPnp, Assert, Request, At
  <1>7. CreatedByPlace'
    BY DEF QueryStop, SetPnp, Assert, Request, At, CreatedByPlace
  <1>8. (SystemByPlace /\ CancelledTo /\ PnpByPlace)'
    BY DEF QueryStop, SetPnp, Assert, Request, At
  <1> QED
    BY <1>1, <1>2, <1>3, <1>4, <1>5, <1>6, <1>7, <1>8

LEMMA CancelStopInvariant ==
    ASSUME IInv, CancelStop
    PROVE  IInv'
  <1>1. (SyncTypeOK /\ StatesOK /\ AssertionsHold)'
    BY DEF CancelStop, RestorePnp, Request, At
  <1>2. PlacesOK'
    BY DEF CancelStop, RestorePnp, Request, At
  <1>3. FlagsOK'
    BY DEF CancelStop, RestorePnp, Request, At
  <1>4. CountsOK'
    BY DEF CancelStop, RestorePnp, Request, At
  <1>5. (RequestByPlace /\ HeldByPlace)'
    BY DEF CancelStop, RestorePnp, Request, At
  <1>6. (PowerByPlace /\ EnabledByPlace)'
    BY DEF CancelStop, RestorePnp, Request, At
  <1>7. CreatedByPlace'
    BY DEF CancelStop, RestorePnp, Request, At, CreatedByPlace
  <1>8. (SystemByPlace /\ CancelledTo /\ PnpByPlace)'
    BY DEF CancelStop, RestorePnp, Request, At
  <1> QED
    BY <1>1, <1>2, <1>3, <1>4, <1>5, <1>6, <1>7, <1>8

LEMMA QueryRemoveInvariant ==
    ASSUME IInv, QueryRemove
    PROVE  IInv'
  <1>1. (SyncTypeOK /\ StatesOK /\ AssertionsHold)'
    BY DEF QueryRemove, SetPnp, Assert, Request, At
  <1>2. PlacesOK'
    BY DEF QueryRemove, SetPnp, Assert, Request, At
  <1>3. FlagsOK'
    BY DEF QueryRemove, SetPnp, Assert, Request, At
  <1>4. CountsOK'
    BY DEF QueryRemove, SetPnp, Assert, Request, At
  <1>5. (RequestByPlace /\ HeldByPlace)'
    BY DEF QueryRemove, SetPnp, Assert, Request, At
  <1>6. (PowerByPlace /\ EnabledByPlace)'
    BY DEF QueryRemove, SetPnp, Assert, Request, At
  <1>7. CreatedByPlace'
    BY DEF QueryRemove, SetPnp, Assert, Request, At, CreatedByPlace
  <1>8. (SystemByPlace /\ CancelledTo /\ PnpByPlace)'
    BY DEF QueryRemove, SetPnp, Assert, Request, At
  <1> QED
    BY <1>1, <1>2, <1>3, <1>4, <1>5, <1>6, <1>7, <1>8

LEMMA CancelRemoveInvariant ==
    ASSUME IInv, CancelRemove
    PROVE  IInv'
  <1>1. (SyncTypeOK /\ StatesOK /\ AssertionsHold)'
    BY DEF CancelRemove, RestorePnp, Request, At
  <1>2. PlacesOK'
    BY DEF CancelRemove, RestorePnp, Request, At
  <1>3. FlagsOK'
    BY DEF CancelRemove, RestorePnp, Request, At
  <1>4. CountsOK'
    BY DEF CancelRemove, RestorePnp, Request, At
  <1>5. (RequestByPlace /\ HeldByPlace)'
    BY DEF CancelRemove, RestorePnp, Request, At
  <1>6. (PowerByPlace /\ EnabledByPlace)'
    BY DEF CancelRemove, RestorePnp, Request, At
  <1>7. CreatedByPlace'
    BY DEF CancelRemove, RestorePnp, Request, At, CreatedByPlace
  <1>8. (SystemByPlace /\ CancelledTo /\ PnpByPlace)'
    BY DEF CancelRemove, RestorePnp, Request, At
  <1> QED
    BY <1>1, <1>2, <1>3, <1>4, <1>5, <1>6, <1>7, <1>8

LEMMA SurpriseRemovalInvariant ==
    ASSUME IInv, SurpriseRemoval
    PROVE  IInv'
  <1>1. (SyncTypeOK /\ StatesOK /\ AssertionsHold)'
    BY DEF SurpriseRemoval, SetPnp, Assert, Request, At
  <1>2. PlacesOK'
    BY DEF SurpriseRemoval, SetPnp, Assert, Request, At
  <1>3. FlagsOK'
    BY DEF SurpriseRemoval, SetPnp, Assert, Request, At
  <1>4. CountsOK'
    BY DEF SurpriseRemoval, SetPnp, Assert, Request, At
  <1>5. (RequestByPlace /\ HeldByPlace)'
    BY DEF SurpriseRemoval, SetPnp, Assert, Request, At
  <1>6. (PowerByPlace /\ EnabledByPlace)'
    BY DEF SurpriseRemoval, SetPnp, Assert, Request, At
  <1>7. CreatedByPlace'
    BY DEF SurpriseRemoval, SetPnp, Assert, Request, At, CreatedByPlace
  <1>8. (SystemByPlace /\ CancelledTo /\ PnpByPlace)'
    BY DEF SurpriseRemoval, SetPnp, Assert, Request, At
  <1> QED
    BY <1>1, <1>2, <1>3, <1>4, <1>5, <1>6, <1>7, <1>8

LEMMA LowerInvariant ==
    ASSUME IInv, Lower
    PROVE  IInv'
  <1>1. (SyncTypeOK /\ StatesOK /\ AssertionsHold)'
    BY DEF Lower, LowerCompletes, CallPending
  <1>2. PlacesOK'
    BY DEF Lower, LowerCompletes, CallPending
  <1>3. FlagsOK'
    BY DEF Lower, LowerCompletes, CallPending
  <1>4. CountsOK'
    BY DEF Lower, LowerCompletes, CallPending
  <1>5. (RequestByPlace /\ HeldByPlace)'
    BY DEF Lower, LowerCompletes, CallPending
  <1>6. (PowerByPlace /\ EnabledByPlace)'
    BY DEF Lower, LowerCompletes, CallPending
  <1>7. CreatedByPlace'
    BY DEF Lower, LowerCompletes, CallPending, CreatedByPlace
  <1>8. (SystemByPlace /\ CancelledTo /\ PnpByPlace)'
    BY DEF Lower, LowerCompletes, CallPending
  <1> QED
    BY <1>1, <1>2, <1>3, <1>4, <1>5, <1>6, <1>7, <1>8

LEMMA SetPowerInvariant ==
    ASSUME IInv, NEW type \in {"device", "system"}, NEW state, NEW action,
           SetPower(type, state, action)
    PROVE  IInv'
  <1>1. (SyncTypeOK /\ StatesOK /\ AssertionsHold)'
    BY DEF SetPower, Request, At
  <1>2. PlacesOK'
    BY DEF SetPower, Request, At
  <1>3. FlagsOK'
    BY DEF SetPower, Request, At
  <1>4. CountsOK'
    BY DEF SetPower, Request, At
  <1>5. (RequestByPlace /\ HeldByPlace)'
    BY DEF SetPower, Request, At
  <1>6. (PowerByPlace /\ EnabledByPlace)'
    BY DEF SetPower, Request, At
  <1>7. CreatedByPlace'
    BY DEF SetPower, Request, At, CreatedByPlace
  <1>8. (SystemByPlace /\ CancelledTo /\ PnpByPlace)'
    BY DEF SetPower, Request, At
  <1> QED
    BY <1>1, <1>2, <1>3, <1>4, <1>5, <1>6, <1>7, <1>8


LEMMA NextInvariant == IInv /\ [Next]_vars => IInv'
  <1> SUFFICES ASSUME IInv, [Next]_vars
               PROVE  IInv'
    OBVIOUS
  <1>1. CASE AddDevice
    BY <1>1, AddDeviceInvariant
  <1>2. CASE DispatchPnp
    BY <1>2, StartDeviceInvariant, StopDeviceInvariant, RemoveDeviceInvariant,
       QueryStopInvariant, CancelStopInvariant, QueryRemoveInvariant,
       CancelRemoveInvariant, SurpriseRemovalInvariant
    DEF DispatchPnp
  <1>3. CASE DispatchPower
    BY <1>3, SetPowerInvariant DEF DispatchPower
  <1>4. CASE Thread
    BY <1>4, QueryInterfaceInvariant, InterfaceReturnedInvariant,
       CreateFrontendInvariant, StartForwardedInvariant, D3ToD0Invariant,
       RegisterSuspendInvariant, UnwindD3ToD0Invariant, StartFailsInvariant,
       StartedInvariant, DeregisterSuspendInvariant, D0ToD3Invariant,
       StopFinishInvariant, RemoveFinishInvariant, DestroyInvariant
    DEF Thread
  <1>5. CASE Lower \/ SuspendDown \/ SuspendUp
    BY <1>5, LowerInvariant, SuspendDownInvariant, SuspendUpInvariant
  <1>6. CASE UNCHANGED vars
    BY <1>6, StutterInvariant
  <1> QED
    BY <1>1, <1>2, <1>3, <1>4, <1>5, <1>6 DEF Next

----------------------------------------------------------------------------
\* The invariant says what is claimed.
LEMMA InvariantImpliesTypeOK == IInv => TypeOK
  BY DEF TypeOK

LEMMA InvariantImpliesCreatedWhole == IInv => CreatedWhole
  BY DEF CreatedWhole, CreatedByPlace, At

LEMMA InvariantImpliesHeldWhilePowered == IInv => HeldWhilePowered
  BY DEF HeldWhilePowered, At

LEMMA InvariantImpliesPnpFollowsSystem == IInv => PnpFollowsSystem
  BY DEF PnpFollowsSystem, At

LEMMA InvariantImpliesQuietWhenStopped == IInv => QuietWhenStopped
  BY DEF QuietWhenStopped, At

LEMMA InvariantImpliesReadsAreServed == IInv => ReadsAreServed
  BY DEF ReadsAreServed

LEMMA InvariantImpliesNoRequestOutstanding == IInv => NoRequestOutstanding
  OBVIOUS

LEMMA InvariantImpliesAssertionsHold == IInv => AssertionsHold
  OBVIOUS

HIDE DEF IInv, SyncTypeOK, Status, PlacesOK, StatesOK, FlagsOK, CountsOK,
         AssertionsHold, RequestByPlace, NoRequestOutstanding, HeldByPlace,
         PowerByPlace, EnabledByPlace, SystemByPlace,
         PnpByPlace, CancelledTo, Creating, Starting, Stopping, Linked,
         Callable, Named, Exists, PnpState, SystemState, Label,
         syncVars, systemVars, threadVars, createVars, pnpVars, powerVars,
         debugVars, suspendVars, linkVars

LEMMA FdoInductive == Spec => []IInv
  BY InitInvariant, NextInvariant, PTL DEF Spec

\* The variables have their types in every reachable state; no reference on
\* DEBUG or SUSPEND is taken twice or released without having been taken.
THEOREM FdoTypeCorrect == Spec => []TypeOK
  BY FdoInductive, InvariantImpliesTypeOK, PTL

\* The function that waits for a request is not left before the driver below
\* has completed it: FdoForwardIrpSynchronously, FdoQueryInterface.
THEOREM FdoNoRequestOutstanding == Spec => []NoRequestOutstanding
  BY FdoInductive, InvariantImpliesNoRequestOutstanding, PTL

\* FdoCreate leaves all the interfaces and a frontend or nothing, at whichever
\* call it fails.
THEOREM FdoCreatedWhole == Spec => []CreatedWhole
  BY FdoInductive, InvariantImpliesCreatedWhole, PTL

\* Between requests the device holds in D0 what FdoD3ToD0 took and in D3
\* nothing of it, for every interleaving with FdoSuspendCallback.
THEOREM FdoHeldWhilePowered == Spec => []HeldWhilePowered
  BY FdoInductive, InvariantImpliesHeldWhilePowered, PTL

\* Between requests DevicePnpState is the state the PnP manager has.
THEOREM FdoPnpFollowsSystem == Spec => []PnpFollowsSystem
  BY FdoInductive, InvariantImpliesPnpFollowsSystem, PTL

\* A device that is not started, or about to be destroyed, is paused,
\* disconnected and has no callback registered.
THEOREM FdoQuietWhenStopped == Spec => []QuietWhenStopped
  BY FdoInductive, InvariantImpliesQuietWhenStopped, PTL

\* Reads are enabled without a link only in a suspend and before the pause at
\* the end of FdoStopDevice.
THEOREM FdoReadsAreServed == Spec => []ReadsAreServed
  BY FdoInductive, InvariantImpliesReadsAreServed, PTL

\* The ASSERTs on Connected, on the power state and on Deleted hold.
THEOREM FdoAssertionsHold == Spec => []AssertionsHold
  BY FdoInductive, InvariantImpliesAssertionsHold, PTL
============================================================================
