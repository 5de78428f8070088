---------------------------- MODULE DeviceProofs ----------------------------
(***************************************************************************)
(* Proofs about Driver and HidControl: the device in the driver, with the  *)
(* control requests beside it, is the device of Fdo; and what only the     *)
(* whole of them can say, for any lengths of output buffers.               *)
(***************************************************************************)
EXTENDS HidControl, FdoProofs

\* DriverEntry sets the pointer DriverUnload clears.
Entered ==
    /\ driver \in {"absent", "entered", "registered", "safe"}
    /\ driverObject \in BOOLEAN
    /\ driverObject <=> driver # "absent"

\* A driver is unloaded when it has no device, and given none before it has
\* registered.
UnloadedIsIdle == driver # "registered" => pc = "idle" /\ ~Exists

DInv == Entered /\ UnloadedIsIdle

LEMMA EnteredInit == DeviceInit => DInv
  BY DEF DeviceInit, DriverInit, Init, DInv, Entered, UnloadedIsIdle,
         Exists

----------------------------------------------------------------------------
\* The steps of the driver itself and of a control request change nothing of
\* the device.
LEMMA DriverEntryQuiet ==
    ASSUME Entered, NEW safeBoot, DriverEntry(safeBoot)
    PROVE  UNCHANGED vars
  BY DEF Entered, DriverEntry, Assert, vars, systemVars, threadVars,
         createVars, pnpVars, powerVars, linkVars, suspendVars

LEMMA DriverUnloadQuiet ==
    ASSUME Entered, DriverUnload
    PROVE  UNCHANGED vars
  BY DEF Entered, DriverUnload, Assert, vars, systemVars, threadVars,
         createVars, pnpVars, powerVars, linkVars, suspendVars

LEMMA DriverStep == Entered /\ DriverNext => [Next]_vars
  BY DriverEntryQuiet, DriverUnloadQuiet
  DEF DriverNext, HidRegisterMinidriver, Dispatch

LEMMA ControlQuiet ==
    ASSUME NEW code, NEW length, DispatchControl(code, length)
    PROVE  UNCHANGED allVars
  BY DEF DispatchControl

LEMMA DeviceStep == DInv /\ [DeviceNext]_deviceVars => [Next]_vars
  <1>1. ASSUME Entered, DriverNext
        PROVE  [Next]_vars
    BY <1>1, DriverStep
  <1>2. UNCHANGED allVars => UNCHANGED vars
    BY DEF allVars
  <1> QED
    BY <1>1, <1>2, ControlQuiet DEF DInv, DeviceNext, deviceVars

----------------------------------------------------------------------------
\* Each step preserves the invariant.
LEMMA EnteredStep ==
    ASSUME DInv, DriverNext
    PROVE  Entered'
  BY DEF DInv, Entered, DriverNext, DriverEntry, HidRegisterMinidriver,
         DriverUnload, Dispatch, driverVars

LEMMA UnloadedStep ==
    ASSUME DInv, DriverNext
    PROVE  UnloadedIsIdle'
  <1> USE DEF DInv, UnloadedIsIdle, Exists
  <1>1. ASSUME NEW safeBoot, DriverEntry(safeBoot)
        PROVE  UnloadedIsIdle'
    BY <1>1 DEF DriverEntry, systemVars, threadVars
  <1>2. CASE HidRegisterMinidriver
    BY <1>2 DEF HidRegisterMinidriver, vars, systemVars, threadVars
  <1>3. CASE DriverUnload
    BY <1>3 DEF DriverUnload, Request, At, systemVars, threadVars
  <1>4. CASE Dispatch
    BY <1>4 DEF Dispatch, driverVars
  <1> QED
    BY <1>1, <1>2, <1>3, <1>4 DEF DriverNext

LEMMA AllVarsKeep ==
    ASSUME DInv, UNCHANGED allVars
    PROVE  Entered' /\ UnloadedIsIdle'
  BY DEF DInv, Entered, UnloadedIsIdle, Exists, allVars, driverVars, vars,
         systemVars, threadVars

LEMMA DeviceInvariantStep == DInv /\ [DeviceNext]_deviceVars => DInv'
  <1> SUFFICES ASSUME DInv, [DeviceNext]_deviceVars
               PROVE  DInv'
    OBVIOUS
  <1>1. CASE DriverNext
    BY <1>1, EnteredStep, UnloadedStep DEF DInv
  <1>2. ASSUME NEW code, NEW length, DispatchControl(code, length)
        PROVE  DInv'
    BY <1>2, ControlQuiet, AllVarsKeep DEF DInv
  <1>3. CASE UNCHANGED deviceVars
    BY <1>3, AllVarsKeep DEF deviceVars, DInv
  <1> QED
    BY <1>1, <1>2, <1>3 DEF DeviceNext

LEMMA DeviceInductive == DeviceSpec => []DInv
  BY EnteredInit, DeviceInvariantStep, PTL DEF DeviceSpec

\* AddDevice and the dispatch functions are called only while the driver is
\* registered, and neither DriverEntry, DriverUnload nor a control request
\* touches the device: it lives in the driver as Fdo says.
THEOREM ImplementsFdo == DeviceSpec => Spec
  <1>1. DeviceInit => Init
    BY DEF DeviceInit, DriverInit
  <1> QED
    BY <1>1, DeviceStep, DeviceInductive, PTL DEF DeviceSpec, Spec

----------------------------------------------------------------------------
\* What is proved of the device holds of it in the driver: what it owns
\* between requests, whichever call failed.
THEOREM DeviceOwns ==
    DeviceSpec => [](/\ CreatedWhole /\ HeldWhilePowered
                     /\ QuietWhenStopped /\ ReadsAreServed)
  BY ImplementsFdo, FdoCreatedWhole, FdoHeldWhilePowered,
     FdoQuietWhenStopped, FdoReadsAreServed, PTL

\* And what it asserts, waits for and tells the PnP manager.
THEOREM DeviceFollows ==
    DeviceSpec => [](/\ AssertionsHold
                     /\ NoRequestOutstanding
                     /\ PnpFollowsSystem)
  BY ImplementsFdo, FdoAssertionsHold, FdoNoRequestOutstanding,
     FdoPnpFollowsSystem, PTL

\* The variables of the driver and the device have their types.
THEOREM DriverTypeCorrect == DeviceSpec => []DriverTypeOK
  <1>1. DInv /\ TypeOK => DriverTypeOK
    BY DEF DInv, Entered, DriverTypeOK
  <1> QED
    BY <1>1, ImplementsFdo, FdoTypeCorrect, DeviceInductive, PTL

\* When the image may leave memory no callback points into it, no request is
\* with the driver below and no interface is referenced.
THEOREM DriverUnloadedIsUnreferenced == DeviceSpec => []UnloadedIsUnreferenced
  <1>1. ASSUME IInv, DInv, driver # "registered", failed = "none"
        PROVE  /\ ~suspendCallback /\ ~debugCallback
               /\ suspendRefs = 0 /\ debugRefs = 0
               /\ irp # "below" /\ ~frontend /\ interfaces = {}
    <2>1. pc = "idle" /\ ~Exists /\ power # "D0"
      BY <1>1 DEF DInv, UnloadedIsIdle, IInv, PowerByPlace, Exists
    <2>2. /\ ~suspendCallback /\ ~debugCallback
          /\ suspendRefs = 0 /\ debugRefs = 0
      BY <1>1, <2>1 DEF IInv, HeldByPlace, Linked, Callable, FlagsOK
    <2>3. irp # "below"
      BY <1>1, <2>1 DEF IInv, RequestByPlace, NoRequestOutstanding
    <2>4. ~frontend /\ interfaces = {}
      BY <1>1, <2>1 DEF IInv, CreatedByPlace
    <2> QED
      BY <2>2, <2>3, <2>4
  <1>2. IInv /\ DInv => UnloadedIsUnreferenced
    BY <1>1 DEF UnloadedIsUnreferenced
  <1> QED
    BY <1>2, ImplementsFdo, FdoInductive, DeviceInductive, PTL

----------------------------------------------------------------------------
\* Whether a request is refused is decided by Connected alone.
LEMMA ReadyIsConnected ==
    ASSUME NEW code \in ControlCode \ {"other"}, NEW length
    PROVE  Answer(code, length).status # "DEVICE_NOT_READY" <=> connected
  <1>1. CASE ~connected
    BY <1>1 DEF Answer, Completed
  <1>2. CASE connected /\ code \in Unsupported
    <2>1. code \notin DOMAIN Copied
      BY <1>2 DEF Unsupported, Copied
    <2> QED
      BY <1>2, <2>1 DEF Answer, Completed
  <1>3. CASE connected /\ code \in DOMAIN Copied
    <2>1. code \notin Unsupported
      BY <1>3 DEF Unsupported, Copied
    <2>2. Answer(code, length) = CopyWhole(code, length)
      BY <1>3, <2>1 DEF Answer
    <2> QED
      BY <1>3, <2>2 DEF CopyWhole, Completed
  <1> QED
    BY <1>1, <1>2, <1>3 DEF ControlCode

\* Between PnP requests the link is there if and only if the device was
\* started and no suspend is under way.
LEMMA LinkFollowsSystem ==
    ASSUME IInv, pc = "idle", failed = "none"
    PROVE  /\ StartedForSystem => (connected <=> ~suspending)
           /\ UnstartedForSystem => ~connected
  <1>1. connected <=> power = "D0" /\ ~suspending
    BY DEF IInv, HeldByPlace, Linked
  <1>2. StartedForSystem => power = "D0"
    BY DEF StartedForSystem, IInv, PowerByPlace
  <1>3. UnstartedForSystem => power # "D0"
    BY DEF UnstartedForSystem, IInv, PowerByPlace
  <1> QED
    BY <1>1, <1>2, <1>3

\* A client of a started device is refused only during a suspend, one of a
\* device that is not started always, for any lengths of the buffers.
THEOREM DeviceAnsweredWhileStarted == DeviceSpec => AnsweredWhileStarted
  <1> DEFINE Fit ==
                 \A code \in ControlCode \ {"other"}, length \in BufferLength :
                     DispatchControl(code, length) /\ pc = "idle" =>
                         LET ready == answer'.status # "DEVICE_NOT_READY"
                         IN  /\ StartedForSystem => (ready <=> ~suspending)
                             /\ UnstartedForSystem => ~ready
  <1>1. IInv => Fit
    <2> SUFFICES ASSUME IInv, NEW code \in ControlCode \ {"other"},
                        NEW length \in BufferLength,
                        DispatchControl(code, length), pc = "idle"
                 PROVE  LET ready == answer'.status # "DEVICE_NOT_READY"
                        IN  /\ StartedForSystem => (ready <=> ~suspending)
                            /\ UnstartedForSystem => ~ready
      OBVIOUS
    <2>1. answer' = Answer(code, length) /\ failed = "none"
      BY DEF DispatchControl
    <2>2. answer'.status # "DEVICE_NOT_READY" <=> connected
      BY <2>1, ReadyIsConnected
    <2> QED
      BY <2>1, <2>2, LinkFollowsSystem
  <1>2. AnsweredWhileStarted <=> [][Fit]_deviceVars
    BY DEF AnsweredWhileStarted
  <1> HIDE DEF Fit
  <1>3. IInv => [Fit]_deviceVars
    BY <1>1
  <1> QED
    BY <1>2, <1>3, FdoInductive, ImplementsFdo, PTL
============================================================================
