----------------------------- MODULE HidControl -----------------------------
(***************************************************************************)
(* The control requests of HIDCLASS beside the life of the device: the     *)
(* cases of FdoDispatchControl other than the read, the test of Connected  *)
(* in frontend.c and the answers of vkbd.c, which are constants copied     *)
(* whole or not at all.  HIDCLASS sends them at any time the device        *)
(* exists, from threads of its own.                                        *)
(***************************************************************************)
EXTENDS Driver

CONSTANT BufferLength       \* output buffers HIDCLASS comes with

ASSUME ControlAssumption == BufferLength \subseteq Nat

VARIABLE answer             \* what the last request was completed with

deviceVars == <<allVars, answer>>

\* sizeof of HID_DEVICE_ATTRIBUTES and HID_DESCRIPTOR, and the bytes of
\* VKBD_REPORT_DESCRIPTOR.
Copied == [attributes |-> 32, deviceDescriptor |-> 9, reportDescriptor |-> 113]

Unsupported == {"getFeature", "setFeature", "writeReport"}
ControlCode == DOMAIN Copied \cup Unsupported \cup {"other"}

Completed(status, information) ==
    [status |-> status, information |-> information]

\* The constant is copied when the buffer has room for all of it.
CopyWhole(code, length) ==
    IF length < Copied[code] THEN Completed("INVALID_BUFFER_SIZE", 0)
    ELSE Completed("SUCCESS", Copied[code])

\* What FdoDispatchControl completes the request with.
Answer(code, length) ==
    CASE code = "other" -> Completed("NOT_SUPPORTED", 0)
      [] code # "other" /\ ~connected -> Completed("DEVICE_NOT_READY", 0)
      [] code \in Unsupported /\ connected -> Completed("NOT_SUPPORTED", 0)
      [] code \in DOMAIN Copied /\ connected -> CopyWhole(code, length)

DispatchControl(code, length) ==
    /\ driver = "registered" /\ failed = "none"
    /\ Exists /\ frontend
    /\ answer' = Answer(code, length)
    /\ UNCHANGED allVars

DeviceInit == DriverInit /\ answer = Completed("SUCCESS", 0)

DeviceNext == \/ DriverNext /\ UNCHANGED answer
              \/ \E code \in ControlCode, length \in BufferLength :
                    DispatchControl(code, length)

DeviceSpec == /\ DeviceInit /\ [][DeviceNext]_deviceVars
              /\ DriverFairness

----------------------------------------------------------------------------
\* What the PnP manager knows of the device between two of its requests; of
\* one that was surprise-removed it says neither.
StartedForSystem ==
    \/ system \in {"Started", "StopQueried"}
    \/ system = "RemoveQueried" /\ cancelTo = "Started"

UnstartedForSystem ==
    \/ system \in {"Added", "Stopped"}
    \/ system = "RemoveQueried" /\ cancelTo = "Added"

\* FdoDispatchControl tests neither the PnP state nor the power state, and
\* Connected alone decides whether a request is answered: between PnP requests
\* a device that was started is not ready only while a suspend is under way,
\* and one that was not started never is, whichever starts failed and queries
\* were cancelled before.
AnsweredWhileStarted ==
    [][ \A code \in ControlCode \ {"other"}, length \in BufferLength :
            DispatchControl(code, length) /\ pc = "idle" =>
                LET ready == answer'.status # "DEVICE_NOT_READY"
                IN  /\ StartedForSystem => (ready <=> ~suspending)
                    /\ UnstartedForSystem => ~ready ]_deviceVars
============================================================================
