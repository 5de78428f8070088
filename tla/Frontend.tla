------------------------------ MODULE Frontend -----------------------------
(***************************************************************************)
(* frontend.c with the connection half of vkbd.c: the XenStore handshake   *)
(* by which FrontendEnable and FrontendDisable attach the driver to the    *)
(* backend and detach it, and the resources they take and give back.       *)
(*                                                                         *)
(* One thread at a time runs an operation (a PnP or power request, or the  *)
(* suspend callback); a step is the code between two calls out of the      *)
(* driver.  Between steps the backend reacts to what was written, and the  *)
(* thread of an IOCTL looks at the frontend.  Any call may fail, at most   *)
(* MaxFaults times in a behaviour; a write in a transaction and the        *)
(* conflict of a transaction are not counted.  An ASSERT that fails ends   *)
(* the operation for good: the free build calls KeBugCheckEx.              *)
(***************************************************************************)
EXTENDS Integers

CONSTANTS Protocol,     \* values the store key "protocol" may have
          Domain,       \* domains the backend may live in
          WaitRounds,   \* event-less rounds before __FrontendWaitState's
                        \* 120000 ms are over
          Prompt,       \* the backend reacts within one such round
          MaxFaults     \* calls that may fail in one behaviour

ASSUME FrontendAssumption ==
    /\ 0 \in Protocol
    /\ Domain # {} /\ 0 \notin Domain
    /\ WaitRounds \in Nat \ {0}
    /\ Prompt \in BOOLEAN
    /\ MaxFaults \in Nat

VARIABLES
    \* XenStore and the backend
    fe,             \* the frontend's "state" key
    be,             \* the backend's "state" key
    unseen,         \* the backend has not reacted to fe yet
    published,      \* "evtchn" and "gnttab" name what the frontend holds
    backendId,      \* the "backend-id" key
    \* the frontend
    connected,      \* Frontend->Connected
    context,        \* Frontend->Context # NULL
    operations,     \* Frontend->Operations is filled in
    path,           \* Frontend->BackendPath # NULL
    domain,         \* Frontend->BackendDomain
    acquired,       \* a reference on the STORE interface is held
    stage,          \* how many of the resources of Vkbd_Connect are held
    granted,        \* the domain the grant was permitted to, 0 when none
    \* the thread running an operation
    pc,
    phase,          \* FrontendEnable or FrontendDisable
    caller,         \* __FrontendClose or __FrontendConnect
    resuming,       \* the operation is FdoSuspendCallback
    state, old,     \* State and Old of __FrontendWaitState
    watching,       \* the watch is registered
    fired,          \* its event is signalled
    rounds,         \* rounds without event
    faults,         \* calls that may still fail
    ioctl           \* a thread is past the test of Connected in an IOCTL

storeVars == <<fe, be, unseen, published, backendId>>
pathVars == <<path, domain>>
linkVars == <<stage, granted>>
feVars == <<connected, context, operations, pathVars, acquired, linkVars>>
waitVars == <<state, old, watching, fired, rounds>>
callVars == <<phase, caller, resuming>>
vars == <<storeVars, feVars, waitVars, callVars, pc, faults, ioctl>>

\* The shared page, its grant reference, the backend's access through it and
\* the event channel are taken in this order and given back in reverse.
AllResources == 4

\* FrontendCreate: the structure is zeroed.
Init == /\ fe = "Initialising" /\ be = "InitWait"
        /\ unseen = FALSE /\ published = FALSE /\ backendId \in Domain
        /\ connected = FALSE /\ context = FALSE /\ operations = FALSE
        /\ path = FALSE /\ domain = 0 /\ acquired = FALSE
        /\ stage = 0 /\ granted = 0
        /\ pc = "idle" /\ phase = "enable" /\ caller = "close"
        /\ resuming = FALSE
        /\ state = "Unknown" /\ old = "Unknown"
        /\ watching = FALSE /\ fired = FALSE /\ rounds = 0
        /\ faults = MaxFaults
        /\ ioctl = FALSE

\* The call made at this step fails.
Fault == faults > 0 /\ faults' = faults - 1

----------------------------------------------------------------------------
\* The backend, as the waits of frontend.c expect it: it follows the
\* frontend to Closing (or at once to Closed), to Closed and to Connected.
Answer(s) == CASE s = "Closing"   -> {"Closing", "Closed"}
               [] s = "Closed"    -> {"Closed"}
               [] s = "Connected" -> {"Connected"}
               [] OTHER           -> {be}

Backend ==
    /\ unseen
    /\ unseen' = FALSE
    /\ be' \in Answer(fe)
    /\ fired' = (fired \/ (watching /\ be' # be))
    /\ UNCHANGED <<fe, published, backendId, feVars, state, old, watching, rounds,
                   callVars, pc, faults, ioctl>>

----------------------------------------------------------------------------
\* FrontendEnable: take the STORE interface and call __FrontendClose.
EnableStart ==
    /\ \/ pc = "idle" /\ ~connected /\ resuming' = FALSE
       \/ pc = "enable" /\ UNCHANGED resuming
    /\ acquired' = TRUE
    /\ pc' = "paths" /\ phase' = "enable" /\ caller' = "close"
    /\ state' = "Unknown"
    /\ UNCHANGED <<storeVars, connected, context, operations, pathVars, linkVars,
                   old, watching, fired, rounds, faults, ioctl>>

\* FrontendDisable.
DisableStart ==
    /\ pc = "idle" /\ connected
    /\ pc' = "disconnect" /\ phase' = "disable" /\ resuming' = FALSE
    /\ UNCHANGED <<storeVars, feVars, waitVars, caller, faults, ioctl>>

\* FdoSuspendCallback: FrontendDisable and then FrontendEnable, after a
\* migration to a host whose store is new or a cancelled suspend.
ResumeStart ==
    /\ pc = "idle" /\ connected
    /\ pc' = "disconnect" /\ phase' = "disable" /\ resuming' = TRUE
    /\ \/ UNCHANGED <<fe, be, unseen, backendId>>
       \/ /\ fe' = "Initialising" /\ be' = "InitWait" /\ unseen' = FALSE
          /\ backendId' \in Domain
    /\ UNCHANGED <<published, feVars, waitVars, caller, faults, ioctl>>

\* Where __FrontendClose returns to: FrontendEnable goes on when it
\* succeeded, FrontendDisable ignores the result.
AfterClose(ok) == IF phase = "enable" /\ ok THEN "protocol" ELSE "release"

\* What __FrontendClose and __FrontendConnect do with the result of
\* __FrontendUpdatePaths.
AfterPaths(ok) ==
    CASE caller = "close" /\ ok    -> "setClosing"
      [] caller = "close" /\ ~ok   -> AfterClose(FALSE)
      [] caller = "connect" /\ ok  -> "connect"
      [] caller = "connect" /\ ~ok -> "destroy"

\* Mutant of UpdatePaths: a domain that is known is not read again.
UpdatePathsOnce ==
    /\ pc = "paths"
    /\ \/ /\ path' = TRUE /\ domain' = IF domain = 0 THEN backendId ELSE domain
          /\ pc' = AfterPaths(TRUE) /\ UNCHANGED faults
       \/ path' = FALSE /\ pc' = AfterPaths(TRUE) /\ Fault /\ UNCHANGED domain
       \/ /\ path' \in {path, TRUE}
          /\ pc' = AfterPaths(FALSE) /\ Fault /\ UNCHANGED domain
    /\ UNCHANGED <<storeVars, connected, context, operations, acquired, linkVars,
                   waitVars, callVars, ioctl>>

\* __FrontendUpdatePaths: when the path cannot be allocated the function
\* returns the STATUS_SUCCESS of the read before.
UpdatePaths ==
    /\ pc = "paths"
    /\ \/ /\ path' = TRUE /\ domain' = backendId
          /\ pc' = AfterPaths(TRUE) /\ UNCHANGED faults
       \/ path' = FALSE /\ pc' = AfterPaths(TRUE) /\ Fault /\ UNCHANGED domain
       \/ /\ path' \in {path, TRUE}
          /\ pc' = AfterPaths(FALSE) /\ Fault /\ UNCHANGED domain
    /\ UNCHANGED <<storeVars, connected, context, operations, acquired, linkVars,
                   waitVars, callVars, ioctl>>

\* __FrontendSetState
SetState(here, s, fail) ==
    /\ pc = here
    /\ \/ fe' = s /\ unseen' = TRUE /\ pc' = "watch" /\ UNCHANGED faults
       \/ UNCHANGED <<fe, unseen>> /\ pc' = fail /\ Fault
    /\ UNCHANGED <<be, published, backendId, feVars, waitVars, callVars, ioctl>>

SetClosing == SetState("setClosing", "Closing", AfterClose(FALSE))
SetClosed == SetState("setClosed", "Closed", AfterClose(FALSE))
SetConnected == SetState("setConnected", "Connected", "disconnect")

----------------------------------------------------------------------------
\* Mutant of WaitOk: the second wait of __FrontendClose is not repeated.
WaitOkAnyAnswer(s) ==
    CASE fe = "Closing" /\ s \in {"Closing", "Closed"} -> "setClosed"
      [] fe = "Closed"                                 -> AfterClose(TRUE)
      [] fe = "Connected" /\ s = "Connected"           -> "connected"
      [] fe = "Connected" /\ s # "Connected"           -> "disconnect"
      [] OTHER                                         -> "watch"

\* Which wait this is follows from the state the frontend wrote last.
\* A wait that succeeds is repeated until the backend is where it should be,
\* except that __FrontendConnect takes its first answer.
WaitOk(s) ==
    CASE fe = "Closing" /\ s \in {"Closing", "Closed"} -> "setClosed"
      [] fe = "Closed" /\ s = "Closed"                 -> AfterClose(TRUE)
      [] fe = "Connected" /\ s = "Connected"           -> "connected"
      [] fe = "Connected" /\ s # "Connected"           -> "disconnect"
      [] OTHER                                         -> "watch"

WaitFailed == IF fe = "Connected" THEN "disconnect" ELSE AfterClose(FALSE)

\* Mutant of Watch: the time of the wait before is not forgotten.
WatchGoesOn ==
    /\ pc = "watch"
    /\ \/ /\ old' = state /\ watching' = TRUE /\ fired' = FALSE
          /\ pc' = "wait" /\ UNCHANGED <<rounds, faults>>
       \/ /\ UNCHANGED <<old, watching, fired, rounds>>
          /\ pc' = WaitFailed /\ Fault
    /\ UNCHANGED <<storeVars, feVars, state, callVars, ioctl>>

\* __FrontendWaitState: XenStore signals a new watch at once.
Watch ==
    /\ pc = "watch"
    /\ \/ /\ old' = state /\ watching' = TRUE /\ fired' = TRUE /\ rounds' = 0
          /\ pc' = "wait" /\ UNCHANGED faults
       \/ /\ UNCHANGED <<old, watching, fired, rounds>>
          /\ pc' = WaitFailed /\ Fault
    /\ UNCHANGED <<storeVars, feVars, state, callVars, ioctl>>

\* The inner loop: the event is signalled, or 999 polls of 1 ms pass.
WaitEvent ==
    /\ pc = "wait"
    /\ \/ fired /\ UNCHANGED rounds
       \/ /\ ~fired /\ (Prompt => ~unseen)
          /\ rounds' = rounds + 1
    /\ fired' = FALSE
    /\ pc' = "read"
    /\ UNCHANGED <<storeVars, feVars, state, old, watching, callVars, faults,
                   ioctl>>

\* Mutant of ReadState: the wait has no time limit.
ReadStateForever ==
    /\ pc = "read"
    /\ \/ /\ path /\ be # old
          /\ state' = be /\ watching' = FALSE
          /\ pc' = WaitOk(be) /\ UNCHANGED <<rounds, faults>>
       \/ /\ path /\ be = old
          /\ rounds' = 0
          /\ pc' = "wait" /\ UNCHANGED <<state, watching, faults>>
       \/ /\ path => Fault
          /\ ~path => UNCHANGED faults
          /\ watching' = FALSE
          /\ pc' = WaitFailed /\ UNCHANGED <<state, rounds>>
    /\ UNCHANGED <<storeVars, feVars, old, fired, callVars, ioctl>>

\* The backend's state is read; a changed state ends the wait, and so does
\* the end of the time.
ReadState ==
    /\ pc = "read"
    /\ \/ /\ path /\ be # old
          /\ state' = be /\ watching' = FALSE
          /\ pc' = WaitOk(be) /\ UNCHANGED faults
       \/ /\ path /\ be = old /\ rounds < WaitRounds
          /\ pc' = "wait" /\ UNCHANGED <<state, watching, faults>>
       \/ /\ path /\ be = old /\ rounds >= WaitRounds
          /\ watching' = FALSE
          /\ pc' = WaitFailed /\ UNCHANGED <<state, faults>>
       \/ /\ path => Fault
          /\ ~path => UNCHANGED faults
          /\ watching' = FALSE
          /\ pc' = WaitFailed /\ UNCHANGED state
    /\ UNCHANGED <<storeVars, feVars, old, fired, rounds, callVars, ioctl>>

----------------------------------------------------------------------------
\* VkbdInitialize: every entry of the table is filled in.
VkbdInitialize == operations' = TRUE

\* FrontendEnable after the close: a protocol that cannot be read is 0, and
\* only 0 is known.
ReadProtocol ==
    /\ pc = "protocol"
    /\ \E p \in Protocol :
          \/ p = 0 /\ VkbdInitialize /\ pc' = "create"
          \/ p # 0 /\ UNCHANGED operations /\ pc' = "release"
    /\ UNCHANGED <<storeVars, connected, context, pathVars, acquired, linkVars,
                   waitVars, callVars, faults, ioctl>>

\* Operations.Create (Vkbd_Create), then __FrontendConnect.
Create ==
    /\ pc = "create"
    /\ \/ /\ context' = TRUE
          /\ pc' = "paths" /\ caller' = "connect" /\ state' = "Unknown"
          /\ UNCHANGED <<operations, faults>>
       \/ /\ operations' = FALSE
          /\ pc' = "release" /\ Fault
          /\ UNCHANGED <<context, caller, state>>
    /\ UNCHANGED <<storeVars, connected, pathVars, acquired, linkVars, old, watching,
                   fired, rounds, phase, resuming, ioctl>>

\* Operations.Connect (Vkbd_Connect): one resource after the other, the third
\* the access of the backend's domain; a failure gives back those taken
\* before it.
Connect ==
    /\ pc = "connect"
    /\ \/ /\ stage < AllResources /\ stage' = stage + 1
          /\ granted' = IF stage' = 3 THEN domain ELSE granted
          /\ UNCHANGED <<pc, faults>>
       \/ /\ stage = AllResources /\ pc' = "start"
          /\ UNCHANGED <<linkVars, faults>>
       \/ /\ stage < AllResources /\ pc' = "unwind" /\ Fault
          /\ UNCHANGED linkVars
    /\ UNCHANGED <<storeVars, connected, context, operations, pathVars, acquired,
                   waitVars, callVars, ioctl>>

\* Mutant of ConnectUnwind: the resource taken first is not given back.
ConnectUnwindLeaks ==
    /\ pc = "unwind"
    /\ \/ stage > 1 /\ stage' = stage - 1 /\ granted' = 0 /\ UNCHANGED pc
       \/ stage <= 1 /\ pc' = "destroy" /\ UNCHANGED linkVars
    /\ UNCHANGED <<storeVars, connected, context, operations, pathVars, acquired,
                   waitVars, callVars, faults, ioctl>>

\* The channel is the last resource, so the access goes with the first step.
ConnectUnwind ==
    /\ pc = "unwind"
    /\ \/ stage > 0 /\ stage' = stage - 1 /\ granted' = 0 /\ UNCHANGED pc
       \/ stage = 0 /\ pc' = "destroy" /\ UNCHANGED linkVars
    /\ UNCHANGED <<storeVars, connected, context, operations, pathVars, acquired,
                   waitVars, callVars, faults, ioctl>>

\* The transaction loop: a failed write aborts the transaction and starts
\* another, a conflict starts another, any other failure ends the loop.
TransactionStart ==
    /\ pc = "start"
    /\ \/ pc' = "write" /\ UNCHANGED faults
       \/ pc' = "disconnect" /\ Fault
    /\ UNCHANGED <<storeVars, feVars, waitVars, callVars, ioctl>>

Write(next) ==
    /\ pc = "write"
    /\ pc' = next
    /\ UNCHANGED <<storeVars, feVars, waitVars, callVars, faults, ioctl>>

WriteStore == Write("commit")
WriteFails == Write("abort")

\* The result of the TransactionEnd that aborts is ignored.
Abort ==
    /\ pc = "abort"
    /\ pc' = "start"
    /\ UNCHANGED <<storeVars, feVars, waitVars, callVars, faults, ioctl>>

Commit ==
    /\ pc = "commit"
    /\ published' = TRUE /\ pc' = "setConnected"
    /\ UNCHANGED <<fe, be, unseen, backendId, feVars, waitVars, callVars, faults,
                   ioctl>>

\* Mutant of CommitFails: a conflict is taken for success.
CommitFailsNoRetry ==
    /\ pc = "commit"
    /\ \/ pc' = "setConnected" /\ UNCHANGED faults
       \/ pc' = "disconnect" /\ Fault
    /\ UNCHANGED <<storeVars, feVars, waitVars, callVars, ioctl>>

CommitFails ==
    /\ pc = "commit"
    /\ \/ pc' = "start" /\ UNCHANGED faults
       \/ pc' = "disconnect" /\ Fault
    /\ UNCHANGED <<storeVars, feVars, waitVars, callVars, ioctl>>

\* The last step of a FrontendEnable that succeeds.
Connected ==
    /\ pc = "connected"
    /\ connected' = TRUE
    /\ pc' = "idle"
    /\ UNCHANGED <<storeVars, context, operations, pathVars, acquired, linkVars,
                   waitVars, callVars, faults, ioctl>>

----------------------------------------------------------------------------
\* The end of FrontendDisable, and of a FrontendEnable that fails after
\* Create: Operations.Disconnect (Vkbd_Disconnect), Operations.Destroy,
\* Operations zeroed; FrontendDisable then closes, FrontendEnable releases.
Disconnect ==
    /\ pc = "disconnect"
    /\ stage' = 0 /\ granted' = 0
    /\ published' = FALSE
    /\ pc' = "destroy"
    /\ UNCHANGED <<fe, be, unseen, backendId, connected, context, operations,
                   pathVars, acquired, waitVars, callVars, faults, ioctl>>

Destroy ==
    /\ pc = "destroy"
    /\ context' = FALSE
    /\ pc' = "zero"
    /\ UNCHANGED <<storeVars, connected, operations, pathVars, acquired, linkVars,
                   waitVars, callVars, faults, ioctl>>

ZeroOperations ==
    /\ pc = "zero"
    /\ operations' = FALSE
    /\ \/ phase = "enable" /\ pc' = "release" /\ UNCHANGED <<caller, state>>
       \/ /\ phase = "disable"
          /\ pc' = "paths" /\ caller' = "close" /\ state' = "Unknown"
    /\ UNCHANGED <<storeVars, connected, context, pathVars, acquired, linkVars, old,
                   watching, fired, rounds, phase, resuming, faults, ioctl>>

\* The ASSERT of FdoSuspendCallback fails when its FrontendEnable does.
Release ==
    /\ pc = "release"
    /\ acquired' = FALSE
    /\ pc' = CASE phase = "disable"              -> "disabled"
               [] phase = "enable" /\ resuming -> "resumeFailed"
               [] OTHER                        -> "idle"
    /\ UNCHANGED <<storeVars, connected, context, operations, pathVars, linkVars,
                   waitVars, callVars, faults, ioctl>>

\* Mutant of Disabled: Connected is not reset.
DisabledStaysConnected ==
    /\ pc = "disabled"
    /\ pc' = IF resuming THEN "enable" ELSE "idle"
    /\ UNCHANGED <<storeVars, feVars, waitVars, callVars, faults, ioctl>>

\* The last step of FrontendDisable; FdoSuspendCallback goes on.
Disabled ==
    /\ pc = "disabled"
    /\ connected' = FALSE
    /\ pc' = IF resuming THEN "enable" ELSE "idle"
    /\ UNCHANGED <<storeVars, context, operations, pathVars, acquired, linkVars,
                   waitVars, callVars, faults, ioctl>>

----------------------------------------------------------------------------
\* FrontendGetDeviceAttributes and its like, in the thread of an IOCTL:
\* Connected is tested, then Context is asserted and used.
IoctlEnter ==
    /\ ~ioctl /\ connected
    /\ ioctl' = TRUE
    /\ UNCHANGED <<storeVars, feVars, waitVars, callVars, pc, faults>>

IoctlCall ==
    /\ ioctl
    /\ ioctl' = FALSE
    /\ pc' = IF context THEN pc ELSE "noContext"
    /\ UNCHANGED <<storeVars, feVars, waitVars, callVars, faults>>

Step == \/ UpdatePaths \/ SetClosing \/ SetClosed \/ SetConnected
        \/ Watch \/ WaitEvent \/ ReadState
        \/ ReadProtocol \/ Create \/ Connect \/ ConnectUnwind
        \/ TransactionStart \/ WriteStore \/ WriteFails \/ Abort
        \/ Commit \/ CommitFails \/ Connected
        \/ Disconnect \/ Destroy \/ ZeroOperations \/ Release \/ Disabled
        \/ (pc = "enable" /\ EnableStart)

Next == EnableStart \/ DisableStart \/ ResumeStart \/ Step \/ Backend
        \/ IoctlEnter \/ IoctlCall

Spec == Init /\ [][Next]_vars

\* The thread inside an operation keeps running; the backend need not.  Of
\* the store, that it does not fail the same write for ever, nor find a
\* conflict for ever: the loop has no other end.
FairSpec == Spec /\ WF_vars(Step) /\ SF_vars(WriteStore) /\ SF_vars(Commit)

----------------------------------------------------------------------------
XenbusState == {"Unknown", "Initialising", "InitWait", "Initialised",
                "Connected", "Closing", "Closed", "Reconfiguring",
                "Reconfigured"}

Label == {"idle", "enable", "paths", "setClosing", "setClosed",
          "setConnected", "watch", "wait", "read", "protocol", "create",
          "connect", "unwind", "start", "write", "abort", "commit", "connected",
          "disconnect", "destroy", "zero", "release", "disabled",
          "resumeFailed", "noContext"}

\* The types of the variables.
TypeOK ==
    /\ {fe, be, state, old} \subseteq XenbusState
    /\ {unseen, published, connected, context, operations, path, acquired,
        resuming, watching, fired, ioctl} \subseteq BOOLEAN
    /\ backendId \in Domain /\ {domain, granted} \subseteq Domain \cup {0}
    /\ stage \in 0 .. AllResources
    /\ pc \in Label
    /\ phase \in {"enable", "disable"}
    /\ caller \in {"close", "connect"}
    /\ rounds \in 0 .. WaitRounds
    /\ faults \in 0 .. MaxFaults

\* Whatever calls failed on the way, an operation that is over left the
\* frontend either with everything it needs or with nothing at all.
AllOrNothing ==
    pc = "idle" =>
        /\ ~watching
        /\ acquired = connected /\ context = connected
        /\ operations = connected /\ published = connected
        /\ stage = IF connected THEN AllResources ELSE 0

\* From the end of __FrontendClose until the frontend announces the new ring,
\* the backend is detached from the old one: it is in Closed and has nothing
\* left to react to but the Closed that keeps it there.
ClosedBeforeConnect ==
    (/\ phase = "enable"
     /\ \/ pc \in {"protocol", "create", "connect", "start", "write", "abort",
                   "commit", "setConnected"}
        \/ pc = "paths" /\ caller = "connect")
    => fe = "Closed" /\ be = "Closed"

\* The frontend announces Connected only when the keys the backend will read
\* are committed and name the page and port it holds.
AnnouncedWhenReady ==
    [][ fe' = "Connected" /\ fe # "Connected"
            => published /\ stage = AllResources /\ context ]_vars

\* The access to the page is permitted to the domain the store names, after a
\* migration to a host where the backend lives in another one too, although
\* __FrontendUpdatePaths may succeed without reading the domain.
GrantedToBackend ==
    /\ granted # 0 <=> stage >= 3
    /\ granted \in {0, backendId} \/ pc = "disconnect"

\* The backend finds the keys of a ring, a channel and a context that are
\* there.
Usable == published /\ stage = AllResources /\ context

Operation == CASE pc = "idle"                          -> "none"
               [] pc \in {"resumeFailed", "noContext"} -> "dead"
               [] pc = "enable"                        -> "enable"
               [] OTHER                                -> phase

\* Refinement: to its callers the handshake, with all its failures, is a link
\* that is made in an enable, broken in a disable and left alone in between.
Link == INSTANCE Attachment WITH usable <- Usable, operation <- Operation

\* FrontendEnable and FrontendDisable keep the promise of Attachment.
LinkSpec == Link!Spec

\* FrontendEnable, FrontendDisable and the resume return, or fail an ASSERT,
\* even with a backend that never reacts again and with any number of
\* transactions that fail.
OperationReturns == pc # "idle" ~> pc \in {"idle", "resumeFailed", "noContext"}

\* "ASSERT(NT_SUCCESS(status))" at the end of FdoSuspendCallback: the frontend
\* is connected again when the callback is over.
ResumeSucceeds == pc # "resumeFailed"

\* "ASSERT3P(Frontend->Context, !=, NULL)" in the functions an IOCTL calls.
IoctlHasContext == ioctl => context
============================================================================
