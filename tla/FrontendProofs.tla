-------------------------- MODULE FrontendProofs ---------------------------
(***************************************************************************)
(* Proofs about Frontend for any number of failing calls, any time limit,  *)
(* any set of protocols and any set of domains the backend may live in.    *)
(***************************************************************************)
EXTENDS Frontend, TLAPS

InWait == pc \in {"watch", "wait", "read"}

\* A XENHID_VKBD exists: from Operations.Create to Operations.Destroy.
HasContext ==
    \/ pc \in {"connect", "unwind", "start", "write", "abort", "commit",
               "setConnected", "connected", "disconnect", "destroy"}
    \/ (InWait \/ pc = "paths") /\ caller = "connect"

\* The four resources are held: from the end of Vkbd_Connect to
\* Vkbd_Disconnect.
HasResources ==
    \/ pc \in {"start", "write", "abort", "commit", "setConnected",
               "connected", "disconnect"}
    \/ InWait /\ caller = "connect"

\* Between the labels an operation stops at, where the thread is says what is
\* held.
HeldByPlace ==
    /\ pc \notin {"idle", "enable", "resumeFailed", "noContext"} =>
           /\ acquired <=> pc # "disabled"
           /\ connected <=> phase = "disable"
    /\ pc = "disabled" => connected
    /\ pc \in {"enable", "resumeFailed"} => ~connected /\ ~acquired
    /\ pc \notin {"idle", "noContext"} =>
           /\ context <=> HasContext
           /\ operations <=> HasContext \/ pc \in {"create", "zero"}
           /\ pc \notin {"connect", "unwind"} =>
                  stage = IF HasResources THEN AllResources ELSE 0
    /\ pc = "unwind" => stage < AllResources
    /\ pc = "noContext" => stage = 0
    /\ watching => pc \in {"wait", "read", "noContext"}

\* The keys name what is held from the commit on.
PublishedByPlace ==
    pc \notin {"idle", "disconnect", "noContext"} =>
        (published <=> \/ pc \in {"setConnected", "connected"}
                       \/ InWait /\ caller = "connect")

\* Which of the two callers of a wait or of __FrontendUpdatePaths it is, and
\* which operation.
CallerByPlace ==
    /\ InWait => /\ fe \in {"Closing", "Closed", "Connected"}
                 /\ caller = "connect" <=> fe = "Connected"
    /\ pc \in {"setClosing", "setClosed"} => caller = "close"
    /\ pc \in {"connect", "start", "write", "abort", "commit",
               "setConnected"} => caller = "connect"
    /\ \/ HasContext /\ pc \notin {"disconnect", "destroy"}
       \/ pc \in {"protocol", "create"}
       => phase = "enable"

\* The domain is the one the store names when the page is granted: a wait
\* succeeds only with a path, which was read together with the domain.
DomainRead ==
    /\ \/ pc \in {"setClosing", "setClosed"}
       \/ InWait /\ caller = "close"
       => (path => domain = backendId)
    /\ \/ pc \in {"protocol", "create", "connect"}
       \/ pc = "paths" /\ caller = "connect"
       => domain = backendId

TimeLeft == pc = "wait" => rounds < WaitRounds

\* TypeOK, in four parts.
StatesOK == {fe, be, state, old} \subseteq XenbusState

FlagsOK == {unseen, published, connected, context, operations, path, acquired,
            resuming, watching, fired, ioctl} \subseteq BOOLEAN

PlaceOK ==
    /\ backendId \in Domain /\ {domain, granted} \subseteq Domain \cup {0}
    /\ stage \in 0 .. AllResources
    /\ pc \in Label
    /\ phase \in {"enable", "disable"}
    /\ caller \in {"close", "connect"}

CountsOK ==
    /\ rounds \in 0 .. WaitRounds
    /\ faults \in 0 .. MaxFaults

IInv == /\ StatesOK /\ FlagsOK /\ PlaceOK /\ CountsOK
        /\ AllOrNothing
        /\ ClosedBeforeConnect
        /\ GrantedToBackend
        /\ HeldByPlace
        /\ PublishedByPlace
        /\ CallerByPlace
        /\ DomainRead
        /\ TimeLeft

----------------------------------------------------------------------------
\* Up to NextInvariant every leaf needs the invariant and the groups of
\* variables; it names the action and what the action calls.
USE FrontendAssumption
USE DEF IInv, StatesOK, FlagsOK, PlaceOK, CountsOK,
        AllOrNothing, ClosedBeforeConnect, GrantedToBackend,
        HeldByPlace, PublishedByPlace, CallerByPlace, DomainRead, TimeLeft,
        HasContext, HasResources, InWait, AllResources, XenbusState, Label,
        storeVars, pathVars, linkVars, feVars, waitVars, callVars

\* The invariant holds at first and in a step that changes nothing.
LEMMA InitInvariant ==
    ASSUME Init
    PROVE  IInv
  <1>1. StatesOK /\ FlagsOK
    BY DEF Init
  <1>2. PlaceOK /\ CountsOK
    BY DEF Init
  <1>3. AllOrNothing /\ ClosedBeforeConnect
    BY DEF Init
  <1>4. GrantedToBackend
    BY DEF Init
  <1>5. HeldByPlace /\ PublishedByPlace /\ CallerByPlace
    BY DEF Init
  <1>6. DomainRead /\ TimeLeft
    BY DEF Init
  <1> QED
    BY <1>1, <1>2, <1>3, <1>4, <1>5, <1>6

LEMMA StutterInvariant == IInv /\ UNCHANGED vars => IInv'
  BY DEF vars

\* A failing call leaves the number of those that may still fail in its range.
LEMMA FaultsCount ==
    ASSUME CountsOK, Fault \/ UNCHANGED faults
    PROVE  faults' \in 0 .. MaxFaults
  BY DEF Fault

----------------------------------------------------------------------------
\* Each action preserves the invariant, part by part.
LEMMA BackendInvariant ==
    ASSUME IInv, Backend
    PROVE  IInv'
  <1>1. StatesOK'
    BY DEF Backend, Answer
  <1>2. FlagsOK'
    BY DEF Backend, Answer
  <1>3. PlaceOK'
    BY DEF Backend, Answer
  <1>4. CountsOK'
    BY DEF Backend, Answer
  <1>5. (AllOrNothing /\ ClosedBeforeConnect /\ GrantedToBackend)'
    BY DEF Backend, Answer
  <1>6. HeldByPlace'
    BY DEF Backend, Answer
  <1>7. PublishedByPlace'
    BY DEF Backend, Answer
  <1>8. (CallerByPlace /\ DomainRead /\ TimeLeft)'
    BY DEF Backend, Answer
  <1> QED
    BY <1>1, <1>2, <1>3, <1>4, <1>5, <1>6, <1>7, <1>8

LEMMA EnableStartInvariant ==
    ASSUME IInv, EnableStart
    PROVE  IInv'
  <1>1. (StatesOK /\ FlagsOK /\ PlaceOK /\ CountsOK)'
    BY DEF EnableStart
  <1>2. (AllOrNothing /\ ClosedBeforeConnect /\ GrantedToBackend)'
    BY DEF EnableStart
  <1>3. HeldByPlace'
    BY DEF EnableStart
  <1>4. PublishedByPlace'
    BY DEF EnableStart
  <1>5. (CallerByPlace /\ DomainRead /\ TimeLeft)'
    BY DEF EnableStart
  <1> QED
    BY <1>1, <1>2, <1>3, <1>4, <1>5

LEMMA DisableStartInvariant ==
    ASSUME IInv, DisableStart
    PROVE  IInv'
  <1>1. (StatesOK /\ FlagsOK /\ PlaceOK /\ CountsOK)'
    BY DEF DisableStart
  <1>2. (AllOrNothing /\ ClosedBeforeConnect /\ GrantedToBackend)'
    BY DEF DisableStart
  <1>3. HeldByPlace'
    BY DEF DisableStart
  <1>4. PublishedByPlace'
    BY DEF DisableStart
  <1>5. (CallerByPlace /\ DomainRead /\ TimeLeft)'
    BY DEF DisableStart
  <1> QED
    BY <1>1, <1>2, <1>3, <1>4, <1>5

LEMMA ResumeStartInvariant ==
    ASSUME IInv, ResumeStart
    PROVE  IInv'
  <1>1. (StatesOK /\ FlagsOK /\ PlaceOK /\ CountsOK)'
    BY DEF ResumeStart
  <1>2. (AllOrNothing /\ ClosedBeforeConnect /\ GrantedToBackend)'
    BY DEF ResumeStart
  <1>3. HeldByPlace'
    BY DEF ResumeStart
  <1>4. PublishedByPlace'
    BY DEF ResumeStart
  <1>5. (CallerByPlace /\ DomainRead /\ TimeLeft)'
    BY DEF ResumeStart
  <1> QED
    BY <1>1, <1>2, <1>3, <1>4, <1>5

LEMMA UpdatePathsInvariant ==
    ASSUME IInv, UpdatePaths
    PROVE  IInv'
  <1>1. StatesOK'
    BY DEF UpdatePaths, AfterPaths, AfterClose, Fault
  <1>2. FlagsOK'
    BY DEF UpdatePaths, AfterPaths, AfterClose, Fault
  <1>3. PlaceOK'
    BY DEF UpdatePaths, AfterPaths, AfterClose, Fault
  <1>4. CountsOK'
    <2>1. Fault \/ UNCHANGED faults
      BY DEF UpdatePaths
    <2>2. UNCHANGED rounds
      BY DEF UpdatePaths
    <2> QED
      BY <2>1, <2>2, FaultsCount
  <1>5. (AllOrNothing /\ ClosedBeforeConnect /\ GrantedToBackend)'
    BY DEF UpdatePaths, AfterPaths, AfterClose, Fault
  <1>6. HeldByPlace'
    BY DEF UpdatePaths, AfterPaths, AfterClose, Fault
  <1>7. PublishedByPlace'
    BY DEF UpdatePaths, AfterPaths, AfterClose, Fault
  <1>8. (CallerByPlace /\ DomainRead /\ TimeLeft)'
    BY DEF UpdatePaths, AfterPaths, AfterClose, Fault
  <1> QED
    BY <1>1, <1>2, <1>3, <1>4, <1>5, <1>6, <1>7, <1>8

LEMMA SetClosingInvariant ==
    ASSUME IInv, SetClosing
    PROVE  IInv'
  <1>1. StatesOK'
    BY DEF SetClosing, SetState, AfterClose, Fault
  <1>2. FlagsOK'
    BY DEF SetClosing, SetState, AfterClose, Fault
  <1>3. PlaceOK'
    BY DEF SetClosing, SetState, AfterClose, Fault
  <1>4. CountsOK'
    BY DEF SetClosing, SetState, AfterClose, Fault
  <1>5. (AllOrNothing /\ ClosedBeforeConnect /\ GrantedToBackend)'
    BY DEF SetClosing, SetState, AfterClose, Fault
  <1>6. HeldByPlace'
    BY DEF SetClosing, SetState, AfterClose, Fault
  <1>7. PublishedByPlace'
    BY DEF SetClosing, SetState, AfterClose, Fault
  <1>8. (CallerByPlace /\ DomainRead /\ TimeLeft)'
    BY DEF SetClosing, SetState, AfterClose, Fault
  <1> QED
    BY <1>1, <1>2, <1>3, <1>4, <1>5, <1>6, <1>7, <1>8

LEMMA SetClosedInvariant ==
    ASSUME IInv, SetClosed
    PROVE  IInv'
  <1>1. StatesOK'
    BY DEF SetClosed, SetState, AfterClose, Fault
  <1>2. FlagsOK'
    BY DEF SetClosed, SetState, AfterClose, Fault
  <1>3. PlaceOK'
    BY DEF SetClosed, SetState, AfterClose, Fault
  <1>4. CountsOK'
    BY DEF SetClosed, SetState, AfterClose, Fault
  <1>5. (AllOrNothing /\ ClosedBeforeConnect /\ GrantedToBackend)'
    BY DEF SetClosed, SetState, AfterClose, Fault
  <1>6. HeldByPlace'
    BY DEF SetClosed, SetState, AfterClose, Fault
  <1>7. PublishedByPlace'
    BY DEF SetClosed, SetState, AfterClose, Fault
  <1>8. (CallerByPlace /\ DomainRead /\ TimeLeft)'
    BY DEF SetClosed, SetState, AfterClose, Fault
  <1> QED
    BY <1>1, <1>2, <1>3, <1>4, <1>5, <1>6, <1>7, <1>8

LEMMA SetConnectedInvariant ==
    ASSUME IInv, SetConnected
    PROVE  IInv'
  <1>1. StatesOK'
    BY DEF SetConnected, SetState, Fault
  <1>2. FlagsOK'
    BY DEF SetConnected, SetState, Fault
  <1>3. PlaceOK'
    BY DEF SetConnected, SetState, Fault
  <1>4. CountsOK'
    BY DEF SetConnected, SetState, Fault
  <1>5. (AllOrNothing /\ ClosedBeforeConnect /\ GrantedToBackend)'
    BY DEF SetConnected, SetState, Fault
  <1>6. HeldByPlace'
    BY DEF SetConnected, SetState, Fault
  <1>7. PublishedByPlace'
    BY DEF SetConnected, SetState, Fault
  <1>8. (CallerByPlace /\ DomainRead /\ TimeLeft)'
    BY DEF SetConnected, SetState, Fault
  <1> QED
    BY <1>1, <1>2, <1>3, <1>4, <1>5, <1>6, <1>7, <1>8

LEMMA WatchInvariant ==
    ASSUME IInv, Watch
    PROVE  IInv'
  <1>1. StatesOK'
    BY DEF Watch, WaitFailed, AfterClose, Fault
  <1>2. FlagsOK'
    BY DEF Watch, WaitFailed, AfterClose, Fault
  <1>3. PlaceOK'
    BY DEF Watch, WaitFailed, AfterClose, Fault
  <1>4. CountsOK'
    BY DEF Watch, WaitFailed, AfterClose, Fault
  <1>5. (AllOrNothing /\ ClosedBeforeConnect /\ GrantedToBackend)'
    BY DEF Watch, WaitFailed, AfterClose, Fault
  <1>6. HeldByPlace'
    BY DEF Watch, WaitFailed, AfterClose, Fault
  <1>7. PublishedByPlace'
    BY DEF Watch, WaitFailed, AfterClose, Fault
  <1>8. (CallerByPlace /\ DomainRead /\ TimeLeft)'
    BY DEF Watch, WaitFailed, AfterClose, Fault
  <1> QED
    BY <1>1, <1>2, <1>3, <1>4, <1>5, <1>6, <1>7, <1>8

LEMMA WaitEventInvariant ==
    ASSUME IInv, WaitEvent
    PROVE  IInv'
  <1>1. StatesOK'
    BY DEF WaitEvent
  <1>2. FlagsOK'
    BY DEF WaitEvent
  <1>3. PlaceOK'
    BY DEF WaitEvent
  <1>4. CountsOK'
    BY DEF WaitEvent
  <1>5. (AllOrNothing /\ ClosedBeforeConnect /\ GrantedToBackend)'
    BY DEF WaitEvent
  <1>6. HeldByPlace'
    BY DEF WaitEvent
  <1>7. PublishedByPlace'
    BY DEF WaitEvent
  <1>8. (CallerByPlace /\ DomainRead /\ TimeLeft)'
    BY DEF WaitEvent
  <1> QED
    BY <1>1, <1>2, <1>3, <1>4, <1>5, <1>6, <1>7, <1>8

LEMMA ReadStateInvariant ==
    ASSUME IInv, ReadState
    PROVE  IInv'
  <1>1. StatesOK'
    BY DEF ReadState, WaitOk, WaitFailed, AfterClose, Fault
  <1>2. FlagsOK'
    BY DEF ReadState, WaitOk, WaitFailed, AfterClose, Fault
  <1>3. PlaceOK'
    BY DEF ReadState, WaitOk, WaitFailed, AfterClose, Fault
  <1>4. CountsOK'
    BY DEF ReadState, WaitOk, WaitFailed, AfterClose, Fault
  <1>5. (AllOrNothing /\ ClosedBeforeConnect /\ GrantedToBackend)'
    BY DEF ReadState, WaitOk, WaitFailed, AfterClose, Fault
  <1>6. HeldByPlace'
    BY DEF ReadState, WaitOk, WaitFailed, AfterClose, Fault
  <1>7. PublishedByPlace'
    BY DEF ReadState, WaitOk, WaitFailed, AfterClose, Fault
  <1>8. (CallerByPlace /\ DomainRead /\ TimeLeft)'
    BY DEF ReadState, WaitOk, WaitFailed, AfterClose, Fault
  <1> QED
    BY <1>1, <1>2, <1>3, <1>4, <1>5, <1>6, <1>7, <1>8

LEMMA ReadProtocolInvariant ==
    ASSUME IInv, ReadProtocol
    PROVE  IInv'
  <1>1. (StatesOK /\ FlagsOK /\ PlaceOK /\ CountsOK)'
    BY DEF ReadProtocol, VkbdInitialize
  <1>2. (AllOrNothing /\ ClosedBeforeConnect /\ GrantedToBackend)'
    BY DEF ReadProtocol, VkbdInitialize
  <1>3. HeldByPlace'
    BY DEF ReadProtocol, VkbdInitialize
  <1>4. PublishedByPlace'
    BY DEF ReadProtocol, VkbdInitialize
  <1>5. (CallerByPlace /\ DomainRead /\ TimeLeft)'
    BY DEF ReadProtocol, VkbdInitialize
  <1> QED
    BY <1>1, <1>2, <1>3, <1>4, <1>5

LEMMA CreateInvariant ==
    ASSUME IInv, Create
    PROVE  IInv'
  <1>1. StatesOK'
    BY DEF Create, Fault
  <1>2. FlagsOK'
    BY DEF Create, Fault
  <1>3. PlaceOK'
    BY DEF Create, Fault
  <1>4. CountsOK'
    <2>1. Fault \/ UNCHANGED faults
      BY DEF Create
    <2>2. UNCHANGED rounds
      BY DEF Create
    <2> QED
      BY <2>1, <2>2, FaultsCount
  <1>5. (AllOrNothing /\ ClosedBeforeConnect /\ GrantedToBackend)'
    BY DEF Create, Fault
  <1>6. HeldByPlace'
    <2>1. CASE pc' = "paths"
      BY <2>1 DEF Create
    <2>2. CASE pc' = "release"
      BY <2>2 DEF Create
    <2> QED
      BY <2>1, <2>2 DEF Create
  <1>7. PublishedByPlace'
    BY DEF Create, Fault
  <1>8. (CallerByPlace /\ DomainRead /\ TimeLeft)'
    BY DEF Create, Fault
  <1> QED
    BY <1>1, <1>2, <1>3, <1>4, <1>5, <1>6, <1>7, <1>8

LEMMA ConnectInvariant ==
    ASSUME IInv, Connect
    PROVE  IInv'
  <1>1. (StatesOK /\ FlagsOK /\ PlaceOK /\ CountsOK)'
    BY DEF Connect, Fault
  <1>2. AllOrNothing'
    BY DEF Connect, Fault
  <1>3. ClosedBeforeConnect'
    BY DEF Connect, Fault
  <1>4. GrantedToBackend'
    BY DEF Connect, Fault
  <1>5. HeldByPlace'
    BY DEF Connect, Fault
  <1>6. PublishedByPlace'
    BY DEF Connect, Fault
  <1>7. (CallerByPlace /\ DomainRead /\ TimeLeft)'
    BY DEF Connect, Fault
  <1> QED
    BY <1>1, <1>2, <1>3, <1>4, <1>5, <1>6, <1>7

LEMMA ConnectUnwindInvariant ==
    ASSUME IInv, ConnectUnwind
    PROVE  IInv'
  <1>1. (StatesOK /\ FlagsOK /\ PlaceOK /\ CountsOK)'
    BY DEF ConnectUnwind
  <1>2. AllOrNothing'
    BY DEF ConnectUnwind
  <1>3. ClosedBeforeConnect'
    BY DEF ConnectUnwind
  <1>4. GrantedToBackend'
    BY DEF ConnectUnwind
  <1>5. HeldByPlace'
    BY DEF ConnectUnwind
  <1>6. PublishedByPlace'
    BY DEF ConnectUnwind
  <1>7. (CallerByPlace /\ DomainRead /\ TimeLeft)'
    BY DEF ConnectUnwind
  <1> QED
    BY <1>1, <1>2, <1>3, <1>4, <1>5, <1>6, <1>7

LEMMA TransactionStartInvariant ==
    ASSUME IInv, TransactionStart
    PROVE  IInv'
  <1>1. (StatesOK /\ FlagsOK /\ PlaceOK /\ CountsOK)'
    BY DEF TransactionStart, Fault
  <1>2. (AllOrNothing /\ ClosedBeforeConnect /\ GrantedToBackend)'
    BY DEF TransactionStart, Fault
  <1>3. HeldByPlace'
    BY DEF TransactionStart, Fault
  <1>4. PublishedByPlace'
    BY DEF TransactionStart, Fault
  <1>5. (CallerByPlace /\ DomainRead /\ TimeLeft)'
    BY DEF TransactionStart, Fault
  <1> QED
    BY <1>1, <1>2, <1>3, <1>4, <1>5

LEMMA WriteStoreInvariant ==
    ASSUME IInv, WriteStore
    PROVE  IInv'
  <1>1. (StatesOK /\ FlagsOK /\ PlaceOK /\ CountsOK)'
    BY DEF WriteStore, Write
  <1>2. (AllOrNothing /\ ClosedBeforeConnect /\ GrantedToBackend)'
    BY DEF WriteStore, Write
  <1>3. HeldByPlace'
    BY DEF WriteStore, Write
  <1>4. PublishedByPlace'
    BY DEF WriteStore, Write
  <1>5. (CallerByPlace /\ DomainRead /\ TimeLeft)'
    BY DEF WriteStore, Write
  <1> QED
    BY <1>1, <1>2, <1>3, <1>4, <1>5

LEMMA WriteFailsInvariant ==
    ASSUME IInv, WriteFails
    PROVE  IInv'
  <1>1. (StatesOK /\ FlagsOK /\ PlaceOK /\ CountsOK)'
    BY DEF WriteFails, Write
  <1>2. (AllOrNothing /\ ClosedBeforeConnect /\ GrantedToBackend)'
    BY DEF WriteFails, Write
  <1>3. HeldByPlace'
    BY DEF WriteFails, Write
  <1>4. PublishedByPlace'
    BY DEF WriteFails, Write
  <1>5. (CallerByPlace /\ DomainRead /\ TimeLeft)'
    BY DEF WriteFails, Write
  <1> QED
    BY <1>1, <1>2, <1>3, <1>4, <1>5

LEMMA AbortInvariant ==
    ASSUME IInv, Abort
    PROVE  IInv'
  <1>1. (StatesOK /\ FlagsOK /\ PlaceOK /\ CountsOK)'
    BY DEF Abort
  <1>2. (AllOrNothing /\ ClosedBeforeConnect /\ GrantedToBackend)'
    BY DEF Abort
  <1>3. HeldByPlace'
    BY DEF Abort
  <1>4. PublishedByPlace'
    BY DEF Abort
  <1>5. (CallerByPlace /\ DomainRead /\ TimeLeft)'
    BY DEF Abort
  <1> QED
    BY <1>1, <1>2, <1>3, <1>4, <1>5

LEMMA CommitInvariant ==
    ASSUME IInv, Commit
    PROVE  IInv'
  <1>1. (StatesOK /\ FlagsOK /\ PlaceOK /\ CountsOK)'
    BY DEF Commit
  <1>2. (AllOrNothing /\ ClosedBeforeConnect /\ GrantedToBackend)'
    BY DEF Commit
  <1>3. HeldByPlace'
    BY DEF Commit
  <1>4. PublishedByPlace'
    BY DEF Commit
  <1>5. (CallerByPlace /\ DomainRead /\ TimeLeft)'
    BY DEF Commit
  <1> QED
    BY <1>1, <1>2, <1>3, <1>4, <1>5

LEMMA CommitFailsInvariant ==
    ASSUME IInv, CommitFails
    PROVE  IInv'
  <1>1. (StatesOK /\ FlagsOK /\ PlaceOK /\ CountsOK)'
    BY DEF CommitFails, Fault
  <1>2. (AllOrNothing /\ ClosedBeforeConnect /\ GrantedToBackend)'
    BY DEF CommitFails, Fault
  <1>3. HeldByPlace'
    BY DEF CommitFails, Fault
  <1>4. PublishedByPlace'
    BY DEF CommitFails, Fault
  <1>5. (CallerByPlace /\ DomainRead /\ TimeLeft)'
    BY DEF CommitFails, Fault
  <1> QED
    BY <1>1, <1>2, <1>3, <1>4, <1>5

LEMMA ConnectedInvariant ==
    ASSUME IInv, Connected
    PROVE  IInv'
  <1>1. (StatesOK /\ FlagsOK /\ PlaceOK /\ CountsOK)'
    BY DEF Connected
  <1>2. (AllOrNothing /\ ClosedBeforeConnect /\ GrantedToBackend)'
    BY DEF Connected
  <1>3. HeldByPlace'
    BY DEF Connected
  <1>4. PublishedByPlace'
    BY DEF Connected
  <1>5. (CallerByPlace /\ DomainRead /\ TimeLeft)'
    BY DEF Connected
  <1> QED
    BY <1>1, <1>2, <1>3, <1>4, <1>5

LEMMA DisconnectInvariant ==
    ASSUME IInv, Disconnect
    PROVE  IInv'
  <1>1. StatesOK'
    BY DEF Disconnect
  <1>2. FlagsOK'
    BY DEF Disconnect
  <1>3. PlaceOK'
    BY DEF Disconnect
  <1>4. CountsOK'
    BY DEF Disconnect
  <1>5. (AllOrNothing /\ ClosedBeforeConnect /\ GrantedToBackend)'
    BY DEF Disconnect
  <1>6. HeldByPlace'
    BY DEF Disconnect
  <1>7. PublishedByPlace'
    BY DEF Disconnect
  <1>8. (CallerByPlace /\ DomainRead /\ TimeLeft)'
    BY DEF Disconnect
  <1> QED
    BY <1>1, <1>2, <1>3, <1>4, <1>5, <1>6, <1>7, <1>8

LEMMA DestroyInvariant ==
    ASSUME IInv, Destroy
    PROVE  IInv'
  <1>1. (StatesOK /\ FlagsOK /\ PlaceOK /\ CountsOK)'
    BY DEF Destroy
  <1>2. (AllOrNothing /\ ClosedBeforeConnect /\ GrantedToBackend)'
    BY DEF Destroy
  <1>3. HeldByPlace'
    BY DEF Destroy
  <1>4. PublishedByPlace'
    BY DEF Destroy
  <1>5. (CallerByPlace /\ DomainRead /\ TimeLeft)'
    BY DEF Destroy
  <1> QED
    BY <1>1, <1>2, <1>3, <1>4, <1>5

LEMMA ZeroOperationsInvariant ==
    ASSUME IInv, ZeroOperations
    PROVE  IInv'
  <1>1. (StatesOK /\ FlagsOK /\ PlaceOK /\ CountsOK)'
    BY DEF ZeroOperations
  <1>2. (AllOrNothing /\ ClosedBeforeConnect /\ GrantedToBackend)'
    BY DEF ZeroOperations
  <1>3. HeldByPlace'
    BY DEF ZeroOperations
  <1>4. PublishedByPlace'
    BY DEF ZeroOperations
  <1>5. (CallerByPlace /\ DomainRead /\ TimeLeft)'
    BY DEF ZeroOperations
  <1> QED
    BY <1>1, <1>2, <1>3, <1>4, <1>5

LEMMA ReleaseInvariant ==
    ASSUME IInv, Release
    PROVE  IInv'
  <1>1. (StatesOK /\ FlagsOK /\ PlaceOK /\ CountsOK)'
    BY DEF Release
  <1>2. (AllOrNothing /\ ClosedBeforeConnect /\ GrantedToBackend)'
    BY DEF Release
  <1>3. HeldByPlace'
    <2>1. CASE phase = "disable"
      BY <2>1 DEF Release
    <2>2. CASE phase = "enable" /\ resuming
      BY <2>2 DEF Release
    <2>3. CASE phase = "enable" /\ ~resuming
      BY <2>3 DEF Release
    <2> QED
      BY <2>1, <2>2, <2>3
  <1>4. PublishedByPlace'
    BY DEF Release
  <1>5. (CallerByPlace /\ DomainRead /\ TimeLeft)'
    BY DEF Release
  <1> QED
    BY <1>1, <1>2, <1>3, <1>4, <1>5

LEMMA DisabledInvariant ==
    ASSUME IInv, Disabled
    PROVE  IInv'
  <1>1. (StatesOK /\ FlagsOK /\ PlaceOK /\ CountsOK)'
    BY DEF Disabled
  <1>2. (AllOrNothing /\ ClosedBeforeConnect /\ GrantedToBackend)'
    BY DEF Disabled
  <1>3. HeldByPlace'
    BY DEF Disabled
  <1>4. PublishedByPlace'
    BY DEF Disabled
  <1>5. (CallerByPlace /\ DomainRead /\ TimeLeft)'
    BY DEF Disabled
  <1> QED
    BY <1>1, <1>2, <1>3, <1>4, <1>5

LEMMA IoctlEnterInvariant ==
    ASSUME IInv, IoctlEnter
    PROVE  IInv'
  <1>1. (StatesOK /\ FlagsOK /\ PlaceOK /\ CountsOK)'
    BY DEF IoctlEnter
  <1>2. (AllOrNothing /\ ClosedBeforeConnect /\ GrantedToBackend)'
    BY DEF IoctlEnter
  <1>3. HeldByPlace'
    BY DEF IoctlEnter
  <1>4. PublishedByPlace'
    BY DEF IoctlEnter
  <1>5. (CallerByPlace /\ DomainRead /\ TimeLeft)'
    BY DEF IoctlEnter
  <1> QED
    BY <1>1, <1>2, <1>3, <1>4, <1>5

LEMMA IoctlCallInvariant ==
    ASSUME IInv, IoctlCall
    PROVE  IInv'
  <1>1. (StatesOK /\ FlagsOK /\ PlaceOK /\ CountsOK)'
    BY DEF IoctlCall
  <1>2. (AllOrNothing /\ ClosedBeforeConnect /\ GrantedToBackend)'
    BY DEF IoctlCall
  <1>3. HeldByPlace'
    BY DEF IoctlCall
  <1>4. PublishedByPlace'
    BY DEF IoctlCall
  <1>5. (CallerByPlace /\ DomainRead /\ TimeLeft)'
    BY DEF IoctlCall
  <1> QED
    BY <1>1, <1>2, <1>3, <1>4, <1>5

LEMMA StepInvariant ==
    ASSUME IInv, Step
    PROVE  IInv'
  BY EnableStartInvariant,
       UpdatePathsInvariant, SetClosingInvariant, SetClosedInvariant,
       SetConnectedInvariant, WatchInvariant, WaitEventInvariant,
       ReadStateInvariant, ReadProtocolInvariant, CreateInvariant,
       ConnectInvariant, ConnectUnwindInvariant,
       TransactionStartInvariant, WriteStoreInvariant,
       WriteFailsInvariant, AbortInvariant, CommitInvariant,
       CommitFailsInvariant, ConnectedInvariant, DisconnectInvariant,
       DestroyInvariant, ZeroOperationsInvariant, ReleaseInvariant,
       DisabledInvariant
  DEF Step

LEMMA NextInvariant == IInv /\ [Next]_vars => IInv'
  BY StutterInvariant, StepInvariant,
       BackendInvariant, EnableStartInvariant, DisableStartInvariant,
       ResumeStartInvariant, IoctlEnterInvariant, IoctlCallInvariant
  DEF Next

----------------------------------------------------------------------------
HIDE DEF IInv, StatesOK, FlagsOK, PlaceOK, CountsOK,
         AllOrNothing, ClosedBeforeConnect, GrantedToBackend,
         HeldByPlace, PublishedByPlace, CallerByPlace, DomainRead, TimeLeft,
         HasContext, HasResources, InWait, AllResources, XenbusState, Label,
         storeVars, pathVars, linkVars, feVars, waitVars, callVars

\* The inductive invariant: where the thread is says what is held, what is
\* published, for whom it works and which domain was read.
THEOREM FrontendInductive == Spec => []IInv
  BY InitInvariant, NextInvariant, PTL DEF Spec

\* The variables keep their types; no wait is longer than its time limit.
THEOREM FrontendTypeCorrect == Spec => []TypeOK
  <1>1. IInv => TypeOK
    BY DEF IInv, TypeOK, StatesOK, FlagsOK, PlaceOK, CountsOK
  <1> QED
    BY <1>1, FrontendInductive, PTL

\* FrontendEnable and FrontendDisable leave everything or nothing, however
\* many of their calls fail.
THEOREM NothingHalfHeld == Spec => []AllOrNothing
  <1>1. IInv => AllOrNothing
    BY DEF IInv
  <1> QED
    BY <1>1, FrontendInductive, PTL

\* __FrontendConnect runs against a backend that is in Closed and stays there.
THEOREM OldRingClosed == Spec => []ClosedBeforeConnect
  <1>1. IInv => ClosedBeforeConnect
    BY DEF IInv
  <1> QED
    BY <1>1, FrontendInductive, PTL

\* The page is granted to the domain of the backend that is there now.
THEOREM RightDomain == Spec => []GrantedToBackend
  <1>1. IInv => GrantedToBackend
    BY DEF IInv
  <1> QED
    BY <1>1, FrontendInductive, PTL

\* Connected is written to the store only by __FrontendConnect after a commit
\* that succeeded, while every resource the keys name is held.
THEOREM ReadyFirst == Spec => AnnouncedWhenReady
  <1>1. IInv /\ [Next]_vars =>
          [ fe' = "Connected" /\ fe # "Connected"
                => published /\ stage = AllResources /\ context ]_vars
    <2> SUFFICES ASSUME IInv, Next, fe' = "Connected", fe # "Connected"
                 PROVE  published /\ stage = AllResources /\ context
      BY DEF vars, storeVars
    <2>1. SetConnected
      BY DEF Next, Step, Backend, EnableStart, DisableStart, ResumeStart,
             UpdatePaths, SetClosing, SetClosed, SetState, Watch, WaitEvent,
             ReadState, ReadProtocol, Create, Connect, ConnectUnwind,
             TransactionStart, WriteStore, WriteFails, Write, Abort, Commit,
             CommitFails, Connected, Disconnect, Destroy, ZeroOperations,
             Release, Disabled, IoctlEnter, IoctlCall, storeVars
    <2>2. pc = "setConnected"
      BY <2>1 DEF SetConnected, SetState
    <2> QED
      BY <2>2 DEF IInv, HeldByPlace, PublishedByPlace, HasContext, HasResources
  <1> QED
    BY <1>1, FrontendInductive, PTL DEF Spec, AnnouncedWhenReady

----------------------------------------------------------------------------
\* Where neither an operation begins nor one has ended.
Inside == pc \notin {"idle", "enable", "resumeFailed", "noContext"}

LEMMA LinkInit == Init => Link!Init
  BY DEF Init, Link!Init, Usable, Operation

\* Most steps inside an operation are none of Attachment: neither Connected
\* nor the keys, the resources and the context change, or the keys are not
\* there.
LEMMA LinkQuiet ==
    ASSUME IInv,
           \/ UpdatePaths \/ SetClosing \/ SetClosed \/ SetConnected
           \/ Watch \/ WaitEvent \/ ReadState
           \/ ReadProtocol \/ Create \/ Connect \/ ConnectUnwind
           \/ TransactionStart \/ WriteStore \/ WriteFails \/ Abort
           \/ CommitFails \/ Destroy \/ ZeroOperations
    PROVE  UNCHANGED <<connected, Usable, Operation>>
  <1> DEFINE Quiet == /\ Inside /\ Inside'
                      /\ UNCHANGED <<connected, phase, published>>
                      /\ \/ UNCHANGED <<stage, context>>
                         \/ ~published
  <1> USE DEF Inside, storeVars, feVars, pathVars, linkVars, callVars
  <1>1. UpdatePaths => Quiet
    BY DEF UpdatePaths, AfterPaths, AfterClose, IInv, PlaceOK
  <1>2. (SetClosing \/ SetClosed \/ SetConnected) => Quiet
    BY DEF SetClosing, SetClosed, SetConnected, SetState, AfterClose
  <1>3. Watch => Quiet
    BY DEF Watch, WaitFailed, AfterClose
  <1>4. WaitEvent => Quiet
    BY DEF WaitEvent
  <1>5. ReadState => Quiet
    BY DEF ReadState, WaitOk, WaitFailed, AfterClose
  <1>6. ReadProtocol => Quiet
    BY DEF ReadProtocol
  <1>7. (Create \/ Connect \/ ConnectUnwind) => Quiet
    BY DEF Create, Connect, ConnectUnwind, IInv, PublishedByPlace, InWait
  <1>8. (\/ TransactionStart \/ WriteStore \/ WriteFails \/ Abort
         \/ CommitFails) => Quiet
    BY DEF TransactionStart, WriteStore, WriteFails, Write, Abort, CommitFails
  <1>9. (Destroy \/ ZeroOperations) => Quiet
    BY DEF Destroy, ZeroOperations, IInv, PublishedByPlace, InWait
  <1>10. Quiet
    BY <1>1, <1>2, <1>3, <1>4, <1>5, <1>6, <1>7, <1>8, <1>9
  <1> QED
    BY <1>10 DEF Usable, Operation

\* Every other step is one of Attachment.
LEMMA LinkStep == IInv /\ [Next]_vars => [Link!Next]_(Link!vars)
  <1> SUFFICES ASSUME IInv, [Next]_vars
               PROVE  Link!Next \/ UNCHANGED <<connected, Usable, Operation>>
    BY DEF Link!vars
  <1> USE DEF storeVars, feVars, pathVars, linkVars, callVars
  <1>1. CASE EnableStart
    <2>1. CASE pc = "idle"
      <3>1. Link!EnableBegins
        BY <1>1, <2>1 DEF EnableStart, Link!EnableBegins, Usable, Operation
      <3> QED
        BY <3>1 DEF Link!Next
    <2>2. CASE pc = "enable"
      BY <1>1, <2>2 DEF EnableStart, Usable, Operation
    <2> QED
      BY <1>1, <2>1, <2>2 DEF EnableStart
  <1>2. CASE DisableStart \/ ResumeStart
    <2>1. Usable /\ Usable'
      BY <1>2 DEF DisableStart, ResumeStart, Usable, IInv, AllOrNothing
    <2>2. Link!DisableBegins
      BY <1>2, <2>1 DEF DisableStart, ResumeStart, Link!DisableBegins, Operation
    <2> QED
      BY <2>2 DEF Link!Next
  <1>3. CASE Commit
    <2>1. ~connected /\ phase = "enable" /\ stage = AllResources /\ context
      BY <1>3 DEF Commit, IInv, HeldByPlace, CallerByPlace, HasContext,
                  HasResources
    <2>2. ~published
      BY <1>3 DEF Commit, IInv, PublishedByPlace, InWait
    <2>3. Link!Made
      BY <1>3, <2>1, <2>2 DEF Commit, Link!Made, Usable, Operation
    <2> QED
      BY <2>3 DEF Link!Next
  <1>4. CASE Connected
    <2>1. Usable /\ phase = "enable"
      BY <1>4 DEF Connected, Usable, IInv, HeldByPlace, PublishedByPlace,
                  CallerByPlace, HasContext, HasResources
    <2>2. Link!EnableEnds
      BY <1>4, <2>1 DEF Connected, Link!EnableEnds, Usable, Operation
    <2> QED
      BY <2>2 DEF Link!Next
  <1>5. CASE Disconnect
    <2>1. ~Usable'
      BY <1>5 DEF Disconnect, Usable
    <2>2. phase \in {"enable", "disable"}
      BY DEF IInv, PlaceOK
    <2>3. Operation = phase /\ Operation' = phase /\ connected' = connected
      BY <1>5 DEF Disconnect, Operation
    <2>4. Usable => Link!Broken
      BY <2>1, <2>2, <2>3 DEF Link!Broken
    <2> QED
      BY <2>1, <2>3, <2>4 DEF Link!Next, Usable
  <1>6. CASE Release
    <2>1. ~Usable /\ ~Usable'
      BY <1>6 DEF Release, Usable, IInv, PublishedByPlace, InWait
    <2>2. /\ phase \in {"enable", "disable"}
          /\ connected <=> phase = "disable"
          /\ connected \in BOOLEAN
      BY <1>6 DEF Release, IInv, PlaceOK, FlagsOK, HeldByPlace
    <2>3. CASE phase = "disable"
      <3>1. pc' = "disabled" /\ UNCHANGED <<connected, phase>>
        BY <1>6, <2>3 DEF Release
      <3>2. Operation' = Operation
        BY <1>6, <3>1 DEF Release, Operation
      <3> QED
        BY <2>1, <3>1, <3>2 DEF Usable
    <2>4. CASE phase = "enable" /\ resuming
      <3>1. pc' = "resumeFailed" /\ UNCHANGED connected
        BY <1>6, <2>4 DEF Release
      <3>2. Link!AssertFails
        BY <1>6, <2>1, <2>4, <3>1
        DEF Release, Link!AssertFails, Operation, Usable
      <3> QED
        BY <3>2 DEF Link!Next
    <2>5. CASE phase = "enable" /\ ~resuming
      <3>1. pc' = "idle" /\ UNCHANGED connected
        BY <1>6, <2>5 DEF Release
      <3>2. Link!EnableEnds
        BY <1>6, <2>1, <2>2, <2>5, <3>1
        DEF Release, Link!EnableEnds, Operation, Usable
      <3> QED
        BY <3>2 DEF Link!Next
    <2> QED
      BY <2>2, <2>3, <2>4, <2>5
  <1>7. CASE Disabled
    <2>1. ~Usable /\ ~Usable'
      BY <1>7 DEF Disabled, Usable, IInv, PublishedByPlace, InWait
    <2>2. phase = "disable"
      BY <1>7 DEF Disabled, IInv, HeldByPlace
    <2>3. Link!DisableEnds
      BY <1>7, <2>1, <2>2 DEF Disabled, Link!DisableEnds, Operation, Usable
    <2> QED
      BY <2>3 DEF Link!Next
  <1>8. CASE IoctlCall
    <2>1. CASE context
      BY <1>8, <2>1 DEF IoctlCall, Usable, Operation
    <2>2. CASE ~context
      <3>1. ~Usable /\ ~Usable' /\ connected' = connected /\ Operation' = "dead"
        BY <1>8, <2>2 DEF IoctlCall, Usable, Operation
      <3>2. CASE Operation = "dead"
        BY <3>1, <3>2 DEF Usable
      <3>3. CASE Operation # "dead"
        BY <3>1, <3>3 DEF Link!Next, Link!AssertFails, Usable
      <3> QED
        BY <3>2, <3>3
    <2> QED
      BY <2>1, <2>2
  <1>9. CASE Backend \/ IoctlEnter \/ UNCHANGED vars
    BY <1>9 DEF Backend, IoctlEnter, vars, Usable, Operation
  <1> QED
    BY <1>1, <1>2, <1>3, <1>4, <1>5, <1>6, <1>7, <1>8, <1>9, LinkQuiet
    DEF Next, Step

\* The handshake implements the attachment its callers rely on: a step of the
\* thread, of the backend or of an IOCTL is one step of Attachment or none.
THEOREM ImplementsAttachment == Spec => LinkSpec
  BY LinkInit, LinkStep, FrontendInductive, PTL DEF Spec, LinkSpec, Link!Spec
============================================================================
