----------------------------- MODULE IrpCache ------------------------------
(***************************************************************************)
(* The read path of fdo.c: IOCTL_HID_READ_REPORT requests are cached by    *)
(* the dispatching threads, taken out by FdoCompleteRead in the DPC, and   *)
(* flushed by FdoPauseData in the thread of a PnP or power request.        *)
(*                                                                         *)
(* A step is what one thread does between two points where another can     *)
(* run: the unlocked read of Enabled, the section under Fdo->Lock, the     *)
(* IoCompleteRequest after the unlock.                                     *)
(***************************************************************************)
EXTENDS Slots

CONSTANTS Irp,          \* the IRPs HIDCLASS reads with
          NoIrp,        \* NULL
          Completer,    \* threads that run FdoCompleteRead
          Pauser,       \* the thread that runs FdoPauseData, FdoResumeData
          MAXIRPCACHE

ASSUME CacheAssumption ==
    /\ MAXIRPCACHE \in Nat \ {0}
    /\ NoIrp \notin Irp
    /\ Pauser \notin Completer

VARIABLES enabled,      \* Fdo->Enabled
          irps,         \* Fdo->Irps
          dispatch,     \* where the thread dispatching each IRP is
          owner,        \* who may touch the IRP: its client or the driver
          held,         \* the IRP each taker has uncached and not completed
          pausing,      \* FdoPauseData is running
          late          \* history: IRPs past the Enabled test at the pause

vars == <<enabled, irps, dispatch, owner, held, pausing, late>>

Taker == Completer \cup {Pauser}

Cached == Entries(irps, MAXIRPCACHE, NoIrp)

\* Mutant: the device extension is not zeroed when it is created.
InitUnzeroed ==
    /\ enabled = FALSE
    /\ irps = [i \in Slot(MAXIRPCACHE) |-> "garbage"]
    /\ dispatch = [r \in Irp |-> "idle"]
    /\ owner = [r \in Irp |-> "client"]
    /\ held = [t \in Taker |-> NoIrp]
    /\ pausing = FALSE
    /\ late = {}

\* FdoCreate: the zeroed device extension.
Init == /\ enabled = FALSE
        /\ irps = [i \in Slot(MAXIRPCACHE) |-> NoIrp]
        /\ dispatch = [r \in Irp |-> "idle"]
        /\ owner = [r \in Irp |-> "client"]
        /\ held = [t \in Taker |-> NoIrp]
        /\ pausing = FALSE
        /\ late = {}

----------------------------------------------------------------------------
\* The client (HIDCLASS) sends a read it owns down to the driver.
Submit(r) ==
    /\ dispatch[r] = "idle" /\ owner[r] = "client"
    /\ dispatch' = [dispatch EXCEPT ![r] = "check"]
    /\ owner' = [owner EXCEPT ![r] = "driver"]
    /\ UNCHANGED <<enabled, irps, held, pausing, late>>

\* Mutant: reads are let in whatever Enabled is.
CheckNothing(r) ==
    /\ dispatch[r] = "check"
    /\ dispatch' = [dispatch EXCEPT ![r] = "cache"]
    /\ UNCHANGED <<enabled, irps, owner, held, pausing, late>>

\* __FdoCache: Enabled is read outside the lock.
CheckEnabled(r) ==
    /\ dispatch[r] = "check"
    /\ dispatch' = [dispatch EXCEPT ![r] = IF enabled THEN "cache"
                                                      ELSE "complete"]
    /\ UNCHANGED <<enabled, irps, owner, held, pausing, late>>

\* __FdoCache under the lock: the first NULL slot takes the IRP; with no such
\* slot the request fails with STATUS_UNSUCCESSFUL.
CacheIrp(r) ==
    LET free == {i \in Slot(MAXIRPCACHE) : irps[i] = NoIrp}
    IN  /\ dispatch[r] = "cache"
        /\ dispatch' = [dispatch EXCEPT ![r] = "complete"]
        /\ \/ \E i \in Slot(MAXIRPCACHE) :
                /\ IsFirst(i, free)
                /\ irps' = [irps EXCEPT ![i] = r]
           \/ free = {} /\ UNCHANGED irps
        /\ UNCHANGED <<enabled, owner, held, pausing, late>>

\* IoCompleteRequest: the IRP is its client's again.
IoCompleteRequest(r) == owner' = [owner EXCEPT ![r] = "client"]

\* The end of FdoDispatchControl.  No result of __FdoCache is STATUS_PENDING,
\* so the IRP is completed whether it was cached or not, and the call of
\* FrontendReadReport under "if (status == STATUS_PENDING)" is never made.
EndDispatch(r) ==
    /\ dispatch[r] = "complete"
    /\ dispatch' = [dispatch EXCEPT ![r] = "idle"]
    /\ IoCompleteRequest(r)
    /\ UNCHANGED <<enabled, irps, held, pausing, late>>

\* Mutant: the slot is cleared and nothing moves down.
UncacheInPlace(t) ==
    \E i \in Slot(MAXIRPCACHE) :
        /\ IsFirst(i, Used(irps, MAXIRPCACHE, NoIrp))
        /\ held' = [held EXCEPT ![t] = irps[i]]
        /\ irps' = [irps EXCEPT ![i] = NoIrp]

\* __FdoUncache: under the lock, the first non-NULL slot is handed to t and
\* the slots above it move down.
Uncache(t) ==
    \E i \in Slot(MAXIRPCACHE) :
        /\ IsFirst(i, Used(irps, MAXIRPCACHE, NoIrp))
        /\ held' = [held EXCEPT ![t] = irps[i]]
        /\ irps' = ShiftDown(irps, MAXIRPCACHE, NoIrp, i)

\* FdoCompleteRead in the DPC.  With nothing cached it returns
\* STATUS_DEVICE_NOT_READY and changes nothing here.
CompleteReadTake(c) ==
    /\ held[c] = NoIrp
    /\ Uncache(c)
    /\ UNCHANGED <<enabled, dispatch, owner, pausing, late>>

CompleteReadFinish(c) ==
    /\ held[c] # NoIrp
    /\ IoCompleteRequest(held[c])
    /\ held' = [held EXCEPT ![c] = NoIrp]
    /\ UNCHANGED <<enabled, irps, dispatch, pausing, late>>

\* Mutant: the flush starts with Enabled still set.
PauseStartEnabled ==
    /\ ~pausing
    /\ pausing' = TRUE
    /\ late' = {r \in Irp : dispatch[r] = "cache"}
    /\ UNCHANGED <<enabled, irps, dispatch, owner, held>>

\* FdoPauseData: Enabled = FALSE, then uncache and complete until the cache
\* is seen empty.  late records the threads that read Enabled before.
PauseStart ==
    /\ ~pausing
    /\ enabled' = FALSE
    /\ pausing' = TRUE
    /\ late' = {r \in Irp : dispatch[r] = "cache"}
    /\ UNCHANGED <<irps, dispatch, owner, held>>

PauseTake ==
    /\ pausing /\ held[Pauser] = NoIrp
    /\ Uncache(Pauser)
    /\ UNCHANGED <<enabled, dispatch, owner, pausing, late>>

PauseFinish ==
    /\ pausing /\ held[Pauser] # NoIrp
    /\ IoCompleteRequest(held[Pauser])
    /\ held' = [held EXCEPT ![Pauser] = NoIrp]
    /\ UNCHANGED <<enabled, irps, dispatch, pausing, late>>

PauseEnd ==
    /\ pausing /\ held[Pauser] = NoIrp
    /\ Cached = {}
    /\ pausing' = FALSE
    /\ UNCHANGED <<enabled, irps, dispatch, owner, held, late>>

\* FdoResumeData, by the same thread.
Resume ==
    /\ ~pausing
    /\ enabled' = TRUE
    /\ UNCHANGED <<irps, dispatch, owner, held, pausing, late>>

----------------------------------------------------------------------------
Dispatch(r) == CheckEnabled(r) \/ CacheIrp(r) \/ EndDispatch(r)

Pausing == PauseTake \/ PauseFinish \/ PauseEnd

Next == \/ \E r \in Irp : Submit(r) \/ Dispatch(r)
        \/ \E c \in Completer : CompleteReadTake(c) \/ CompleteReadFinish(c)
        \/ PauseStart \/ Pausing \/ Resume

Spec == Init /\ [][Next]_vars

\* A thread inside the driver keeps running.  Nothing makes the client send a
\* read, the backend send an event, or the system pause or resume.
Fairness == /\ \A r \in Irp : WF_vars(Dispatch(r))
            /\ \A c \in Completer : WF_vars(CompleteReadFinish(c))
            /\ WF_vars(Pausing)

FairSpec == Spec /\ Fairness

----------------------------------------------------------------------------
\* The types of the variables.
TypeOK == /\ enabled \in BOOLEAN
          /\ irps \in [Slot(MAXIRPCACHE) -> Irp \cup {NoIrp}]
          /\ dispatch \in [Irp -> {"idle", "check", "cache", "complete"}]
          /\ owner \in [Irp -> {"client", "driver"}]
          /\ held \in [Taker -> Irp \cup {NoIrp}]
          /\ pausing \in BOOLEAN
          /\ late \in SUBSET Irp

\* The scans of __FdoCache and __FdoUncache rely on the used slots being the
\* low ones: __FdoCache fills the first hole, which would let a young read
\* overtake an old one, if a shift ever left a hole below a used slot.
CacheCompact == IsCompact(irps, MAXIRPCACHE, NoIrp)

\* After FdoPauseData returned, and until FdoResumeData, a read can still sit
\* in the cache with nobody to complete it; but only a read whose dispatching
\* thread had read Enabled before the pause, and each of those at most once.
PausedResidue ==
    (~enabled /\ ~pausing) =>
        /\ Cached \subseteq late
        /\ IsDistinct(irps, MAXIRPCACHE, NoIrp)
        /\ \A r \in Cached : dispatch[r] # "cache"

\* FdoPauseData returns: clients that send their reads again at once cannot
\* keep its loop supplied, because Enabled is cleared before the loop.
PauseTerminates == pausing ~> ~pausing

\* An IRP about to be completed out of the cache has not been completed by
\* the dispatch that cached it: each submission is completed once.
CompletedOnce ==
    \A t \in Taker : held[t] # NoIrp => owner[held[t]] = "driver"

\* The cache is a bounded first-in first-out queue: a scan, a shift and an
\* unlock between uncaching and completing lose, reorder or repeat nothing.
Queue == INSTANCE ReadQueue WITH
            Capacity <- MAXIRPCACHE,
            queue <- AsSeq(irps, MAXIRPCACHE, NoIrp)

QueueSpec == Queue!Spec
============================================================================
