------------------------------ MODULE VkbdRing -----------------------------
(***************************************************************************)
(* The shared page of vkbd.c: the backend writes input events to the ring, *)
(* VkbdPoll takes them out in a DPC that VkbdInterrupt queues, and         *)
(* Vkbd_Disconnect and Vkbd_Destroy give back the channel, the backend's   *)
(* access to the page, the grant reference, the page and the DPC.          *)
(*                                                                         *)
(* The indices in_prod and in_cons run through 0 .. IndexRange-1 and are   *)
(* reduced modulo XENKBD_IN_RING_LEN only to name a slot.  An event is its *)
(* number in the order of production.  Interrupts of the channel arrive on *)
(* one CPU, which also runs the DPC: VkbdPoll never runs twice at once.    *)
(* The backend maps the page through the grant and unmaps it when it likes *)
(* (it does when it sees the frontend Closing, which is after the          *)
(* disconnection); until then the access cannot be revoked.                *)
(***************************************************************************)
EXTENDS Integers

CONSTANTS RingLen,      \* XENKBD_IN_RING_LEN: 2048 / 40 = 51
          IndexRange,   \* 2^32, the range of uint32_t
          MaxEvents     \* bound: events the backend produces

\* 51 divides 2^32 - 1, so the index wraps one slot before the ring does.
ASSUME RingAssumption ==
    /\ RingLen \in Nat \ {0, 1}
    /\ IndexRange \in Nat
    /\ RingLen < IndexRange
    /\ IndexRange % RingLen = 1
    /\ MaxEvents \in Nat

VARIABLES
    ring,           \* the event last written to each slot
    inProd, inCons, \* Shared->in_prod, Shared->in_cons
    backend,        \* what the backend does next
    raised,         \* an interrupt of the event channel is pending
    queued,         \* the DPC is queued
    dpc,            \* where VkbdPoll is
    cons, prod,     \* its Cons and Prod
    page,           \* how far Vkbd_Disconnect and Vkbd_Destroy are
    mapped,         \* the backend has the page mapped
    permitted,      \* the grant reference lets the backend map it
    refused,        \* history: RevokeForeignAccess failed
    written,        \* history: events produced
    handled,        \* history: events passed to VkbdEvent
    late            \* history: an interrupt between the flush and the close

ringVars == <<ring, inProd, written>>
dpcVars == <<dpc, cons, prod, handled>>
grantVars == <<mapped, permitted, refused>>
vars == <<ringVars, inCons, backend, raised, queued, dpcVars, page, grantVars,
          late>>

Index == 0 .. IndexRange - 1

\* Mutant of Advance: the index does not wrap.
AdvanceUnwrapped(i) == i + 1

Advance(i) == (i + 1) % IndexRange

\* The page is still the driver's.
Present == page \notin {"freed", "destroyed"}

\* XENKBD_IN_RING_REF
SlotOf(i) == i % RingLen

\* Vkbd_Connect: a zeroed page and an open channel.
Init == /\ ring = [s \in 0 .. RingLen - 1 |-> 0]
        /\ inProd = 0 /\ inCons = 0
        /\ backend = "idle" /\ raised = FALSE
        /\ queued = FALSE
        /\ dpc = "idle" /\ cons = 0 /\ prod = 0
        /\ page = "connected" /\ mapped = TRUE /\ permitted = TRUE
        /\ refused = FALSE
        /\ written = 0 /\ handled = 0 /\ late = FALSE

----------------------------------------------------------------------------
\* The backend: it writes an event when in_cons leaves room for one, and
\* sends a notification through the channel after each.
Produce ==
    /\ backend = "idle" /\ mapped /\ written < MaxEvents
    /\ (inProd - inCons) % IndexRange < RingLen
    /\ ring' = [ring EXCEPT ![SlotOf(inProd)] = written]
    /\ inProd' = Advance(inProd)
    /\ written' = written + 1
    /\ backend' = "notify"
    /\ UNCHANGED <<inCons, raised, queued, dpcVars, page, grantVars, late>>

Notify ==
    /\ backend = "notify"
    /\ backend' = "idle"
    /\ raised' = (page \in {"connected", "flushed"})
    /\ UNCHANGED <<ringVars, inCons, queued, dpcVars, page, grantVars, late>>

\* VkbdInterrupt: KeInsertQueueDpc does nothing when the DPC is queued.
VkbdInterrupt ==
    /\ raised
    /\ raised' = FALSE
    /\ queued' = TRUE
    /\ late' = (late \/ page = "flushed")
    /\ UNCHANGED <<ringVars, inCons, backend, dpcVars, page, grantVars>>

\* VkbdDpc, taken off the queue before it runs.
VkbdDpc ==
    /\ queued /\ dpc = "idle"
    /\ queued' = FALSE
    /\ dpc' = "read"
    /\ UNCHANGED <<ringVars, inCons, backend, raised, cons, prod, handled,
                   page, grantVars, late>>

\* Mutant of ReadIndices: the slots are given back before they are read.
ReadIndicesPublishes ==
    /\ dpc = "read" /\ Present
    /\ cons' = inCons /\ prod' = inProd
    /\ dpc' = IF inCons = inProd THEN "idle" ELSE "scan"
    /\ inCons' = inProd
    /\ UNCHANGED <<ringVars, backend, raised, queued, handled, page,
                   grantVars, late>>

\* VkbdPoll: the two indices are read, and the DPC is over when they agree.
ReadIndices ==
    /\ dpc = "read" /\ Present
    /\ cons' = inCons /\ prod' = inProd
    /\ dpc' = IF inCons = inProd THEN "idle" ELSE "scan"
    /\ UNCHANGED <<ringVars, inCons, backend, raised, queued, handled, page,
                   grantVars, late>>

\* Mutant of TakeEvent: one event for each run of the DPC.
TakeOneEvent ==
    /\ dpc = "scan" /\ cons # prod /\ Present
    /\ cons' = Advance(cons)
    /\ inCons' = Advance(cons)
    /\ handled' = handled + 1
    /\ dpc' = "idle"
    /\ UNCHANGED <<ringVars, backend, raised, queued, prod, page, grantVars,
                   late>>

TakeEvent ==
    /\ dpc = "scan" /\ cons # prod /\ Present
    /\ cons' = Advance(cons)
    /\ handled' = handled + 1
    /\ UNCHANGED <<ringVars, inCons, backend, raised, queued, dpc, prod, page,
                   grantVars, late>>

\* The slots are given back, and the indices are read again.
PublishCons ==
    /\ dpc = "scan" /\ cons = prod /\ Present
    /\ inCons' = cons
    /\ dpc' = "read"
    /\ UNCHANGED <<ringVars, backend, raised, queued, cons, prod, handled,
                   page, grantVars, late>>

----------------------------------------------------------------------------
\* The backend maps and unmaps the page, the first as long as it may.
Map == /\ backend = "idle" /\ ~mapped /\ permitted
       /\ mapped' = TRUE
       /\ UNCHANGED <<ringVars, inCons, backend, raised, queued, dpcVars, page,
                      permitted, refused, late>>

Unmap == /\ backend = "idle" /\ mapped
         /\ mapped' = FALSE
         /\ UNCHANGED <<ringVars, inCons, backend, raised, queued, dpcVars, page,
                        permitted, refused, late>>

\* Mutant of FlushDpcs: nothing is waited for.
FlushNothing ==
    /\ page = "connected"
    /\ page' = "flushed"
    /\ UNCHANGED <<ringVars, inCons, backend, raised, queued, dpcVars, grantVars,
                   late>>

\* Vkbd_Disconnect: KeFlushQueuedDpcs waits until no DPC is queued or runs,
\* and EVTCHN Close ends the interrupts.
FlushDpcs ==
    /\ page = "connected"
    /\ ~queued /\ dpc = "idle"
    /\ page' = "flushed"
    /\ UNCHANGED <<ringVars, inCons, backend, raised, queued, dpcVars, grantVars,
                   late>>

CloseChannel ==
    /\ page = "flushed"
    /\ page' = "closed"
    /\ raised' = FALSE
    /\ UNCHANGED <<ringVars, inCons, backend, queued, dpcVars, grantVars, late>>

\* Mutant of Revoke: the access is left as it is.
RevokeForgotten ==
    /\ page = "closed"
    /\ page' = "revoked"
    /\ UNCHANGED <<ringVars, inCons, backend, raised, queued, dpcVars, grantVars,
                   late>>

\* GNTTAB RevokeForeignAccess fails while the page is mapped; its result is
\* not looked at.
Revoke ==
    /\ page = "closed"
    /\ page' = "revoked"
    /\ permitted' = mapped /\ refused' = mapped
    /\ UNCHANGED <<ringVars, inCons, backend, raised, queued, dpcVars, mapped,
                   late>>

\* GNTTAB Put and __VkbdFree of the page, then Vkbd_Destroy, which zeroes and
\* frees the structure with the DPC.
Step(from, to) ==
    /\ page = from
    /\ page' = to
    /\ UNCHANGED <<ringVars, inCons, backend, raised, queued, dpcVars, grantVars,
                   late>>

PutReference == Step("revoked", "put")
FreePage == Step("put", "freed")
Destroy == Step("freed", "destroyed")

Dpc == VkbdDpc \/ ReadIndices \/ TakeEvent \/ PublishCons

Next == \/ Produce \/ Notify \/ VkbdInterrupt \/ Dpc
        \/ Map \/ Unmap \/ FlushDpcs \/ CloseChannel \/ Revoke
        \/ PutReference \/ FreePage \/ Destroy

Spec == Init /\ [][Next]_vars

\* An event that was written is announced, a pending interrupt is taken and
\* a queued DPC runs.  Nothing makes the backend produce or the driver
\* disconnect.
FairSpec == Spec /\ WF_vars(Notify) /\ WF_vars(VkbdInterrupt) /\ WF_vars(Dpc)

----------------------------------------------------------------------------
\* The types of the variables.
TypeOK ==
    /\ ring \in [0 .. RingLen - 1 -> 0 .. MaxEvents]
    /\ inProd \in Index /\ inCons \in Index
    /\ cons \in Index /\ prod \in Index
    /\ backend \in {"idle", "notify"}
    /\ raised \in BOOLEAN /\ queued \in BOOLEAN /\ late \in BOOLEAN
    /\ dpc \in {"idle", "read", "scan"}
    /\ page \in {"connected", "flushed", "closed", "revoked", "put", "freed",
                 "destroyed"}
    /\ mapped \in BOOLEAN /\ permitted \in BOOLEAN /\ refused \in BOOLEAN
    /\ written \in 0 .. MaxEvents /\ handled \in 0 .. MaxEvents

\* VkbdPoll handles the events one by one in the order they were written.
\* One exception is left by a ring whose length does not divide the range of
\* the index: the last event before the index wraps may share its slot with
\* the first after it, and is then lost, the first one handled in its place.
HandledInOrder ==
    [][ handled' # handled =>
            LET event == ring[SlotOf(cons)]
            IN  \/ event = handled
                \/ event = handled + 1 /\ event % IndexRange = 0 ]_vars

\* While the page is connected the driver reaches the index of every event that
\* was written, however interrupts and DPCs are coalesced; what it finds in the
\* slot is the matter of HandledInOrder.
EveryEventHandled ==
    \A n \in 1 .. MaxEvents :
        written >= n ~> (handled >= n \/ page # "connected")

\* A DPC can find the channel closed, the page freed or itself zeroed only
\* because an interrupt came after KeFlushQueuedDpcs and before EVTCHN Close.
DpcAfterCloseIsLate ==
    page \notin {"connected", "flushed"} /\ (queued \/ dpc # "idle") => late

\* The backend can reach a page, or map it by a reference, that was given
\* back only because RevokeForeignAccess failed: in the order of
\* Vkbd_Disconnect one that succeeds keeps the backend out for good, although
\* the backend is asked to close only later.
BackendKeptOut ==
    page \in {"put", "freed", "destroyed"} /\ (mapped \/ permitted) => refused
============================================================================
