# Verification of win-xenhid

win-xenhid is a Windows HID minidriver: it takes keyboard and pointer events from a Xen virtual
keyboard backend (vkbd) and gives them to HIDCLASS as HID reports. This directory holds TLA+
models of its parts, the TLC runs that check them on small instances, and TLAPS proofs for every
value of the constants. `PROJECT.json` lists the runs, the mutants that show each property can
fail, the source lines behind each definition, the findings, the hazards and the theorems.

    tlc -config MCIrpCache.cfg MCIrpCache      # any run: module and cfg from PROJECT.json
    tlapm IrpCacheProofs.tla                   # and the other ...Proofs.tla, SlotLemmas.tla

## The system

    HIDCLASS --IRPs--> FdoDispatch (fdo.c) --cache--> Irps[]  <--FdoCompleteRead-- vkbd.c (DPC)
                            |                                                        ^
                      PnP, power, suspend                                            | events
                            v                                                        |
                      frontend.c  <--XenStore handshake-->  backend  --shared ring, event channel

| component | state | operations | called by |
|---|---|---|---|
| read path (fdo.c) | `Enabled`, `Irps[4]`, `Lock` | `__FdoCache`, `__FdoUncache`, `FdoCompleteRead`, `FdoPauseData`, `FdoResumeData`, the read case of `FdoDispatchControl` | HIDCLASS threads; the DPC; PnP and power threads |
| life cycle (fdo.c) | interfaces, `Frontend`, PnP and power state with the previous of each, references and callbacks of DEBUG and SUSPEND | `FdoCreate`, `FdoQueryInterface`, `FdoDestroy`, the PnP requests, `FdoForwardIrpSynchronously`, `FdoD3ToD0`, `FdoD0ToD3`, `FdoSuspendCallback`, `FdoDispatchPower` | driver.c; PnP manager; XenBus on suspend |
| driver (driver.c) | `Driver.DriverObject` | `DriverEntry`, `DriverUnload`, `AddDevice`, `Dispatch` | Windows, HIDCLASS |
| frontend (frontend.c) | `Connected`, `Context`, `Operations`, `BackendPath`, the XenStore keys | `FrontendEnable`, `FrontendDisable`, `__FrontendWaitState`; seven functions for IOCTLs | fdo.c; HIDCLASS threads |
| input state (vkbd.c) | `KeyState`, `MouState`, two pending flags | `VkbdEvent` and what it calls; `Vkbd_Create`, `Vkbd_Destroy` | the DPC; frontend.c |
| shared ring (vkbd.c) | page and its grant, `in_prod`, `in_cons`, DPC, event channel | `VkbdInterrupt`, `VkbdDpc`, `VkbdPoll`, `Vkbd_Connect`, `Vkbd_Disconnect`, `Vkbd_Destroy` | event channel; frontend.c |
| table and descriptor (vkbd.c, reportdescr.h) | constants | `__UsasgeType`, the report structures, the report descriptor | input state; the host |
| HID control requests (fdo.c, frontend.c, vkbd.c) | none; they test `Connected` | attributes and descriptors, copied whole or not at all | HIDCLASS |
| debug output, vendored headers, build scripts | none | | |

What makes it hard, and what each part must keep:

* The read path is shared by dispatching threads, a DPC and a pausing thread, with one test
  (`Enabled`) outside the lock. The array must stay a FIFO, an IRP must be completed once, and a
  pause must end and leave nothing behind it cannot account for.
* The frontend talks to a backend that answers late, never, or with a state it was in before.
  Any of some twenty calls can fail; a resume walks through everything again. All or nothing must
  be held after an operation, and a new ring must not be announced to a backend still on the old.
* PnP requests, cancelled queries and a suspend callback share one path between D3 and D0, which
  must not be walked twice in one direction. Requests that are forwarded wait for a lower driver
  that answers at once or later, with an event on the waiter's stack. A creation can fail at each
  of seven points, and the driver can be unloaded after any of this.
* Events come when no read is cached; keys exceed the six slots; the key state is thrown away at
  a disconnect. A change the host was not told of must be known as such, and a report must list
  only keys that are held.
* The ring has 51 slots and 32-bit indices; notifications and DPCs coalesce; the page is taken
  down while interrupts arrive and the backend may still have it mapped.

`PROJECT.json` has each of these as a hazard at the line where it bites, and names the properties
that cover it, or why none does.

## Modules

| module | models | uses |
|---|---|---|
| `Slots` | C arrays used as lists: scan, shift, compactness | |
| `ReadQueue` | what the read path promises: a bounded FIFO of reads | |
| `IrpCache` | the read path; refines `ReadQueue` | `Slots` |
| `Vkbd` | events, reports, pending flags | `Slots` |
| `VkbdRing` | ring, interrupts, DPC, grant, disconnection; backend external | |
| `KeyTable` | `__UsasgeType` | |
| `HidReport` | events of the ring by type, reports as bytes, read by the descriptor | `Vkbd`, `KeyTable` |
| `Attachment` | what frontend.c promises to fdo.c: a link made in an enable, broken in a disable | |
| `Frontend` | handshake and resources; backend and store external; refines `Attachment` | |
| `SyncIrp` | a request that is sent to the driver below and waited for | |
| `Fdo` | creation, PnP, power, suspend, destruction | `SyncIrp` |
| `Driver` | load, registration, unload around the device | `Fdo` |
| `HidControl` | control requests at any point of the device's life | `Driver` |
| `SlotLemmas`, `IrpCacheProofs`, `VkbdProofs`, `VkbdRingProofs`, `FrontendProofs` | lemmas and theorems of the module they are named after | |
| `HidReportProofs` | theorems of `HidReport` | `VkbdProofs` |
| `FdoProofs` | theorems of `Fdo` | |
| `DeviceProofs` | theorems of `Driver` and `HidControl` | `FdoProofs` |
| `MC...` | constants of the runs | |

How they correspond to the code:

* **IrpCache.** A step is what a thread does between two points where another can run. `Submit`
  is HIDCLASS sending a read; `CheckEnabled` the unlocked test, `CacheIrp` the locked insertion,
  `EndDispatch` the end of `FdoDispatchControl`. `CompleteReadTake` and `CompleteReadFinish` are
  `FdoCompleteRead` up to and after the unlock; `PauseStart`, `PauseTake`, `PauseFinish`,
  `PauseEnd` are `FdoPauseData`. `owner` says which side holds the IRP; `late` is a history of the
  threads past the test when a pause began. `__FdoCache` returns STATUS_SUCCESS or
  STATUS_UNSUCCESSFUL, never STATUS_PENDING, so the model, as the code does, completes a read at
  the end of its dispatch in either case, and never calls `FrontendReadReport`.
* **Vkbd.** One action per type of event and usage, each with the report it sends or leaves
  pending. A bit set is a set of bits; the cache is a number of reads. `sentKey` and `sentMou`
  are the last reports the host was given; `down` is a history of the keys that are held.
* **VkbdRing.** `Produce` and `Notify` are the backend, and so are `Map` and `Unmap`, while the
  grant permits it. An event is its number. `VkbdPoll` is `ReadIndices`, `TakeEvent`,
  `PublishCons`; `Vkbd_Disconnect` is `FlushDpcs`, `CloseChannel`, `Revoke`, `PutReference`,
  `FreePage`, and `Destroy` is `Vkbd_Destroy`. `refused` is a history of a revocation that failed.
* **KeyTable, HidReport.** The table is written in blocks of consecutive codes, entry by entry.
  `KeyBytes` and `MouBytes` are the structures in memory, `KeyItems` and `MouItems` the INPUT
  items of the descriptor, and the `Host...` operators cut each field out of the three bytes around
  its first bit (`Field`). `VkbdEvent` chooses the handler by the type of the event, laid out as `kbdif.h` has it.
* **Frontend.** `pc` follows the functions from call to call. The three waits share `Watch`,
  `WaitEvent` and `ReadState`; `WaitOk` and `WaitFailed` say where each returns to. `stage`
  counts the resources of `Vkbd_Connect` in the order they are taken. `Fault` is a failing call.
  `domain` and `granted` follow the domain from the read of `backend-id` to the grant; a resume
  may come on a host whose backend lives in another. `WriteFails` and a conflict in `CommitFails`
  are not counted as `Fault`: the transaction loop meets any number of them. A failed ASSERT ends
  the operation, as `KeBugCheckEx` does in the free build.
* **SyncIrp.** `Send`, `CallPending` and `Return` are the caller before `IoCallDriver`, between a
  STATUS_PENDING and the wait, and after; `LowerCompletes` is the completion routine, at any time.
* **Fdo.** `system` is what the PnP manager last completed, and decides which requests may come.
  `pc` is where the one thread of AddDevice and the PnP requests is. `FrontendEnable` and
  `FrontendDisable` are the `Connected` they leave, which is what `Attachment` promises of them: an
  enable ends with a link or with nothing, a disable with nothing. `interfaces` are the pointers
  `FdoCreate` got; the labels `fail1` to `fail6` are `CreateFails`. The suspend callback stands
  between the steps of the thread, except where that is at DISPATCH_LEVEL. `failed` names an
  ASSERT that failed.
* **Driver, HidControl.** One action per entry point: `DriverEntry` in either mode,
  `HidRegisterMinidriver`, `DriverUnload`; a load that fails leaves fresh data for the next.
  `DispatchControl` is `FdoDispatchControl` for everything but the read, and `answer` what it
  completed the last request with.

## Runs

Twelve runs. Six pass:

| run | instance | shows |
|---|---|---|
| `irp_cache` | 3 IRPs, 2 slots, one DPC, one pausing thread; 342 000 states | the array is compact; the read path refines a bounded FIFO; after a pause only reads past the `Enabled` test are left, each once; a pause returns although clients send their reads again at once |
| `vkbd_keys` | 4 keys on 3 slots, a modifier, 2 reads; 7 000 states | no key is listed that is not held; only rollover drops a held key; every change is sent, or marked pending (a flag that nothing reachable reads: the change goes out with the next one) |
| `hid_report` | the real bounds and table, five codes, three positions; 210 000 states | the clamp keeps positions in range, and buttons, position, wheel and modifiers are where the descriptor has them |
| `ring` | 5 slots, 4-bit indices, 19 events; 62 000 states | events are handled in order, except that the last one before the index wraps may be overwritten by the first after it, which is then handled in its place; every event counted is reached; a DPC after the close of the channel comes from an interrupt between flush and close, and from nothing else; the backend reaches a page that was given back only after a revocation that failed |
| `frontend` | 3 failing calls anywhere, failing transactions without bound, 2 polling rounds, 2 domains, a backend that may not answer; 82 000 states | all or nothing is held after each operation; the backend is Closed when a new ring is built; the page is granted to the domain the backend lives in now; the keys are committed before Connected is announced; to its callers all this is the link of `Attachment`; an operation returns |
| `fdo` | no constants but the buffer lengths; the whole state space, 5 400 states | no request is outstanding when its waiter is gone, and each one returns; a creation that fails leaves nothing; references and callbacks go with the power state; the PnP state agrees with the PnP manager's; a stopped device takes no reads and no callbacks; reads are enabled without a link only in a suspend and at the end of a stop; the ASSERTs on Connected, the power state and Deleted hold; an unloaded driver is referenced by nobody; between PnP requests a client is answered if and only if the device was started and no suspend is under way |

Six look for a violation, and find it; each is a finding, quoted with its lines in `PROJECT.json`:

| run | what the source says | what the code does |
|---|---|---|
| `irp_completed_twice` | `DevicesArePolled = FALSE`; a waiting read is marked pending | the read is completed by its dispatch while it stays in the cache, and again when taken |
| `vkbd_destroy` | `ASSERT(IsZeroMemory(...))` | the two pending flags are not cleared |
| `vkbd_wheel` | wheel motion is relative | it stays in the state and goes out again with the next button change |
| `hid_keys` | the descriptor has a padding byte before the keys | the report has none: the first key lies in the padding; a usage above the logical maximum is seen in no place |
| `frontend_resume` | `ASSERT(NT_SUCCESS(status))` after a resume | the first wait of the close accepts the old Closed, the second waits for a change that does not come |
| `frontend_ioctl` | `ASSERT3P(Frontend->Context, !=, NULL)` | `Context` goes before `Connected` does |

### Why the bounds are enough

* `irp_cache`: three reads on two slots give a full cache and a refused read, every number of
  used slots under a shift, and a reread during a pause. A third slot adds no new neighbour to a
  shift. The theorems hold for every size.
* `vkbd_keys`: four keys on three slots give rollover, the release of a key that was lost to it,
  and a release at the first, a middle and the last slot. `MAXIRPCACHE` 2 gives none, one and more
  than one cached read. Keys are symmetric and no property has liveness, so symmetry is sound.
* `hid_report`: the positions lie below, on and above each bound and on both sides of a byte; one
  modifier of each half of the byte and two buttons are driven.
* `fdo` has no bound: interfaces, requests and failures are as many as in the code. The buffer
  lengths are one below and at the size of each of the three answers.
* `ring`: 16 mod 5 is 1, as 2^32 mod 51 is: the index wraps one slot before the ring does. 19
  events take the index past its wrap with the ring full. The theorems
  hold for 51 and 2^32.
* `frontend`: one operation can meet a failure, one in the unwinding of that, and one more in the
  next operation. Two domains tell a domain that was read again from one that was not. Two
  rounds tell a wait that times out from one that does not. A round is 999 polls of one
  millisecond; the backend may react in any of them or in none.
* `CHECK_DEADLOCK FALSE` is set where the system may stop: after `Vkbd_Destroy`, in a safe-mode
  load, and after a failed ASSERT.

### Fairness

Threads inside the driver are fair: a dispatching thread, a DPC that has taken a read and the
pausing thread (`IrpCache`), and the thread inside an operation (`Frontend`). Windows does run
them: none of their steps blocks except the waits that are modelled. In `Driver` the thread is
strongly fair, as suspends, any number of them, may hold it up between its steps; a suspend is
followed by its resume; and the driver below answers each request in the end, which
`FdoForwardIrpSynchronously` relies on by waiting without a limit. The ring assumes that a written
event is announced, an interrupt is taken and a queued DPC runs. Nothing makes HIDCLASS send a
read, the backend produce or answer, or the system pause, resume, stop or suspend.

The transaction loop of `__FrontendConnect` ends only if the store does not fail every write nor
find a conflict each time: strong fairness of `WriteStore` and `Commit` says just this, and
`OperationReturns` does not hold without it. The code has no count and no delay in that loop.

## What is proved

The proofs go along inductive invariants `IInv`, with `Init => IInv`,
`IInv /\ [Next]_vars => IInv'` (one step per action) and `IInv` implying each property.

* **IrpCacheProofs**, for any IRPs, completers and cache size, from `CacheAssumption` (at least
  one slot, NULL is no IRP, the pausing thread is no completer). `IInv` adds to the checked
  invariants that, while `Enabled` is FALSE, only a thread in `late` is still about to cache its
  read. `PausedResidue` is not inductive without it: that thread's read enters after the pause.
  Theorems: `Inductive`, `TypeCorrect`, `AlwaysCompact`, `PauseLeavesOnlyLate`, and
  `ImplementsQueue` — every step of the read path is `Put`, `Take`, `Answer` or a stutter of
  `ReadQueue` under the mapping of the array to the sequence of its used slots.
* **VkbdProofs**, for any keys, modifiers, buttons, motions, array length and cache size, from
  `VkbdAssumption`. `IInv` adds that the state is idle while no structure is allocated; without
  it a new structure could start with changes nobody is told of. Theorems: `Inductive`,
  `TypeCorrect` (the clamp), `KeysAreHeld` (`NoGhostKeys`), `ChangesAreAccountedFor`
  (`UnsentIsPending`), and `RolloverDrops` (`OnlyRolloverDrops`, from what one press or release takes out of the array).
* **VkbdRingProofs**, for any length of the ring, any range of the index that leaves 1 modulo the
  length (51 and 2^32 do) and any number of events, from `RingAssumption`. The properties speak of
  indices that wrap; `IInv` counts. `GivenBack` says that `in_cons` is the number of events given
  back, reduced, which is at most a ring behind the events written and, between two scans, the
  number handled; `Intact` says what is in the slot of an event not given back. Since the index
  wraps one slot before the ring does, the event after the wrap falls in the slot of the one
  before it: `Collision` shows that two events less than a ring apart share a slot in that case
  and in no other. `QuietAfterFlush` and `RevokedOrRefused` say what stays shut after each step of
  `Vkbd_Disconnect`. Theorems: `RingInductive`, `RingTypeCorrect`, `OrderedHandling`
  (`HandledInOrder`), `LateDpc`, `KeptOut`.
* **FrontendProofs**, for any number of failing calls, any time limit, any protocols and domains,
  from `FrontendAssumption`. The checked invariants speak of the ends of operations; `IInv` says
  for each place in between what is held (`HeldByPlace`), whether the keys are published
  (`PublishedByPlace`), for whom the shared code of the waits and of `__FrontendUpdatePaths` runs
  (`CallerByPlace`), and that a wait succeeds only with a path, which was read together with the
  domain (`DomainRead`): that is why the grant goes to the right domain although
  `__FrontendUpdatePaths` may succeed without reading it. One lemma per action. Theorems:
  `FrontendInductive`, `FrontendTypeCorrect`, `NothingHalfHeld` (`AllOrNothing`), `OldRingClosed`
  (`ClosedBeforeConnect`), `RightDomain` (`GrantedToBackend`), `ReadyFirst`
  (`AnnouncedWhenReady`), and `ImplementsAttachment` (`LinkSpec`): a step of the thread, the
  backend or an IOCTL is one step of `Attachment` or none.
* **HidReportProofs**, for any key codes and motions, any `KEYS` and cache size, from
  `ReportAssumption`: the keys, modifiers and buttons are those of the table, the positions fit a
  USHORT and the wheel a signed byte. `ImplementsVkbd` shows that the codes drive `Vkbd` and
  nothing else, so that what `VkbdProofs` has of it holds here (`HidTypeCorrect`,
  `HidChangesAreAccountedFor`). From the types alone follows that the host reads what was written:
  `ByteBits` reads any bit of a byte back, `FieldOfBit`, `FieldOfByte` and `WordBytes` a field at
  each place the two descriptors have one (`MouPlaces`, `KeyPlaces`), `SignedByte` the sign of the
  wheel. Theorems: `HostUnderstandsMouse` (`MouseUnderstood`) and `HostUnderstandsModifiers`
  (`ModifiersUnderstood`), for every position, wheel motion and set of bits; the run drives three
  positions and five codes.
* **FdoProofs**. The properties speak of the device between requests (`pc = "idle"`); `IInv` says
  for each place the thread can be at what a request, a power transition or a creation
  has done so far: who has the request (`RequestByPlace`), the references, callbacks and `Enabled`
  (`HeldByPlace`, `PowerByPlace`, `EnabledByPlace`), the interfaces (`CreatedByPlace`), and both
  PnP states with their previous against the PnP manager's (`SystemByPlace`, `PnpByPlace`). The
  suspend callback may come between two steps and undo part of a transition, so `HeldByPlace` has
  a case for it. One lemma per action of the thread, the callback, the driver below. Theorems:
  `FdoTypeCorrect`, `FdoNoRequestOutstanding`, `FdoCreatedWhole`, `FdoHeldWhilePowered`,
  `FdoPnpFollowsSystem`, `FdoQuietWhenStopped`, `FdoReadsAreServed`, `FdoAssertionsHold`. The module has no constants:
  the run and the theorems say the same, but the proof says why, place by place.
* **DeviceProofs**, for any lengths of buffers. `ImplementsFdo`: with loads, unloads and control
  requests between its steps the device lives as `Fdo` says, because AddDevice needs a registered
  driver, and an unload an idle one with no device (`DInv`). So the theorems of `FdoProofs` hold
  in the driver (`DeviceOwns`, `DeviceFollows`, `DriverTypeCorrect`). `DriverUnloadedIsUnreferenced`
  takes from `IInv` that a device that does not exist holds nothing. `DeviceAnsweredWhileStarted`
  (`AnsweredWhileStarted`) joins two parts of `IInv`: which power state goes with what the PnP
  manager knows (`PowerByPlace`), and that the link goes with it (`HeldByPlace`).
* **SlotLemmas** has what the first two rest on: `ShiftDown` keeps the type, the compactness, the
  distinctness and the other entries, and is `Tail` of the list when it removes the first slot.

Every safety property of a passing run is proved. Only model-checked: liveness (`PauseTerminates`,
`EveryEventHandled`, `OperationReturns`, `RequestReturns`), which with ENABLED is beyond the
prover. The six violations are TLC's counterexamples.

## Assumed of the world outside

* HIDCLASS sends an IRP it owns, and only that; the PnP manager orders its requests as documented.
* The event channel delivers on one CPU, which also runs the DPC, and is not masked by an event
  (`EVTCHN Open` has a last argument TRUE and nothing calls Unmask).
* The backend writes when `in_cons` leaves room, and follows the frontend's states in order,
  at once, late or not at all. It may map the page as long as the grant permits it, and the access
  can be revoked only while the page is not mapped.
* The suspend callback is not called while the PnP thread is at DISPATCH_LEVEL. The ASSERTs on the
  IRQL itself, and that IoCallDriver returns the status the request has (fdo.c:339), are taken to
  hold and are not in `AssertionsHold`.
* IRP_MN_SET_POWER reaches a device that was started (`Started`, `StopQueried`) and between PnP
  requests. `FdoDispatchPower` tests neither: `QuietWhenStopped` and `ReadsAreServed` rest on this.
* HIDCLASS sends each control code under the major function `FdoDispatch` tests for. EVTCHN and
  GNTTAB serve calls without a reference: the driver never acquires these two.
* A host that reads a report by the descriptor takes the fields where the items put them. Whether
  HIDCLASS passes on a report of another length than described is not modelled.

## Not modelled, and why

* `FdoDebugCallback` and the debug output print and change nothing; `names.h` is for them.
* `Vkbd_ReadReport`, `__Check` (vkbd.c:869-913) and the call of `FrontendReadReport` cannot be
  reached: they are for a status `__FdoCache` never returns (see `irp_completed_twice`). What they
  would do to the pending flags is therefore a behaviour the program does not have.
* The bytes of the attributes and of the device descriptor are constants; only their lengths
  matter to a caller.
* The services of XenBus (`STORE`, `EVTCHN`, `GNTTAB`, `DEBUG`, `SUSPEND`) and the Xen headers are
  vendored declarations; of `kbdif.h` and `xenbus.h` the event layout, the ring layout and the
  states are used. `util.h` has allocation and comparison helpers without state.
* Build scripts, packaging and the installation file.

Four hazards have no property. What the last argument of `EVTCHN Open` means, and whether an
interface without a reference serves calls, are decided in XenBus. What the host believes after a
disable, and of a change that is pending, is wrong until the next change of state: no property
holds of it that does not except the whole of that time, and no line of the source promises one.
