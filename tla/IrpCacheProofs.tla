-------------------------- MODULE IrpCacheProofs ---------------------------
(***************************************************************************)
(* Proofs about IrpCache for any set of IRPs, any set of completers and    *)
(* any size of the cache.                                                  *)
(***************************************************************************)
EXTENDS IrpCache, SlotLemmas

\* While Enabled is FALSE, only threads that read it before it was cleared
\* are still on their way into the cache.
OnlyLateEnter ==
    ~enabled => \A r \in Irp : dispatch[r] = "cache" => r \in late

IInv == /\ TypeOK
        /\ CacheCompact
        /\ OnlyLateEnter
        /\ PausedResidue

----------------------------------------------------------------------------
\* The arrays the cache can become by an insertion or a removal.
LEMMA UncacheShape ==
    ASSUME IInv, NEW t \in Taker, Uncache(t)
    PROVE  /\ 0 \in Slot(MAXIRPCACHE) /\ irps[0] # NoIrp
           /\ held' = [held EXCEPT ![t] = irps[0]]
           /\ irps' = ShiftDown(irps, MAXIRPCACHE, NoIrp, 0)
  <1>1. PICK i \in Slot(MAXIRPCACHE) :
                /\ IsFirst(i, Used(irps, MAXIRPCACHE, NoIrp))
                /\ held' = [held EXCEPT ![t] = irps[i]]
                /\ irps' = ShiftDown(irps, MAXIRPCACHE, NoIrp, i)
    BY DEF Uncache
  <1>2. 0 \in Slot(MAXIRPCACHE)
    BY CacheAssumption DEF Slot
  <1>3. i = 0
    BY <1>1, <1>2, CacheAssumption
    DEF IInv, CacheCompact, IsCompact, IsFirst, Used, Slot
  <1> QED
    BY <1>1, <1>2, <1>3 DEF IsFirst, Used

LEMMA UncacheInv ==
    ASSUME IInv, NEW t \in Taker, Uncache(t)
    PROVE  /\ irps' \in [Slot(MAXIRPCACHE) -> Irp \cup {NoIrp}]
           /\ held' \in [Taker -> Irp \cup {NoIrp}]
           /\ CacheCompact'
           /\ Cached' \subseteq Cached
           /\ IsDistinct(irps, MAXIRPCACHE, NoIrp)
                => IsDistinct(irps, MAXIRPCACHE, NoIrp)'
  <1>1. /\ 0 \in Slot(MAXIRPCACHE) /\ irps[0] # NoIrp
        /\ held' = [held EXCEPT ![t] = irps[0]]
        /\ irps' = ShiftDown(irps, MAXIRPCACHE, NoIrp, 0)
    BY UncacheShape
  <1>2. MAXIRPCACHE \in Nat
    BY CacheAssumption
  <1>3. irps \in [Slot(MAXIRPCACHE) -> Irp \cup {NoIrp}]
    BY DEF IInv, TypeOK
  <1>4. irps' \in [Slot(MAXIRPCACHE) -> Irp \cup {NoIrp}]
    BY <1>1, <1>2, <1>3, ShiftDownType
  <1>5. held' \in [Taker -> Irp \cup {NoIrp}]
    BY <1>1, <1>3 DEF IInv, TypeOK
  <1>6. CacheCompact'
    BY <1>1, <1>2, ShiftDownCompact DEF IInv, CacheCompact
  <1>7. Cached' \subseteq Cached
    BY <1>1, <1>2, ShiftDownEntries DEF Cached
  <1>8. IsDistinct(irps, MAXIRPCACHE, NoIrp)
            => IsDistinct(irps, MAXIRPCACHE, NoIrp)'
    BY <1>1, <1>2, ShiftDownDistinct
  <1> QED
    BY <1>4, <1>5, <1>6, <1>7, <1>8

\* A successful CacheIrp fills the slot above the last used one.
LEMMA CacheIrpShape ==
    ASSUME IInv, NEW r \in Irp, CacheIrp(r)
    PROVE  \/ UNCHANGED irps
           \/ \E m \in Slot(MAXIRPCACHE) :
                /\ IsLength(m, irps, MAXIRPCACHE, NoIrp)
                /\ irps' = [irps EXCEPT ![m] = r]
  <1> SUFFICES ASSUME NEW m \in Slot(MAXIRPCACHE),
                      IsFirst(m, {i \in Slot(MAXIRPCACHE) : irps[i] = NoIrp}),
                      irps' = [irps EXCEPT ![m] = r]
               PROVE  IsLength(m, irps, MAXIRPCACHE, NoIrp)
    BY DEF CacheIrp
  <1> QED
    BY CacheAssumption
    DEF IInv, CacheCompact, IsCompact, IsFirst, IsLength, Slot

----------------------------------------------------------------------------
LEMMA InitInv == Init => IInv
  <1> SUFFICES ASSUME Init PROVE IInv
    OBVIOUS
  <1>1. TypeOK
    BY DEF Init, TypeOK
  <1>2. Cached = {} /\ IsDistinct(irps, MAXIRPCACHE, NoIrp) /\ CacheCompact
    BY DEF Init, Cached, Entries, Used, IsDistinct, CacheCompact, IsCompact
  <1>3. OnlyLateEnter
    BY DEF Init, OnlyLateEnter
  <1> QED
    BY <1>1, <1>2, <1>3 DEF IInv, PausedResidue

\* Steps that leave the cache alone.
LEMMA OtherInv ==
    ASSUME IInv, UNCHANGED irps, TypeOK',
           OnlyLateEnter',
           (~enabled /\ ~pausing)'
              => /\ ~enabled /\ ~pausing /\ UNCHANGED late
                 /\ \A r \in Irp : dispatch'[r] = "cache" => dispatch[r] = "cache"
    PROVE  IInv'
  <1>1. CacheCompact'
    BY DEF IInv, CacheCompact, IsCompact
  <1>2. Cached' = Cached /\ Cached \subseteq Irp
    BY DEF Cached, Entries, Used, IInv, TypeOK
  <1>3. PausedResidue'
    BY <1>2 DEF IInv, PausedResidue, IsDistinct, Used
  <1> QED
    BY <1>1, <1>3 DEF IInv

\* Steps by which the DPC or the pausing thread takes a read out.
LEMMA TakeInv ==
    ASSUME IInv, NEW t \in Taker, Uncache(t),
           UNCHANGED <<enabled, dispatch, owner, pausing, late>>
    PROVE  IInv'
  <1>1. TypeOK'
    BY UncacheInv DEF IInv, TypeOK
  <1>2. CacheCompact'
    BY UncacheInv
  <1>3. OnlyLateEnter'
    BY DEF IInv, OnlyLateEnter
  <1>4. PausedResidue'
    BY UncacheInv DEF IInv, PausedResidue
  <1> QED
    BY <1>1, <1>2, <1>3, <1>4 DEF IInv

LEMMA CacheIrpInv ==
    ASSUME IInv, NEW r \in Irp, CacheIrp(r)
    PROVE  IInv'
  <1> USE CacheAssumption
  <1>1. CASE UNCHANGED irps
    <2>1. TypeOK'
      BY <1>1 DEF IInv, TypeOK, CacheIrp
    <2>2. OnlyLateEnter'
      BY DEF IInv, OnlyLateEnter, CacheIrp, TypeOK
    <2>3. \A s \in Irp : dispatch'[s] = "cache" => dispatch[s] = "cache"
      BY DEF CacheIrp, IInv, TypeOK
    <2> QED
      BY <1>1, <2>1, <2>2, <2>3, OtherInv DEF CacheIrp
  <1>2. ASSUME NEW m \in Slot(MAXIRPCACHE),
               IsLength(m, irps, MAXIRPCACHE, NoIrp),
               irps' = [irps EXCEPT ![m] = r]
        PROVE  IInv'
    <2>1. /\ irps[m] = NoIrp /\ irps'[m] = r
          /\ \A i \in Slot(MAXIRPCACHE) : i # m => irps'[i] = irps[i]
      BY <1>2 DEF IsLength, IInv, TypeOK, Slot
    <2>2. TypeOK'
      BY <1>2 DEF IInv, TypeOK, CacheIrp
    <2>3. CacheCompact'
      BY <1>2, <2>1 DEF CacheCompact, IsCompact, IsLength, Slot
    <2>4. OnlyLateEnter'
      BY DEF IInv, OnlyLateEnter, CacheIrp, TypeOK
    <2>5. Cached' \subseteq Cached \cup {r}
      BY <2>1 DEF Cached, Entries, Used
    <2>6. ASSUME ~enabled, ~pausing
          PROVE  /\ Cached' \subseteq late
                 /\ IsDistinct(irps, MAXIRPCACHE, NoIrp)'
                 /\ \A s \in Cached' : dispatch'[s] # "cache"
      <3>1. r \in late /\ r \notin Cached
        BY <2>6 DEF IInv, OnlyLateEnter, PausedResidue, CacheIrp
      <3>2. Cached \subseteq late /\ Cached \subseteq Irp
        BY <2>6 DEF IInv, PausedResidue, Cached, Entries, Used, TypeOK
      <3>3. \A i \in Slot(MAXIRPCACHE) : irps[i] # NoIrp => irps[i] \in Cached
        BY DEF Cached, Entries, Used
      <3>4. IsDistinct(irps, MAXIRPCACHE, NoIrp)'
        BY <2>1, <2>6, <3>1, <3>3 DEF IInv, PausedResidue, IsDistinct, Used
      <3>5. \A s \in Cached \cup {r} : dispatch'[s] # "cache"
        BY <2>6, <3>2 DEF IInv, PausedResidue, CacheIrp, TypeOK
      <3> QED
        BY <2>5, <3>1, <3>2, <3>4, <3>5
    <2>7. PausedResidue'
      BY <2>6 DEF PausedResidue, CacheIrp
    <2> QED
      BY <2>2, <2>3, <2>4, <2>7 DEF IInv
  <1> QED
    BY <1>1, <1>2, CacheIrpShape

\* Every step preserves the inductive invariant.
LEMMA StepInv == IInv /\ [Next]_vars => IInv'
  <1> SUFFICES ASSUME IInv, [Next]_vars PROVE IInv'
    OBVIOUS
  <1> USE DEF IInv, TypeOK, OnlyLateEnter, IoCompleteRequest
  <1>1. ASSUME NEW r \in Irp, Submit(r) PROVE IInv'
    BY <1>1, OtherInv DEF Submit
  <1>2. ASSUME NEW r \in Irp, CheckEnabled(r) PROVE IInv'
    BY <1>2, OtherInv DEF CheckEnabled
  <1>3. ASSUME NEW r \in Irp, CacheIrp(r) PROVE IInv'
    BY <1>3, CacheIrpInv
  <1>4. ASSUME NEW r \in Irp, EndDispatch(r) PROVE IInv'
    BY <1>4, OtherInv DEF EndDispatch
  <1>5. ASSUME NEW c \in Completer, CompleteReadTake(c) PROVE IInv'
    BY <1>5, TakeInv DEF CompleteReadTake, Taker
  <1>6. ASSUME NEW c \in Completer, CompleteReadFinish(c) PROVE IInv'
    BY <1>6, OtherInv DEF CompleteReadFinish, Taker
  <1>7. ASSUME PauseStart PROVE IInv'
    BY <1>7, OtherInv DEF PauseStart
  <1>8. ASSUME PauseTake PROVE IInv'
    BY <1>8, TakeInv DEF PauseTake, Taker
  <1>9. ASSUME PauseFinish PROVE IInv'
    BY <1>9, OtherInv DEF PauseFinish, Taker
  <1>10. ASSUME PauseEnd PROVE IInv'
    <2>1. TypeOK' /\ OnlyLateEnter' /\ CacheCompact'
      BY <1>10 DEF PauseEnd, CacheCompact, IsCompact
    <2>2. Cached' = {}
      BY <1>10 DEF PauseEnd, Cached, Entries, Used
    <2>3. IsDistinct(irps, MAXIRPCACHE, NoIrp)'
      BY <2>2 DEF Cached, Entries, IsDistinct
    <2> QED
      BY <2>1, <2>2, <2>3 DEF PausedResidue
  <1>11. ASSUME Resume PROVE IInv'
    BY <1>11, OtherInv DEF Resume
  <1>12. CASE UNCHANGED vars
    BY <1>12, OtherInv DEF vars
  <1> QED
    BY <1>1, <1>2, <1>3, <1>4, <1>5, <1>6, <1>7, <1>8, <1>9, <1>10, <1>11, <1>12
    DEF Next, Dispatch, Pausing

\* The inductive invariant holds in every reachable state.
THEOREM Inductive == Spec => []IInv
  BY InitInv, StepInv, PTL DEF Spec

\* The variables keep their types.
THEOREM TypeCorrect == Spec => []TypeOK
  <1>1. IInv => TypeOK
    BY DEF IInv
  <1> QED
    BY <1>1, Inductive, PTL

\* The used slots of Irps are always the low ones (fdo.c, __FdoUncache).
THEOREM AlwaysCompact == Spec => []CacheCompact
  <1>1. IInv => CacheCompact
    BY DEF IInv
  <1> QED
    BY <1>1, Inductive, PTL

\* What a pause can leave behind is bounded by the threads that were between
\* the test of Enabled and the lock when it began (fdo.c, FdoPauseData).
THEOREM PauseLeavesOnlyLate == Spec => []PausedResidue
  <1>1. IInv => PausedResidue
    BY DEF IInv
  <1> QED
    BY <1>1, Inductive, PTL

----------------------------------------------------------------------------
\* The cache implements the bounded queue of ReadQueue.
LEMMA QueueInit == Init => Queue!Init
  <1> SUFFICES ASSUME Init PROVE Queue!Init
    OBVIOUS
  <1>1. IsLength(0, irps, MAXIRPCACHE, NoIrp)
    BY CacheAssumption DEF Init, IsLength, Slot
  <1>2. irps \in [Slot(MAXIRPCACHE) -> Irp \cup {NoIrp}]
    BY DEF Init
  <1>3. AsSeq(irps, MAXIRPCACHE, NoIrp) \in Seq(Irp \cup {NoIrp})
        /\ Len(AsSeq(irps, MAXIRPCACHE, NoIrp)) = 0
    BY <1>1, <1>2, AsSeqIs, CacheAssumption
  <1>4. AsSeq(irps, MAXIRPCACHE, NoIrp) = << >>
    BY <1>3, EmptySeq
  <1> QED
    BY <1>4 DEF Init, Queue!Init

LEMMA QueueTake ==
    ASSUME IInv, NEW t \in Taker, held[t] = NoIrp, Uncache(t)
    PROVE  Queue!Take(t)
  <1>1. /\ 0 \in Slot(MAXIRPCACHE) /\ irps[0] # NoIrp
        /\ held' = [held EXCEPT ![t] = irps[0]]
        /\ irps' = ShiftDown(irps, MAXIRPCACHE, NoIrp, 0)
    BY UncacheShape
  <1>2. /\ AsSeq(irps, MAXIRPCACHE, NoIrp) # << >>
        /\ Head(AsSeq(irps, MAXIRPCACHE, NoIrp)) = irps[0]
        /\ AsSeq(irps', MAXIRPCACHE, NoIrp)
             = Tail(AsSeq(irps, MAXIRPCACHE, NoIrp))
    <2>1. /\ MAXIRPCACHE \in Nat /\ NoIrp \in Irp \cup {NoIrp}
          /\ irps \in [Slot(MAXIRPCACHE) -> Irp \cup {NoIrp}]
          /\ IsCompact(irps, MAXIRPCACHE, NoIrp)
      BY CacheAssumption DEF IInv, TypeOK, CacheCompact
    <2> QED
      BY <1>1, <2>1, AsSeqTake
  <1> QED
    BY <1>1, <1>2 DEF Queue!Take

LEMMA QueuePut ==
    ASSUME IInv, NEW r \in Irp, CacheIrp(r)
    PROVE  Queue!Put(r) \/ UNCHANGED Queue!vars
  <1>1. CASE UNCHANGED irps
    BY <1>1 DEF Queue!vars, CacheIrp
  <1>2. ASSUME NEW m \in Slot(MAXIRPCACHE),
               IsLength(m, irps, MAXIRPCACHE, NoIrp),
               irps' = [irps EXCEPT ![m] = r]
        PROVE  Queue!Put(r)
    <2> DEFINE S == Irp \cup {NoIrp}
    <2>1. /\ m < MAXIRPCACHE /\ r # NoIrp /\ MAXIRPCACHE \in Nat
          /\ irps \in [Slot(MAXIRPCACHE) -> S]
          /\ NoIrp \in S
      BY CacheAssumption DEF Slot, IInv, TypeOK
    <2>2. /\ irps' \in [Slot(MAXIRPCACHE) -> S]
          /\ irps'[m] = r
          /\ AgreeBut(irps, irps', MAXIRPCACHE, m)
          /\ IsLength(m, irps, MAXIRPCACHE, NoIrp)
      BY <1>2, <2>1 DEF AgreeBut
    <2>3. /\ Len(AsSeq(irps, MAXIRPCACHE, NoIrp)) = m
          /\ AsSeq(irps', MAXIRPCACHE, NoIrp)
               = Append(AsSeq(irps, MAXIRPCACHE, NoIrp), r)
      <3> HIDE DEF S
      <3> QED
        BY <2>1, <2>2, AsSeqPut
    <2> QED
      BY <2>1, <2>3 DEF Queue!Put, CacheIrp
  <1> QED
    BY <1>1, <1>2, CacheIrpShape

LEMMA QueueAnswer ==
    ASSUME NEW t \in Taker, held[t] # NoIrp,
           held' = [held EXCEPT ![t] = NoIrp], UNCHANGED irps
    PROVE  Queue!Answer(t)
  BY DEF Queue!Answer

LEMMA QueueStep == IInv /\ [Next]_vars => [Queue!Next]_(Queue!vars)
  <1> SUFFICES ASSUME IInv, [Next]_vars
               PROVE  Queue!Next \/ UNCHANGED Queue!vars
    OBVIOUS
  <1>1. ASSUME NEW r \in Irp, CacheIrp(r)
        PROVE  Queue!Next \/ UNCHANGED Queue!vars
    BY <1>1, QueuePut DEF Queue!Next
  <1>2. ASSUME NEW c \in Completer, CompleteReadTake(c) PROVE Queue!Next
    BY <1>2, QueueTake DEF CompleteReadTake, Taker, Queue!Next
  <1>3. ASSUME NEW c \in Completer, CompleteReadFinish(c) PROVE Queue!Next
    BY <1>3, QueueAnswer DEF CompleteReadFinish, Taker, Queue!Next
  <1>4. CASE PauseTake
    BY <1>4, QueueTake DEF PauseTake, Taker, Queue!Next
  <1>5. CASE PauseFinish
    BY <1>5, QueueAnswer DEF PauseFinish, Taker, Queue!Next
  <1>6. CASE UNCHANGED <<irps, held>>
    BY <1>6 DEF Queue!vars
  <1> QED
    BY <1>1, <1>2, <1>3, <1>4, <1>5, <1>6
    DEF Next, Dispatch, Pausing, Submit, CheckEnabled, EndDispatch, PauseStart,
        PauseEnd, Resume, vars

\* Caching, uncaching and flushing, in any interleaving, behave as a bounded
\* first-in first-out queue whose takers hold each read alone.
THEOREM ImplementsQueue == Spec => QueueSpec
  BY QueueInit, QueueStep, Inductive, PTL DEF Spec, QueueSpec, Queue!Spec
============================================================================
