---------------------------- MODULE VkbdProofs -----------------------------
(***************************************************************************)
(* Proofs about Vkbd for any set of keys, modifiers, buttons and motions,  *)
(* any length of Keys and any size of the read cache.                      *)
(***************************************************************************)
EXTENDS Vkbd, SlotLemmas

\* The state is idle outside the life of the structure, which is what makes
\* the first report after Vkbd_Create start from nothing pressed.
IdleWhenFree == ~alive => KeyReport = IdleKey /\ MouReport = IdleMou

IInv == /\ TypeOK
        /\ NoGhostKeys
        /\ UnsentIsPending
        /\ IdleWhenFree

\* What a keys array of the driver is like.
GoodKeys(a, held) ==
    /\ a \in KeyArray
    /\ IsCompact(a, KEYS, NoKey)
    /\ IsDistinct(a, KEYS, NoKey)
    /\ Entries(a, KEYS, NoKey) \subseteq held

----------------------------------------------------------------------------
\* __UpdateArray, pressed, adds the key at most once and leaves no hole.
LEMMA PressKeyGood ==
    ASSUME NEW a, NEW held, GoodKeys(a, held), NEW v \in Key
    PROVE  GoodKeys(PressKey(a, v), held \cup {v})
  <1> DEFINE stop == {i \in Slot(KEYS) : a[i] \in {v, NoKey}}
  <1>1. KEYS \in Nat /\ KEYS - 1 \in Slot(KEYS) /\ v # NoKey
    BY VkbdAssumption DEF Slot
  <1>2. PICK m \in Slot(KEYS) :
            /\ PressKey(a, v) = [a EXCEPT ![m] = v]
            /\ \A i \in Slot(KEYS) : i < m => a[i] # NoKey
            /\ \A i \in Slot(KEYS) : a[i] = v => i = m
    <2>1. CASE stop = {}
      <3>1. PressKey(a, v) = [a EXCEPT ![KEYS - 1] = v]
        BY <2>1 DEF PressKey
      <3> QED
        BY <1>1, <2>1, <3>1
    <2>2. CASE stop # {}
      <3>1. First(stop) \in Slot(KEYS) /\ IsFirst(First(stop), stop)
        BY <1>1, <2>2, FirstIs
      <3>2. PressKey(a, v) = [a EXCEPT ![First(stop)] = v]
        BY <2>2 DEF PressKey
      <3> DEFINE m == First(stop)
      <3>3. \A i \in Slot(KEYS) : i < m => a[i] # NoKey
        BY <3>1 DEF IsFirst, Slot
      <3>4. \A i \in Slot(KEYS) : a[i] = v => i = m
        BY <1>1, <3>1
        DEF GoodKeys, IsFirst, IsCompact, IsDistinct, Used, Slot
      <3> QED
        BY <3>1, <3>2, <3>3, <3>4
    <2> QED
      BY <2>1, <2>2
  <1> DEFINE b == PressKey(a, v)
  <1>3. b \in KeyArray
    BY <1>2 DEF GoodKeys, KeyArray
  <1>4. /\ b[m] = v
        /\ \A i \in Slot(KEYS) : i # m => b[i] = a[i]
    BY <1>2 DEF GoodKeys, KeyArray
  <1> HIDE DEF b
  <1>5. IsCompact(b, KEYS, NoKey)
    BY <1>1, <1>2, <1>4 DEF GoodKeys, IsCompact, Slot
  <1>6. IsDistinct(b, KEYS, NoKey)
    BY <1>2, <1>4 DEF GoodKeys, IsDistinct, Used
  <1>7. Entries(b, KEYS, NoKey) \subseteq held \cup {v}
    BY <1>4 DEF GoodKeys, Entries, Used
  <1> QED
    BY <1>3, <1>5, <1>6, <1>7 DEF GoodKeys, b

\* __UpdateArray, released, removes the key and leaves no hole.
LEMMA ReleaseKeyGood ==
    ASSUME NEW a, NEW held, GoodKeys(a, held), NEW v \in Key
    PROVE  GoodKeys(ReleaseKey(a, v), held \ {v})
  <1> DEFINE found == {i \in Slot(KEYS) : a[i] = v}
  <1>1. KEYS \in Nat /\ v # NoKey
    BY VkbdAssumption
  <1>2. CASE found = {}
    <2>1. ReleaseKey(a, v) = a
      BY <1>2 DEF ReleaseKey
    <2>2. v \notin Entries(a, KEYS, NoKey)
      BY <1>2 DEF Entries, Used
    <2> QED
      BY <2>1, <2>2 DEF GoodKeys
  <1>3. CASE found # {}
    <2>1. First(found) \in Slot(KEYS) /\ a[First(found)] = v
      BY <1>1, <1>3, FirstIs DEF IsFirst
    <2> DEFINE i == First(found)
               b == ShiftDown(a, KEYS, NoKey, i)
    <2>2. ReleaseKey(a, v) = b
      BY <1>3 DEF ReleaseKey
    <2> HIDE DEF i
    <2>3. b \in KeyArray
      BY <1>1, <2>1, ShiftDownType DEF GoodKeys, KeyArray, i
    <2>4. IsCompact(b, KEYS, NoKey)
      BY <1>1, <2>1, ShiftDownCompact DEF GoodKeys, i
    <2>5. IsDistinct(b, KEYS, NoKey)
      BY <1>1, <2>1, ShiftDownDistinct DEF GoodKeys, i
    <2>6. Entries(b, KEYS, NoKey) \subseteq Entries(a, KEYS, NoKey)
      BY <1>1, <2>1, ShiftDownEntries DEF i
    <2>7. a[i] \notin Entries(b, KEYS, NoKey)
      BY <1>1, <2>1, ShiftDownRemoves DEF GoodKeys, i
    <2>8. Entries(b, KEYS, NoKey) \subseteq held \ {v}
      BY <2>1, <2>6, <2>7 DEF GoodKeys, i
    <2> QED
      BY <2>2, <2>3, <2>4, <2>5, <2>8 DEF GoodKeys
  <1> QED
    BY <1>2, <1>3

\* __UpdateArray, pressed, loses a key only when the array is full: the last.
LEMMA PressKeyDrops ==
    ASSUME NEW a \in KeyArray, NEW v \in Key,
           NEW w \in Entries(a, KEYS, NoKey),
           w \notin Entries(PressKey(a, v), KEYS, NoKey)
    PROVE  /\ \A i \in Slot(KEYS) : a[i] # NoKey
           /\ w = a[KEYS - 1]
           /\ PressKey(a, v)[KEYS - 1] = v
           /\ v \notin Entries(a, KEYS, NoKey)
  <1> DEFINE stop == {i \in Slot(KEYS) : a[i] \in {v, NoKey}}
             b == PressKey(a, v)
  <1>1. KEYS \in Nat /\ KEYS - 1 \in Slot(KEYS) /\ v # NoKey
    BY VkbdAssumption DEF Slot
  <1>2. PICK j \in Slot(KEYS) : w = a[j] /\ a[j] # NoKey
    BY DEF Entries, Used
  <1>3. b[j] # w
    BY <1>2 DEF Entries, Used
  <1>4. stop = {}
    <2> SUFFICES ASSUME stop # {} PROVE FALSE
      OBVIOUS
    <2>1. First(stop) \in Slot(KEYS) /\ a[First(stop)] \in {v, NoKey}
      BY <1>1, FirstIs DEF IsFirst
    <2>2. b = [a EXCEPT ![First(stop)] = v]
      BY DEF PressKey
    <2> HIDE DEF b, stop
    <2>3. b[j] = w
      BY <1>2, <2>1, <2>2 DEF KeyArray
    <2> QED
      BY <1>3, <2>3
  <1>5. b = [a EXCEPT ![KEYS - 1] = v]
    BY <1>4 DEF PressKey
  <1> QED
    BY <1>1, <1>2, <1>3, <1>4, <1>5 DEF KeyArray, Entries, Used

\* __UpdateArray, released, loses no other key.
LEMMA ReleaseKeyDrops ==
    ASSUME NEW a \in KeyArray, NEW v \in Key,
           NEW w \in Entries(a, KEYS, NoKey), w # v
    PROVE  w \in Entries(ReleaseKey(a, v), KEYS, NoKey)
  <1> DEFINE found == {i \in Slot(KEYS) : a[i] = v}
             b == ReleaseKey(a, v)
  <1>1. KEYS \in Nat
    BY VkbdAssumption
  <1>2. PICK j \in Slot(KEYS) : w = a[j] /\ a[j] # NoKey
    BY DEF Entries, Used
  <1>3. CASE found = {}
    BY <1>3 DEF ReleaseKey
  <1>4. CASE found # {}
    <2>1. First(found) \in Slot(KEYS) /\ a[First(found)] = v
      BY <1>1, <1>4, FirstIs DEF IsFirst
    <2>2. b = ShiftDown(a, KEYS, NoKey, First(found))
      BY <1>4 DEF ReleaseKey
    <2> HIDE DEF b, found
    <2>3. CASE j < First(found)
      <3>1. b[j] = w
        BY <1>2, <2>2, <2>3 DEF ShiftDown
      <3> QED
        BY <1>2, <3>1 DEF Entries, Used, b
    <2>4. CASE j > First(found)
      <3>1. j - 1 \in Slot(KEYS) /\ b[j - 1] = w
        BY <1>1, <1>2, <2>1, <2>2, <2>4 DEF ShiftDown, Slot
      <3> QED
        BY <1>2, <3>1 DEF Entries, Used, b
    <2>5. j # First(found)
      BY <1>2, <2>1
    <2> QED
      BY <1>1, <2>1, <2>3, <2>4, <2>5 DEF Slot
  <1> QED
    BY <1>3, <1>4

----------------------------------------------------------------------------
LEMMA IdleTypes == NoKeys \in KeyArray /\ Origin \in Position /\ 0 \in 0 .. MAXIRPCACHE
  BY VkbdAssumption DEF NoKeys, KeyArray, Origin, Position

LEMMA InitInv == Init => IInv
  <1> SUFFICES ASSUME Init PROVE IInv
    OBVIOUS
  <1>1. TypeOK
    BY IdleTypes DEF Init, TypeOK, IdleKey, IdleMou
  <1>2. NoGhostKeys
    BY DEF Init, NoGhostKeys, NoKeys, IsCompact, IsDistinct, Held, Entries, Used
  <1>3. UnsentIsPending /\ IdleWhenFree
    BY DEF Init, UnsentIsPending, IdleWhenFree, KeyReport, MouReport, IdleKey,
           IdleMou
  <1> QED
    BY <1>1, <1>2, <1>3 DEF IInv

\* The outcome of an event of the keyboard that changes nothing, is sent or
\* stays pending.
LEMMA KeyOutcome ==
    ASSUME IInv, alive, UNCHANGED <<alive, mouVars>>,
           modifiers' \in SUBSET Modifier,
           GoodKeys(keys', down'), down' \in SUBSET Key,
           \/ UNCHANGED <<keyVars, reads>>
           \/ CompleteKey
    PROVE  IInv'
  <1>1. TypeOK'
    <2>1. CASE UNCHANGED <<keyVars, reads>>
      BY <2>1 DEF IInv, TypeOK, keyVars, mouVars
    <2>2. CASE CompleteKey
      <3>1. reads' \in 0 .. MAXIRPCACHE
        BY <2>2, VkbdAssumption DEF IInv, TypeOK, CompleteKey
      <3>2. sentKey' \in [modifiers : SUBSET Modifier, keys : KeyArray]
        BY <2>2 DEF IInv, TypeOK, CompleteKey, KeyReport, GoodKeys
      <3> QED
        BY <2>2, <3>1, <3>2
        DEF IInv, TypeOK, CompleteKey, mouVars, GoodKeys
    <2> QED
      BY <2>1, <2>2
  <1>2. NoGhostKeys'
    BY DEF GoodKeys, NoGhostKeys, Held
  <1>3. UnsentIsPending'
    BY DEF IInv, TypeOK, UnsentIsPending, CompleteKey, keyVars, mouVars,
           KeyReport, MouReport, IdleKey, IdleMou, NoKeys
  <1>4. IdleWhenFree'
    BY DEF IdleWhenFree
  <1> QED
    BY <1>1, <1>2, <1>3, <1>4 DEF IInv

\* The same for the mouse.
LEMMA MouOutcome ==
    ASSUME IInv, alive, UNCHANGED <<alive, keyVars, down>>,
           buttons' \in SUBSET Button,
           pos' \in Position,
           \/ UNCHANGED <<mouVars, reads>>
           \/ CompleteMou
    PROVE  IInv'
  <1>1. TypeOK'
    <2>1. CASE UNCHANGED <<mouVars, reads>>
      BY <2>1 DEF IInv, TypeOK, keyVars, mouVars
    <2>2. CASE CompleteMou
      <3>1. reads' \in 0 .. MAXIRPCACHE
        BY <2>2, VkbdAssumption DEF IInv, TypeOK, CompleteMou
      <3>2. sentMou' \in [buttons : SUBSET Button, pos : Position]
        BY <2>2 DEF IInv, TypeOK, CompleteMou, MouReport
      <3> QED
        BY <2>2, <3>1, <3>2 DEF IInv, TypeOK, CompleteMou, keyVars
    <2> QED
      BY <2>1, <2>2
  <1>2. NoGhostKeys'
    BY DEF IInv, NoGhostKeys, Held, keyVars
  <1>3. UnsentIsPending'
    BY DEF IInv, TypeOK, UnsentIsPending, CompleteMou, keyVars, mouVars,
           KeyReport, MouReport, IdleKey, IdleMou, NoKeys
  <1>4. IdleWhenFree'
    BY DEF IdleWhenFree
  <1> QED
    BY <1>1, <1>2, <1>3, <1>4 DEF IInv

\* Every step preserves the inductive invariant.
LEMMA StepInv == IInv /\ [Next]_vars => IInv'
  <1> SUFFICES ASSUME IInv, [Next]_vars PROVE IInv'
    OBVIOUS
  <1>0. GoodKeys(keys, down)
    BY DEF IInv, TypeOK, NoGhostKeys, GoodKeys, Held
  <1>1. ASSUME NEW v \in Key, NEW pressed \in BOOLEAN, KeyEvent(v, pressed)
        PROVE  IInv'
    <2>1. GoodKeys(keys', down')
      BY <1>0, <1>1, PressKeyGood, ReleaseKeyGood
      DEF KeyEvent, UpdateArray, UpdateBit
    <2>2. down' \in SUBSET Key /\ modifiers' \in SUBSET Modifier
      BY <1>1 DEF KeyEvent, UpdateBit, IInv, TypeOK
    <2> QED
      BY <1>1, <2>1, <2>2, KeyOutcome DEF KeyEvent, keyVars
  <1>2. ASSUME NEW b \in Modifier, NEW pressed \in BOOLEAN,
               ModifierEvent(b, pressed)
        PROVE  IInv'
    <2>1. modifiers' \in SUBSET Modifier /\ down' \in SUBSET Key
      BY <1>2 DEF ModifierEvent, UpdateBit, IInv, TypeOK
    <2>2. GoodKeys(keys', down')
      BY <1>0, <1>2 DEF ModifierEvent
    <2> QED
      BY <1>2, <2>1, <2>2, KeyOutcome DEF ModifierEvent, keyVars
  <1>3. ASSUME NEW b \in Button, NEW pressed \in BOOLEAN,
               ButtonEvent(b, pressed)
        PROVE  IInv'
    <2>1. /\ buttons' \in SUBSET Button
          /\ pos' \in Position
      BY <1>3 DEF ButtonEvent, UpdateBit, IInv, TypeOK
    <2> QED
      BY <1>3, <2>1, MouOutcome DEF ButtonEvent, mouVars
  <1>4. ASSUME NEW m \in Motion, PosEvent(m)
        PROVE  IInv'
    <2>1. m[1] \in Int /\ m[2] \in Int /\ m[3] \in Int
      BY VkbdAssumption
    <2>2. /\ Limit(m[1], 0, MAXXY) \in 0 .. MAXXY
          /\ Limit(m[2], 0, MAXXY) \in 0 .. MAXXY
          /\ Limit(m[3], -MAXZ, MAXZ) \in -MAXZ .. MAXZ
      <3>1. MAXXY \in Nat /\ MAXZ \in Nat
        BY VkbdAssumption
      <3>2. Limit(m[1], 0, MAXXY) \in 0 .. MAXXY
        BY <2>1, <3>1 DEF Limit
      <3>3. Limit(m[2], 0, MAXXY) \in 0 .. MAXXY
        BY <2>1, <3>1 DEF Limit
      <3>4. Limit(m[3], -MAXZ, MAXZ) \in -MAXZ .. MAXZ
        BY <2>1, <3>1 DEF Limit
      <3> QED
        BY <3>2, <3>3, <3>4
    <2>3. /\ buttons' \in SUBSET Button
          /\ pos' \in Position
      BY <1>4, <2>2 DEF PosEvent, Position, IInv, TypeOK
    <2> QED
      BY <1>4, <2>3, MouOutcome DEF PosEvent, mouVars
  <1>5. CASE Create
    <2>1. TypeOK' /\ IdleWhenFree'
      BY <1>5 DEF Create, IInv, TypeOK, IdleWhenFree
    <2>2. NoGhostKeys'
      BY <1>5 DEF Create, IInv, NoGhostKeys, Held
    <2>3. UnsentIsPending'
      BY <1>5 DEF Create, IInv, UnsentIsPending, IdleWhenFree, KeyReport,
                  MouReport, IdleKey, IdleMou, NoKeys
    <2> QED
      BY <2>1, <2>2, <2>3 DEF IInv
  <1>6. CASE Destroy
    <2>1. TypeOK'
      BY <1>6, IdleTypes DEF Destroy, IInv, TypeOK
    <2>2. NoGhostKeys'
      BY <1>6 DEF Destroy, NoGhostKeys, NoKeys, IsCompact, IsDistinct, Held,
                  Entries, Used
    <2>3. UnsentIsPending' /\ IdleWhenFree'
      BY <1>6 DEF Destroy, UnsentIsPending, IdleWhenFree, KeyReport, MouReport,
                  IdleKey, IdleMou, NoKeys, Origin
    <2> QED
      BY <2>1, <2>2, <2>3 DEF IInv
  <1>7. CASE CacheRead \/ FlushReads \/ UNCHANGED vars
    <2>1. UNCHANGED <<alive, keyVars, mouVars, down>>
      BY <1>7 DEF CacheRead, FlushReads, vars
    <2>2. reads' \in 0 .. MAXIRPCACHE
      BY <1>7, VkbdAssumption DEF CacheRead, FlushReads, vars, IInv, TypeOK
    <2>3. TypeOK'
      BY <2>1, <2>2 DEF IInv, TypeOK, keyVars, mouVars
    <2>4. NoGhostKeys' /\ UnsentIsPending' /\ IdleWhenFree'
      BY <2>1 DEF IInv, NoGhostKeys, UnsentIsPending, IdleWhenFree, Held,
                  KeyReport, MouReport, IdleKey, IdleMou, NoKeys, keyVars, mouVars
    <2> QED
      BY <2>3, <2>4 DEF IInv
  <1> QED
    BY <1>1, <1>2, <1>3, <1>4, <1>5, <1>6, <1>7 DEF Next

\* The inductive invariant holds in every reachable state.
THEOREM Inductive == Spec => []IInv
  BY InitInv, StepInv, PTL DEF Spec

\* The variables keep their types; positions stay in the logical range.
THEOREM TypeCorrect == Spec => []TypeOK
  <1>1. IInv => TypeOK
    BY DEF IInv
  <1> QED
    BY <1>1, Inductive, PTL

\* Keys never lists a key that is not held (vkbd.c, __UpdateArray).
THEOREM KeysAreHeld == Spec => []NoGhostKeys
  <1>1. IInv => NoGhostKeys
    BY DEF IInv
  <1> QED
    BY <1>1, Inductive, PTL

\* A change of state reaches the host or is marked pending (vkbd.c,
\* __Complete and __UpdateMouState).
THEOREM ChangesAreAccountedFor == Spec => []UnsentIsPending
  <1>1. IInv => UnsentIsPending
    BY DEF IInv
  <1> QED
    BY <1>1, Inductive, PTL

\* A held key that leaves Keys was the last of a full array when another key
\* was pressed, or the structure was destroyed (vkbd.c, __UpdateArray).
THEOREM RolloverDrops == Spec => OnlyRolloverDrops
  <1> DEFINE Dropped(v) == /\ \A i \in Slot(KEYS) : keys[i] # NoKey
                           /\ v = keys[KEYS - 1]
                           /\ keys'[KEYS - 1] \in down' \ Held
  <1>1. IInv /\ [Next]_vars =>
          [alive' => \A v \in (Held \ Held') \cap down' : Dropped(v)]_vars
    <2> SUFFICES ASSUME IInv, Next, alive',
                        NEW w \in (Held \ Held') \cap down'
                 PROVE  Dropped(w)
      OBVIOUS
    <2>1. keys \in KeyArray
      BY DEF IInv, TypeOK
    <2>2. keys' # keys
      BY DEF Held
    <2>3. PICK v \in Key, pressed \in BOOLEAN : KeyEvent(v, pressed)
      BY <2>2 DEF Next, ModifierEvent, ButtonEvent, PosEvent, Create, Destroy,
                  CacheRead, FlushReads, keyVars
    <2>4. CASE pressed
      <3>1. keys' = PressKey(keys, v) /\ v \in down'
        BY <2>3, <2>4 DEF KeyEvent, UpdateArray, UpdateBit
      <3> QED
        BY <2>1, <3>1, PressKeyDrops DEF Held
    <2>5. CASE ~pressed
      <3>1. keys' = ReleaseKey(keys, v) /\ v \notin down'
        BY <2>3, <2>5 DEF KeyEvent, UpdateArray, UpdateBit
      <3> QED
        BY <2>1, <3>1, ReleaseKeyDrops DEF Held
    <2> QED
      BY <2>4, <2>5
  <1> QED
    BY <1>1, Inductive, PTL DEF Spec, OnlyRolloverDrops
============================================================================
