------------------------------- MODULE Vkbd --------------------------------
(***************************************************************************)
(* The input half of vkbd.c: the events the backend reports change the     *)
(* keyboard and mouse state, and each change goes to the host as a report  *)
(* when a read is cached, or is marked pending when none is.               *)
(*                                                                         *)
(* Events are processed one at a time, in the DPC.  A key, a modifier or a *)
(* button stands for the usage __UsasgeType gives its code: no two codes   *)
(* share a usage (module KeyTable).  The cache of fdo.c is the number of   *)
(* reads in it, which is what the result of FdoCompleteRead depends on     *)
(* (module IrpCache).                                                      *)
(***************************************************************************)
EXTENDS Slots

CONSTANTS Key,          \* usages of type KEYBOARD_KEY
          NoKey,        \* 0, the empty entry of Keys
          Modifier,     \* bits of type KEYBOARD_MODIFIER
          Button,       \* bits of type MOUSE_BUTTON
          Motion,       \* the <<abs_x, abs_y, rel_z>> of position events
          KEYS,         \* the length of Keys: 6
          MAXXY,        \* 32767
          MAXZ,         \* 127
          MAXIRPCACHE   \* reads the cache can hold

ASSUME VkbdAssumption ==
    /\ KEYS \in Nat \ {0}
    /\ NoKey \notin Key
    /\ Motion \subseteq Int \X Int \X Int
    /\ MAXXY \in Nat /\ MAXZ \in Nat /\ MAXIRPCACHE \in Nat

VARIABLES alive,        \* a XENHID_VKBD is allocated
          keys,         \* KeyState.Keys
          modifiers,    \* KeyState.Modifiers
          buttons,      \* MouState.Buttons
          pos,          \* MouState.X, Y, Z
          keyPending,   \* KeyPending
          mouPending,   \* MouPending
          reads,        \* reads in the cache of the function driver
          sentKey,      \* the last keyboard report a read carried
          sentMou,      \* the last mouse report a read carried
          keyFresh,     \* no keyboard report was sent since Vkbd_Create
          mouFresh,     \* no mouse report was sent since Vkbd_Create
          down          \* history: keys pressed and not released

keyVars == <<keys, modifiers, keyPending, sentKey, keyFresh>>
mouVars == <<buttons, pos, mouPending, sentMou, mouFresh>>
vars == <<alive, keyVars, mouVars, reads, down>>

KeyArray == [Slot(KEYS) -> Key \cup {NoKey}]
Position == [x : 0 .. MAXXY, y : 0 .. MAXXY, z : -MAXZ .. MAXZ]

NoKeys == [i \in Slot(KEYS) |-> NoKey]
Origin == [x |-> 0, y |-> 0, z |-> 0]

Held == Entries(keys, KEYS, NoKey)

KeyReport == [modifiers |-> modifiers, keys |-> keys]
MouReport == [buttons |-> buttons, pos |-> pos]

IdleKey == [modifiers |-> {}, keys |-> NoKeys]
IdleMou == [buttons |-> {}, pos |-> Origin]

Init == /\ alive = FALSE
        /\ keys = NoKeys /\ modifiers = {}
        /\ buttons = {} /\ pos = Origin
        /\ keyPending = FALSE /\ mouPending = FALSE
        /\ reads = 0
        /\ sentKey = IdleKey /\ sentMou = IdleMou
        /\ keyFresh = TRUE /\ mouFresh = TRUE
        /\ down = {}

----------------------------------------------------------------------------
\* __UpdateBit
UpdateBit(bits, bit, pressed) ==
    IF pressed THEN bits \cup {bit} ELSE bits \ {bit}

\* Mutant: a full array gives up its first entry.
PressKeyFirst(a, v) ==
    LET stop == {i \in Slot(KEYS) : a[i] \in {v, NoKey}}
    IN  [a EXCEPT ![IF stop = {} THEN 0 ELSE First(stop)] = v]

\* __UpdateArray, pressed: the scan stops at the value or at the first empty
\* slot; a full array gives up its last entry.
PressKey(a, v) ==
    LET stop == {i \in Slot(KEYS) : a[i] \in {v, NoKey}}
    IN  IF stop = {} THEN [a EXCEPT ![KEYS - 1] = v]
                     ELSE [a EXCEPT ![First(stop)] = v]

\* __UpdateArray, released: the entries above the value move down.
ReleaseKey(a, v) ==
    LET found == {i \in Slot(KEYS) : a[i] = v}
    IN  IF found = {} THEN a ELSE ShiftDown(a, KEYS, NoKey, First(found))

UpdateArray(a, v, pressed) ==
    IF pressed THEN PressKey(a, v) ELSE ReleaseKey(a, v)

\* Mutant: only the upper bound is enforced.
LimitMax(val, min, max) == IF val > max THEN max ELSE val

\* __Limit
Limit(val, min, max) ==
    IF val < min THEN min ELSE IF val > max THEN max ELSE val

\* Mutants: the result of FdoCompleteRead is not looked at.
CompleteKeyForgets ==
    \/ /\ reads > 0
       /\ reads' = reads - 1
       /\ sentKey' = KeyReport'
       /\ keyFresh' = FALSE
       /\ UNCHANGED keyPending
    \/ reads = 0 /\ UNCHANGED <<keyPending, reads, sentKey, keyFresh>>

CompleteMouForgets ==
    \/ /\ reads > 0
       /\ reads' = reads - 1
       /\ sentMou' = MouReport'
       /\ mouFresh' = FALSE
       /\ UNCHANGED mouPending
    \/ reads = 0 /\ UNCHANGED <<mouPending, reads, sentMou, mouFresh>>

\* __Complete of the keyboard state: FdoCompleteRead succeeds when a read is
\* cached, otherwise the report is pending.
CompleteKey ==
    \/ /\ reads > 0
       /\ reads' = reads - 1
       /\ sentKey' = KeyReport'
       /\ keyFresh' = FALSE
       /\ UNCHANGED keyPending
    \/ /\ reads = 0
       /\ keyPending' = TRUE
       /\ UNCHANGED <<reads, sentKey, keyFresh>>

\* The same for the mouse state, in __Complete and in __UpdateMouState.
CompleteMou ==
    \/ /\ reads > 0
       /\ reads' = reads - 1
       /\ sentMou' = MouReport'
       /\ mouFresh' = FALSE
       /\ UNCHANGED mouPending
    \/ /\ reads = 0
       /\ mouPending' = TRUE
       /\ UNCHANGED <<reads, sentMou, mouFresh>>

\* __UpdateKeyState, by the type of the usage.
KeyEvent(v, pressed) ==
    /\ alive
    /\ UNCHANGED <<alive, modifiers, mouVars>>
    /\ keys' = UpdateArray(keys, v, pressed)
    /\ down' = UpdateBit(down, v, pressed)
    /\ \/ keys' = keys /\ UNCHANGED <<reads, keyPending, sentKey, keyFresh>>
       \/ keys' # keys /\ CompleteKey

ModifierEvent(bit, pressed) ==
    /\ alive
    /\ UNCHANGED <<alive, keys, mouVars, down>>
    /\ modifiers' = UpdateBit(modifiers, bit, pressed)
    /\ \/ /\ modifiers' = modifiers
          /\ UNCHANGED <<reads, keyPending, sentKey, keyFresh>>
       \/ modifiers' # modifiers /\ CompleteKey

ButtonEvent(bit, pressed) ==
    /\ alive
    /\ UNCHANGED <<alive, keyVars, pos, down>>
    /\ buttons' = UpdateBit(buttons, bit, pressed)
    /\ \/ /\ buttons' = buttons
          /\ UNCHANGED <<reads, mouPending, sentMou, mouFresh>>
       \/ buttons' # buttons /\ CompleteMou

\* __UpdateMouState
PosEvent(m) ==
    /\ alive
    /\ UNCHANGED <<alive, keyVars, buttons, down>>
    /\ pos' = [x |-> Limit(m[1], 0, MAXXY),
               y |-> Limit(m[2], 0, MAXXY),
               z |-> Limit(m[3], -MAXZ, MAXZ)]
    /\ \/ pos' = pos /\ UNCHANGED <<reads, mouPending, sentMou, mouFresh>>
       \/ pos' # pos /\ CompleteMou

\* Vkbd_Create: the structure is allocated zeroed.
Create ==
    /\ ~alive
    /\ alive' = TRUE
    /\ keyPending' = FALSE /\ mouPending' = FALSE
    /\ keyFresh' = TRUE /\ mouFresh' = TRUE
    /\ UNCHANGED <<keys, modifiers, buttons, pos, reads, sentKey, sentMou, down>>

\* Vkbd_Destroy: the two states are zeroed, the two flags are not.
Destroy ==
    /\ alive
    /\ alive' = FALSE
    /\ keys' = NoKeys /\ modifiers' = {}
    /\ buttons' = {} /\ pos' = Origin
    /\ UNCHANGED <<keyPending, mouPending, reads, sentKey, sentMou,
                   keyFresh, mouFresh, down>>

\* The cache of the function driver: __FdoCache stores a read, FdoPauseData
\* takes all of them out.
CacheRead ==
    /\ reads < MAXIRPCACHE
    /\ reads' = reads + 1
    /\ UNCHANGED <<alive, keyVars, mouVars, down>>

FlushReads ==
    /\ reads > 0
    /\ reads' = 0
    /\ UNCHANGED <<alive, keyVars, mouVars, down>>

Next ==
    \/ \E v \in Key, pressed \in BOOLEAN : KeyEvent(v, pressed)
    \/ \E b \in Modifier, pressed \in BOOLEAN : ModifierEvent(b, pressed)
    \/ \E b \in Button, pressed \in BOOLEAN : ButtonEvent(b, pressed)
    \/ \E m \in Motion : PosEvent(m)
    \/ Create \/ Destroy \/ CacheRead \/ FlushReads

Spec == Init /\ [][Next]_vars

----------------------------------------------------------------------------
\* The types of the variables; a position is within the logical range.
TypeOK ==
    /\ alive \in BOOLEAN
    /\ keys \in KeyArray
    /\ modifiers \in SUBSET Modifier
    /\ buttons \in SUBSET Button
    /\ pos \in Position
    /\ keyPending \in BOOLEAN /\ mouPending \in BOOLEAN
    /\ reads \in 0 .. MAXIRPCACHE
    /\ sentKey \in [modifiers : SUBSET Modifier, keys : KeyArray]
    /\ sentMou \in [buttons : SUBSET Button, pos : Position]
    /\ keyFresh \in BOOLEAN /\ mouFresh \in BOOLEAN
    /\ down \in SUBSET Key

\* Keys lists, without hole or repetition, only keys that are held down: the
\* shift of __UpdateArray removes a released key entirely, whatever the array
\* lost to rollover or to a restart in between.
NoGhostKeys ==
    /\ IsCompact(keys, KEYS, NoKey)
    /\ IsDistinct(keys, KEYS, NoKey)
    /\ Held \subseteq down

\* A key that is still held leaves Keys in one way only, short of a restart:
\* it was the last entry of a full array when another key was pressed.
OnlyRolloverDrops ==
    [][ alive' => \A v \in (Held \ Held') \cap down' :
            /\ \A i \in Slot(KEYS) : keys[i] # NoKey
            /\ v = keys[KEYS - 1]
            /\ keys'[KEYS - 1] \in down' \ Held ]_vars

\* The host's picture is current, or a report is marked pending, or nothing
\* was reported since the structure was created and nothing is pressed.  The
\* flag is never cleared: nothing that is reached reads it.
UnsentIsPending ==
    alive => /\ \/ keyPending
                \/ ~keyFresh /\ sentKey = KeyReport
                \/ keyFresh /\ KeyReport = IdleKey
             /\ \/ mouPending
                \/ ~mouFresh /\ sentMou = MouReport
                \/ mouFresh /\ MouReport = IdleMou

\* "ASSERT(IsZeroMemory(Context, sizeof(XENHID_VKBD)))" at the end of
\* Vkbd_Destroy.
FreedIsZero ==
    ~alive => /\ KeyReport = IdleKey /\ MouReport = IdleMou
              /\ ~keyPending /\ ~mouPending

\* Wheel motion that was reported is not reported again by a change of the
\* buttons: rel_z of the event and Z of the report descriptor are relative.
WheelReportedOnce ==
    [][ (buttons' # buttons /\ sentMou' # sentMou /\ ~mouPending)
            => sentMou'.pos.z = 0 ]_vars
============================================================================
