----------------------------- MODULE HidReport -----------------------------
(***************************************************************************)
(* The reports of vkbd.c as bytes, and what the host reads in them by the  *)
(* report descriptor of reportdescr.h.  Vkbd is driven by the key codes of *)
(* the backend, through the table of __UsasgeType.                         *)
(***************************************************************************)
EXTENDS Vkbd, KeyTable

CONSTANT Code           \* key codes the backend sends

TableKeys == {KeyUsage[c] : c \in DOMAIN KeyUsage}
TableModifiers == {ModifierBit[c] : c \in DOMAIN ModifierBit}
TableButtons == {ButtonBit[c] : c \in DOMAIN ButtonBit}

\* The three sets of Vkbd are those of the table, and its bounds are those of
\* a USHORT and of a signed byte.
ASSUME ReportAssumption ==
    /\ Key = TableKeys /\ NoKey = 0
    /\ Modifier = TableModifiers /\ Button = TableButtons
    /\ Code \subseteq Nat
    /\ MAXXY < 65536 /\ MAXZ < 128

\* The events of kbdif.h the driver knows; it ignores the others.
InEvent ==
    [type : {"XENKBD_TYPE_KEY"}, pressed : BOOLEAN, keycode : Code]
    \cup [type : {"XENKBD_TYPE_POS"}, motion : Motion]

\* __UpdateKeyState: a code the table does not list is ignored.
CodeEvent(c, pressed) ==
    \/ c \in DOMAIN KeyUsage /\ KeyEvent(KeyUsage[c], pressed)
    \/ c \in DOMAIN ModifierBit /\ ModifierEvent(ModifierBit[c], pressed)
    \/ c \in DOMAIN ButtonBit /\ ButtonEvent(ButtonBit[c], pressed)

VkbdEvent(event) ==
    \/ /\ event.type = "XENKBD_TYPE_KEY"
       /\ CodeEvent(event.keycode, event.pressed)
    \/ event.type = "XENKBD_TYPE_POS" /\ PosEvent(event.motion)

HidNext == \/ \E event \in InEvent : VkbdEvent(event)
           \/ Create \/ Destroy \/ CacheRead \/ FlushReads

HidSpec == Init /\ [][HidNext]_vars

----------------------------------------------------------------------------
\* The structures XENHID_KEYBOARD and XENHID_MOUSE in memory, little-endian,
\* the second with the byte that rounds its size up to its alignment.
Byte(bits) == LET Of(i) == IF Bits[i] \in bits THEN Bits[i] ELSE 0
              IN  Of(1) + Of(2) + Of(3) + Of(4) + Of(5) + Of(6) + Of(7) + Of(8)

KeyBytes(r) ==
    <<1, Byte(r.modifiers)>> \o [i \in 1 .. KEYS |-> r.keys[i - 1]]

\* Mutant of MouBytes: a pointer position in network byte order.
MouBytesBigEndian(r) ==
    LET x == r.pos.x  y == r.pos.y
    IN  <<2, Byte(r.buttons), x \div 256, x % 256, y \div 256, y % 256,
          r.pos.z % 256, 0>>

MouBytes(r) ==
    LET x == r.pos.x  y == r.pos.y
    IN  <<2, Byte(r.buttons), x % 256, x \div 256, y % 256, y \div 256,
          r.pos.z % 256, 0>>

----------------------------------------------------------------------------
\* The INPUT items of the descriptor, in order, for the two report IDs.
Item(name, size, count) == [name |-> name, size |-> size, count |-> count]

KeyItems == <<Item("modifiers", 1, 8), Item("constant", 8, 1),
              Item("keys", 8, 6)>>

MouItems == <<Item("buttons", 1, 5), Item("constant", 3, 1),
              Item("xy", 16, 2), Item("z", 8, 1)>>

KeyLogicalMaximum == 101

\* How a host finds a field: items follow each other, bit by bit, after the
\* byte of the report ID; no report has more than four.
FirstBit(items, i) ==
    LET Before(j) == IF j < i THEN items[j].size * items[j].count ELSE 0
    IN  8 + Before(1) + Before(2) + Before(3)

\* 2^n, for n up to the size of the widest field.
Power(n) == <<1, 2, 4, 8, 16, 32, 64, 128, 256, 512, 1024, 2048, 4096, 8192,
              16384, 32768, 65536>>[n + 1]

\* What the report is too short for reads as 0.
ByteAt(bytes, i) == IF i > Len(bytes) THEN 0 ELSE bytes[i]

\* A field of up to 16 bits lies in three bytes.
Field(bytes, first, size) ==
    LET i == first \div 8 + 1
        word == ByteAt(bytes, i) + 256 * ByteAt(bytes, i + 1)
                                 + 65536 * ByteAt(bytes, i + 2)
    IN  (word \div Power(first % 8)) % Power(size)

Fields(bytes, items, name) ==
    LET i == CHOOSE j \in 1 .. Len(items) : items[j].name = name
    IN  [k \in 1 .. items[i].count |->
            Field(bytes, FirstBit(items, i) + (k - 1) * items[i].size,
                  items[i].size)]

\* The usages of the modifiers run from 0xE0 in the order of the bits; an
\* entry of the key array outside the logical range is no key.
HostModifiers(bytes) ==
    LET f == Fields(bytes, KeyItems, "modifiers")
    IN  {223 + k : k \in {j \in DOMAIN f : f[j] = 1}}

HostKeys(bytes) ==
    LET f == Fields(bytes, KeyItems, "keys")
    IN  {f[k] : k \in DOMAIN f} \cap 1 .. KeyLogicalMaximum

\* Buttons by number; Z is signed.
HostButtons(bytes) ==
    LET f == Fields(bytes, MouItems, "buttons")
    IN  {k \in DOMAIN f : f[k] = 1}

HostPosition(bytes) ==
    LET xy == Fields(bytes, MouItems, "xy")
        z == Fields(bytes, MouItems, "z")[1]
    IN  [x |-> xy[1], y |-> xy[2], z |-> IF z > 127 THEN z - 256 ELSE z]

----------------------------------------------------------------------------
\* The host reads in a mouse report the buttons, the position and the wheel
\* motion the driver put there, to the bounds of the clamped values.
MouseUnderstood ==
    LET bytes == MouBytes(sentMou)
    IN  /\ HostPosition(bytes) = sentMou.pos
        /\ HostButtons(bytes) = {c - 271 : c \in
               {d \in DOMAIN ButtonBit : ButtonBit[d] \in sentMou.buttons}}

\* The host reads in a keyboard report the modifiers whose codes were pressed
\* when it was sent: the codes 0xE0 to 0xE7 are the usages themselves.
ModifiersUnderstood ==
    HostModifiers(KeyBytes(sentKey)) =
        {c \in DOMAIN ModifierBit : ModifierBit[c] \in sentKey.modifiers}

\* "INPUT (Cnst,Var,Abs)", "INPUT (Data,Ary,Abs)" and "LOGICAL_MAXIMUM (101)"
\* of the descriptor: the host finds in a keyboard report the keys the driver
\* put there.
KeysUnderstood ==
    HostKeys(KeyBytes(sentKey)) = Entries(sentKey.keys, KEYS, NoKey)
============================================================================
