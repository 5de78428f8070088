-------------------------- MODULE HidReportProofs --------------------------
(***************************************************************************)
(* Proofs about HidReport for any key codes, motions and size of the read  *)
(* cache: the host understands what the driver meant.                      *)
(***************************************************************************)
EXTENDS HidReport, VkbdProofs, SequenceTheorems

\* A table of one block has the codes from its first on, and gives them the
\* block's values in order.
LEMMA BlockValue ==
    ASSUME NEW first \in Int, NEW values, Len(values) \in Nat
    PROVE  /\ DOMAIN Value({<<first, values>>})
                  = first .. first + Len(values) - 1
           /\ \A c \in first .. first + Len(values) - 1 :
                  Value({<<first, values>>})[c] = values[c - first + 1]
  <1> DEFINE block == {<<first, values>>}
             n == Len(values)
  <1>1. Rows(block) = {<<first + i - 1, values[i]>> : i \in 1 .. n}
    BY DEF Rows
  <1> HIDE DEF block
  <1>2. Codes(block) = first .. first + n - 1
    <2>1. ASSUME NEW c \in Codes(block)
          PROVE  c \in first .. first + n - 1
      <3>1. PICK i \in 1 .. n : c = <<first + i - 1, values[i]>>[1]
        BY <1>1, <2>1 DEF Codes
      <3> QED
        BY <3>1
    <2>2. ASSUME NEW c \in first .. first + n - 1
          PROVE  c \in Codes(block)
      <3>1. c - first + 1 \in 1 .. n /\ c = first + (c - first + 1) - 1
        OBVIOUS
      <3>2. <<c, values[c - first + 1]>> \in Rows(block)
        BY <1>1, <3>1
      <3> QED
        BY <3>2 DEF Codes
    <2> QED
      BY <2>1, <2>2
  <1>3. ASSUME NEW c \in Codes(block)
        PROVE  Value(block)[c] = values[c - first + 1]
    <2>1. \E r \in Rows(block) : r[1] = c
      BY <1>3 DEF Codes
    <2>2. \A r \in Rows(block) : r[1] = c => r[2] = values[c - first + 1]
      BY <1>1, <1>2
    <2>3. Value(block)[c] = (CHOOSE r \in Rows(block) : r[1] = c)[2]
      BY <1>3 DEF Value
    <2> QED
      BY <2>1, <2>2, <2>3
  <1>4. DOMAIN Value(block) = Codes(block)
    BY DEF Value
  <1> QED
    BY <1>2, <1>3, <1>4 DEF block

\* The codes of the modifiers and of the buttons, and their bits.
LEMMA ModifierBits ==
    /\ DOMAIN ModifierBit = 224 .. 231
    /\ \A c \in 224 .. 231 : ModifierBit[c] = Bits[c - 223]
  <1>1. PICK first \in Int : first = 224
    OBVIOUS
  <1>2. ModifierBit = Value({<<first, Bits>>})
    BY <1>1 DEF ModifierBit
  <1>3. Len(Bits) = 8
    BY DEF Bits
  <1>4. Len(Bits) \in Nat
    BY <1>3
  <1>5. /\ DOMAIN ModifierBit = first .. first + Len(Bits) - 1
        /\ \A c \in first .. first + Len(Bits) - 1 :
              ModifierBit[c] = Bits[c - first + 1]
    BY <1>2, <1>4, BlockValue, Zenon
  <1> QED
    BY <1>1, <1>3, <1>5

LEMMA ButtonBits ==
    /\ DOMAIN ButtonBit = 272 .. 276
    /\ \A c \in 272 .. 276 : ButtonBit[c] = Bits[c - 271]
  <1> DEFINE five == SubSeq(Bits, 1, 5)
  <1>1. PICK first \in Int : first = 272
    OBVIOUS
  <1>2. ButtonBit = Value({<<first, five>>})
    BY <1>1 DEF ButtonBit
  <1>3. /\ Len(five) = 5
        /\ \A i \in 1 .. 5 : five[i] = Bits[i]
    BY DEF Bits
  <1> HIDE DEF five
  <1>4. Len(five) \in Nat
    BY <1>3
  <1>5. /\ DOMAIN ButtonBit = first .. first + Len(five) - 1
        /\ \A c \in first .. first + Len(five) - 1 :
              ButtonBit[c] = five[c - first + 1]
    BY <1>2, <1>4, BlockValue, Zenon
  <1> QED
    BY <1>1, <1>3, <1>5

----------------------------------------------------------------------------
Octet(v) == v \in Nat /\ v < 256
Word(v) == v \in Nat /\ v < 65536
Signed(v) == v \in Int /\ -128 < v /\ v < 128

\* Any bit of a byte is read back.
LEMMA ByteBits ==
    ASSUME NEW bits, NEW k \in 1 .. 8
    PROVE  /\ Octet(Byte(bits))
           /\ (Byte(bits) \div Power(k - 1)) % 2
                  = IF Bits[k] \in bits THEN 1 ELSE 0
  <1>1. Octet(Byte(bits))
    BY DEF Byte, Bits, Octet
  <1>2. (Byte(bits) \div Power(k - 1)) % 2 = IF Bits[k] \in bits THEN 1 ELSE 0
    <2>1. CASE k = 1
      BY <2>1 DEF Byte, Bits, Power
    <2>2. CASE k = 2
      BY <2>2 DEF Byte, Bits, Power
    <2>3. CASE k = 3
      BY <2>3 DEF Byte, Bits, Power
    <2>4. CASE k = 4
      BY <2>4 DEF Byte, Bits, Power
    <2>5. CASE k = 5
      BY <2>5 DEF Byte, Bits, Power
    <2>6. CASE k = 6
      BY <2>6 DEF Byte, Bits, Power
    <2>7. CASE k = 7
      BY <2>7 DEF Byte, Bits, Power
    <2>8. CASE k = 8
      BY <2>8 DEF Byte, Bits, Power
    <2> QED
      BY <2>1, <2>2, <2>3, <2>4, <2>5, <2>6, <2>7, <2>8
  <1> QED
    BY <1>1, <1>2

\* A field of one bit, of a byte and of two is what lies at its place.
LEMMA FieldOfBit ==
    ASSUME NEW bytes, NEW i \in Nat, NEW k \in 1 .. 8,
           \A j \in {i, i + 1, i + 2} : Octet(ByteAt(bytes, j))
    PROVE  Field(bytes, 8 * (i - 1) + k - 1, 1)
               = (ByteAt(bytes, i) \div Power(k - 1)) % 2
  <1> DEFINE first == 8 * (i - 1) + k - 1
             a == ByteAt(bytes, i)
             b == ByteAt(bytes, i + 1)
             c == ByteAt(bytes, i + 2)
  <1>1. first \div 8 + 1 = i /\ first % 8 = k - 1
    OBVIOUS
  <1>2. Octet(a) /\ Octet(b) /\ Octet(c)
    OBVIOUS
  <1>3. Field(bytes, first, 1)
            = ((a + 256 * b + 65536 * c) \div Power(k - 1)) % Power(1)
    BY <1>1 DEF Field
  <1> HIDE DEF a, b, c, first
  <1>4. Power(1) = 2 /\ \E n \in 0 .. 7 : k - 1 = n
    BY DEF Power
  <1>5. PICK d \in Nat : a + 256 * b + 65536 * c = a + 256 * d
    BY <1>2, b + 256 * c \in Nat DEF Octet
  <1>6. ((a + 256 * d) \div Power(k - 1)) % 2 = (a \div Power(k - 1)) % 2
    <2>1. CASE k = 1
      BY <1>2, <2>1 DEF Power, Octet
    <2>2. CASE k = 2
      BY <1>2, <2>2 DEF Power, Octet
    <2>3. CASE k = 3
      BY <1>2, <2>3 DEF Power, Octet
    <2>4. CASE k = 4
      BY <1>2, <2>4 DEF Power, Octet
    <2>5. CASE k = 5
      BY <1>2, <2>5 DEF Power, Octet
    <2>6. CASE k = 6
      BY <1>2, <2>6 DEF Power, Octet
    <2>7. CASE k = 7
      BY <1>2, <2>7 DEF Power, Octet
    <2>8. CASE k = 8
      BY <1>2, <2>8 DEF Power, Octet
    <2> QED
      BY <2>1, <2>2, <2>3, <2>4, <2>5, <2>6, <2>7, <2>8
  <1> QED
    BY <1>3, <1>4, <1>5, <1>6 DEF a, first

LEMMA FieldOfByte ==
    ASSUME NEW bytes, NEW i \in Nat,
           \A j \in {i, i + 1, i + 2} : Octet(ByteAt(bytes, j))
    PROVE  /\ Field(bytes, 8 * (i - 1), 8) = ByteAt(bytes, i)
           /\ Field(bytes, 8 * (i - 1), 16)
                  = ByteAt(bytes, i) + 256 * ByteAt(bytes, i + 1)
  <1> DEFINE first == 8 * (i - 1)
             a == ByteAt(bytes, i)
             b == ByteAt(bytes, i + 1)
             c == ByteAt(bytes, i + 2)
  <1>1. first \div 8 + 1 = i /\ first % 8 = 0
    OBVIOUS
  <1>2. Octet(a) /\ Octet(b) /\ Octet(c)
    OBVIOUS
  <1>3. \A size : Field(bytes, first, size)
            = ((a + 256 * b + 65536 * c) \div Power(0)) % Power(size)
    BY <1>1 DEF Field
  <1> HIDE DEF a, b, c, first
  <1>4. Power(0) = 1 /\ Power(8) = 256 /\ Power(16) = 65536
    BY DEF Power
  <1>5. /\ ((a + 256 * b + 65536 * c) \div 1) % 256 = a
        /\ ((a + 256 * b + 65536 * c) \div 1) % 65536 = a + 256 * b
    BY <1>2 DEF Octet
  <1> QED
    BY <1>3, <1>4, <1>5 DEF a, b, first

\* Where the items lie that the host looks up by name.
LEMMA MouPlaces ==
    ASSUME NEW bytes
    PROVE  /\ Fields(bytes, MouItems, "buttons")
                  = [k \in 1 .. 5 |-> Field(bytes, 8 + (k - 1), 1)]
           /\ Fields(bytes, MouItems, "xy")
                  = [k \in 1 .. 2 |-> Field(bytes, 16 + (k - 1) * 16, 16)]
           /\ Fields(bytes, MouItems, "z")
                  = [k \in 1 .. 1 |-> Field(bytes, 48 + (k - 1) * 8, 8)]
  <1> DEFINE Of(name) == CHOOSE j \in 1 .. Len(MouItems) :
                             MouItems[j].name = name
             Found(i) ==
                 [k \in 1 .. MouItems[i].count |->
                     Field(bytes, FirstBit(MouItems, i)
                                      + (k - 1) * MouItems[i].size,
                           MouItems[i].size)]
  <1>1. Len(MouItems) = 4
    BY DEF MouItems
  <1>2. /\ MouItems[1] = Item("buttons", 1, 5)
        /\ MouItems[2] = Item("constant", 3, 1)
        /\ MouItems[3] = Item("xy", 16, 2)
        /\ MouItems[4] = Item("z", 8, 1)
    BY DEF MouItems
  <1>3. Of("buttons") = 1 /\ Of("xy") = 3 /\ Of("z") = 4
    BY <1>1, <1>2 DEF Item
  <1>4. /\ FirstBit(MouItems, 1) = 8
        /\ FirstBit(MouItems, 3) = 16
        /\ FirstBit(MouItems, 4) = 48
    BY <1>2 DEF FirstBit, Item
  <1>5. \A name : Fields(bytes, MouItems, name) = Found(Of(name))
    BY DEF Fields
  <1>6. Found(1) = [k \in 1 .. 5 |-> Field(bytes, 8 + (k - 1), 1)]
    <2>1. MouItems[1].count = 5 /\ MouItems[1].size = 1
      BY <1>2 DEF Item
    <2>2. Found(1) = [k \in 1 .. 5 |-> Field(bytes, 8 + (k - 1) * 1, 1)]
      BY <1>4, <2>1
    <2>3. \A k \in 1 .. 5 : (k - 1) * 1 = k - 1
      OBVIOUS
    <2> QED
      BY <2>2, <2>3
  <1>7. Found(3) = [k \in 1 .. 2 |-> Field(bytes, 16 + (k - 1) * 16, 16)]
    <2>1. MouItems[3].count = 2 /\ MouItems[3].size = 16
      BY <1>2 DEF Item
    <2> QED
      BY <1>4, <2>1
  <1>8. Found(4) = [k \in 1 .. 1 |-> Field(bytes, 48 + (k - 1) * 8, 8)]
    <2>1. MouItems[4].count = 1 /\ MouItems[4].size = 8
      BY <1>2 DEF Item
    <2> QED
      BY <1>4, <2>1
  <1> HIDE DEF Of, Found
  <1> QED
    BY <1>3, <1>5, <1>6, <1>7, <1>8

LEMMA KeyPlaces ==
    ASSUME NEW bytes
    PROVE  Fields(bytes, KeyItems, "modifiers")
               = [k \in 1 .. 8 |-> Field(bytes, 8 + (k - 1), 1)]
  <1> DEFINE Of(name) == CHOOSE j \in 1 .. Len(KeyItems) :
                             KeyItems[j].name = name
             Found(i) ==
                 [k \in 1 .. KeyItems[i].count |->
                     Field(bytes, FirstBit(KeyItems, i)
                                      + (k - 1) * KeyItems[i].size,
                           KeyItems[i].size)]
  <1>1. Len(KeyItems) = 3
    BY DEF KeyItems
  <1>2. /\ KeyItems[1] = Item("modifiers", 1, 8)
        /\ KeyItems[2] = Item("constant", 8, 1)
        /\ KeyItems[3] = Item("keys", 8, 6)
    BY DEF KeyItems
  <1>3. Of("modifiers") = 1
    BY <1>1, <1>2 DEF Item
  <1>4. FirstBit(KeyItems, 1) = 8
    BY <1>2 DEF FirstBit, Item
  <1>5. \A name : Fields(bytes, KeyItems, name) = Found(Of(name))
    BY DEF Fields
  <1>6. Found(1) = [k \in 1 .. 8 |-> Field(bytes, 8 + (k - 1), 1)]
    <2>1. KeyItems[1].count = 8 /\ KeyItems[1].size = 1
      BY <1>2 DEF Item
    <2>2. Found(1) = [k \in 1 .. 8 |-> Field(bytes, 8 + (k - 1) * 1, 1)]
      BY <1>4, <2>1
    <2>3. \A k \in 1 .. 8 : (k - 1) * 1 = k - 1
      OBVIOUS
    <2> QED
      BY <2>2, <2>3
  <1> HIDE DEF Of, Found
  <1> QED
    BY <1>3, <1>5, <1>6

----------------------------------------------------------------------------
\* What __Limit leaves in a mouse report fits the fields of the structure.
LEMMA PositionFits ==
    ASSUME NEW p \in Position
    PROVE  Word(p.x) /\ Word(p.y) /\ Signed(p.z)
  <1>1. /\ MAXXY \in Nat /\ MAXXY < 65536
        /\ MAXZ \in Nat /\ MAXZ < 128
    BY VkbdAssumption, ReportAssumption
  <1>2. p.x \in 0 .. MAXXY /\ p.y \in 0 .. MAXXY /\ p.z \in -MAXZ .. MAXZ
    BY DEF Position
  <1> QED
    BY <1>1, <1>2 DEF Word, Signed

\* A USHORT in memory, and a signed byte.
LEMMA WordBytes ==
    ASSUME NEW v, Word(v)
    PROVE  /\ Octet(v % 256)
           /\ Octet(v \div 256)
           /\ (v % 256) + 256 * (v \div 256) = v
  BY DEF Word, Octet

LEMMA SignedByte ==
    ASSUME NEW v, Signed(v)
    PROVE  /\ Octet(v % 256)
           /\ (IF v % 256 > 127 THEN (v % 256) - 256 ELSE v % 256) = v
  <1>1. CASE v >= 0
    <2>1. v % 256 = v
      BY <1>1 DEF Signed
    <2> QED
      BY <1>1, <2>1 DEF Signed, Octet
  <1>2. CASE v < 0
    <2>1. v % 256 = v + 256
      BY <1>2 DEF Signed
    <2> QED
      BY <1>2, <2>1 DEF Signed, Octet
  <1> QED
    BY <1>1, <1>2 DEF Signed

\* A mouse report of the driver, byte by byte.
LEMMA MouReportBytes ==
    ASSUME NEW r, r.pos \in Position
    PROVE  /\ ByteAt(MouBytes(r), 2) = Byte(r.buttons)
           /\ ByteAt(MouBytes(r), 3) + 256 * ByteAt(MouBytes(r), 4) = r.pos.x
           /\ ByteAt(MouBytes(r), 5) + 256 * ByteAt(MouBytes(r), 6) = r.pos.y
           /\ ByteAt(MouBytes(r), 7) = r.pos.z % 256
           /\ \A j \in 2 .. 9 : Octet(ByteAt(MouBytes(r), j))
  <1> DEFINE bytes == MouBytes(r)
  <1>1. bytes = <<2, Byte(r.buttons), r.pos.x % 256, r.pos.x \div 256,
                  r.pos.y % 256, r.pos.y \div 256, r.pos.z % 256, 0>>
    BY DEF MouBytes
  <1> HIDE DEF bytes
  <1>2. /\ ByteAt(bytes, 2) = Byte(r.buttons)
        /\ ByteAt(bytes, 3) = r.pos.x % 256
        /\ ByteAt(bytes, 4) = r.pos.x \div 256
        /\ ByteAt(bytes, 5) = r.pos.y % 256
        /\ ByteAt(bytes, 6) = r.pos.y \div 256
        /\ ByteAt(bytes, 7) = r.pos.z % 256
        /\ ByteAt(bytes, 8) = 0
        /\ ByteAt(bytes, 9) = 0
    BY <1>1 DEF ByteAt
  <1>3. /\ Octet(r.pos.x % 256) /\ Octet(r.pos.x \div 256)
        /\ (r.pos.x % 256) + 256 * (r.pos.x \div 256) = r.pos.x
    BY WordBytes, PositionFits
  <1>4. /\ Octet(r.pos.y % 256) /\ Octet(r.pos.y \div 256)
        /\ (r.pos.y % 256) + 256 * (r.pos.y \div 256) = r.pos.y
    BY WordBytes, PositionFits
  <1>5. Octet(r.pos.z % 256) /\ Octet(Byte(r.buttons)) /\ Octet(0)
    BY SignedByte, ByteBits, PositionFits DEF Octet
  <1>6. \A j \in 2 .. 9 : Octet(ByteAt(bytes, j))
    <2>1. \A j \in 2 .. 9 : j \in {2, 3, 4, 5, 6, 7, 8, 9}
      OBVIOUS
    <2> QED
      BY <1>2, <1>3, <1>4, <1>5, <2>1
  <1> QED
    BY <1>2, <1>3, <1>4, <1>6 DEF bytes

LEMMA PositionRead ==
    ASSUME NEW r, r.pos \in Position
    PROVE  HostPosition(MouBytes(r)) = r.pos
  <1> DEFINE bytes == MouBytes(r)
             f == Fields(bytes, MouItems, "xy")
             z == Fields(bytes, MouItems, "z")[1]
  <1> HIDE DEF bytes
  <1>1. Signed(r.pos.z)
    BY PositionFits
  <1>2. /\ ByteAt(bytes, 3) + 256 * ByteAt(bytes, 4) = r.pos.x
        /\ ByteAt(bytes, 5) + 256 * ByteAt(bytes, 6) = r.pos.y
        /\ ByteAt(bytes, 7) = r.pos.z % 256
        /\ \A j \in 2 .. 9 : Octet(ByteAt(bytes, j))
    BY MouReportBytes DEF bytes
  <1>3. f[1] = Field(bytes, 16, 16) /\ f[2] = Field(bytes, 32, 16)
    BY MouPlaces
  <1>4. z = Field(bytes, 48, 8)
    BY MouPlaces
  <1>5. Field(bytes, 16, 16) = r.pos.x
    <2>1. \A j \in {3, 3 + 1, 3 + 2} : Octet(ByteAt(bytes, j))
      BY <1>2
    <2> QED
      BY <1>2, <2>1, FieldOfByte
  <1>6. Field(bytes, 32, 16) = r.pos.y
    <2>1. \A j \in {5, 5 + 1, 5 + 2} : Octet(ByteAt(bytes, j))
      BY <1>2
    <2> QED
      BY <1>2, <2>1, FieldOfByte
  <1>7. Field(bytes, 48, 8) = r.pos.z % 256
    <2>1. \A j \in {7, 7 + 1, 7 + 2} : Octet(ByteAt(bytes, j))
      BY <1>2
    <2> QED
      BY <1>2, <2>1, FieldOfByte
  <1>8. (IF z > 127 THEN z - 256 ELSE z) = r.pos.z
    BY <1>1, <1>4, <1>7, SignedByte
  <1>9. HostPosition(bytes) = [x |-> r.pos.x, y |-> r.pos.y, z |-> r.pos.z]
    BY <1>3, <1>5, <1>6, <1>8 DEF HostPosition
  <1> QED
    BY <1>9 DEF Position, bytes

LEMMA ButtonsRead ==
    ASSUME NEW r, r.pos \in Position
    PROVE  HostButtons(MouBytes(r)) = {c - 271 : c \in
               {d \in DOMAIN ButtonBit : ButtonBit[d] \in r.buttons}}
  <1> DEFINE bytes == MouBytes(r)
             f == Fields(bytes, MouItems, "buttons")
  <1> HIDE DEF bytes
  <1>1. /\ ByteAt(bytes, 2) = Byte(r.buttons)
        /\ \A j \in {2, 2 + 1, 2 + 2} : Octet(ByteAt(bytes, j))
    <2>1. \A j \in {2, 2 + 1, 2 + 2} : j \in 2 .. 9
      OBVIOUS
    <2> QED
      BY <2>1, MouReportBytes DEF bytes
  <1>2. f = [k \in 1 .. 5 |-> Field(bytes, 8 + (k - 1), 1)]
    BY MouPlaces
  <1>3. ASSUME NEW k \in 1 .. 5
        PROVE  f[k] = 1 <=> Bits[k] \in r.buttons
    <2> k \in 1 .. 8
      OBVIOUS
    <2>1. Field(bytes, 8 * (2 - 1) + k - 1, 1)
              = (Byte(r.buttons) \div Power(k - 1)) % 2
      BY <1>1, FieldOfBit
    <2>2. f[k] = (Byte(r.buttons) \div Power(k - 1)) % 2
      BY <1>2, <2>1, 8 * (2 - 1) + k - 1 = 8 + (k - 1)
    <2> QED
      BY <2>2, ByteBits
  <1>4. HostButtons(bytes) = {k \in 1 .. 5 : Bits[k] \in r.buttons}
    BY <1>2, <1>3 DEF HostButtons
  <1>5. {d \in DOMAIN ButtonBit : ButtonBit[d] \in r.buttons}
            = {d \in 272 .. 276 : Bits[d - 271] \in r.buttons}
    BY ButtonBits
  <1> HIDE DEF f
  <1>6. {k \in 1 .. 5 : Bits[k] \in r.buttons}
            = {c - 271 : c \in
                   {d \in 272 .. 276 : Bits[d - 271] \in r.buttons}}
    <2>1. \A k \in 1 .. 5 : /\ k + 271 \in 272 .. 276
                            /\ (k + 271) - 271 = k
      OBVIOUS
    <2>2. \A c \in 272 .. 276 : c - 271 \in 1 .. 5
      OBVIOUS
    <2> QED
      BY <2>1, <2>2
  <1> QED
    BY <1>4, <1>5, <1>6 DEF bytes

\* A keyboard report of the driver, as far as the modifiers reach.
LEMMA KeyReportBytes ==
    ASSUME NEW r \in [modifiers : SUBSET Modifier, keys : KeyArray]
    PROVE  /\ ByteAt(KeyBytes(r), 2) = Byte(r.modifiers)
           /\ \A j \in {2, 2 + 1, 2 + 2} : Octet(ByteAt(KeyBytes(r), j))
  <1> DEFINE head == <<1, Byte(r.modifiers)>>
             tail == [i \in 1 .. KEYS |-> r.keys[i - 1]]
             bytes == KeyBytes(r)
  <1>1. Octet(Byte(r.modifiers))
    BY ByteBits
  <1>2. \A i \in 1 .. KEYS : Octet(tail[i])
    <2>1. \A v \in Key \cup {NoKey} : Octet(v)
      BY ReportAssumption, TableAssumption DEF TableKeys, Octet
    <2>2. \A i \in 1 .. KEYS : i - 1 \in Slot(KEYS)
      BY VkbdAssumption DEF Slot
    <2> QED
      BY <2>1, <2>2 DEF KeyArray
  <1>3. head \in Seq(Int) /\ Len(head) = 2
    BY <1>1 DEF Octet
  <1>4. tail \in Seq(Int) /\ Len(tail) = KEYS
    BY <1>2, VkbdAssumption DEF Octet
  <1>5. bytes = head \o tail
    BY DEF KeyBytes
  <1> HIDE DEF bytes, head, tail
  <1>6. /\ Len(bytes) = 2 + KEYS
        /\ bytes[2] = head[2]
        /\ \A j \in 3 .. 2 + KEYS : bytes[j] = tail[j - 2]
    <2>1. /\ Len(bytes) = Len(head) + Len(tail)
          /\ \A j \in 1 .. Len(head) + Len(tail) :
                bytes[j] = IF j <= Len(head) THEN head[j]
                                             ELSE tail[j - Len(head)]
      BY <1>3, <1>4, <1>5, ConcatProperties, Zenon
    <2> QED
      BY <1>3, <1>4, <2>1, VkbdAssumption
  <1>7. ByteAt(bytes, 2) = Byte(r.modifiers)
    BY <1>6, VkbdAssumption DEF ByteAt, head
  <1>8. \A j \in {3, 4} : Octet(ByteAt(bytes, j))
    <2>1. ASSUME NEW j \in {3, 4}
          PROVE  ByteAt(bytes, j) = IF j > 2 + KEYS THEN 0 ELSE tail[j - 2]
      BY <1>6, VkbdAssumption DEF ByteAt
    <2>2. ASSUME NEW j \in {3, 4}, ~(j > 2 + KEYS)
          PROVE  j - 2 \in 1 .. KEYS
      BY <2>2, VkbdAssumption
    <2> QED
      BY <1>2, <2>1, <2>2 DEF Octet
  <1> QED
    BY <1>1, <1>7, <1>8 DEF bytes

LEMMA ModifiersRead ==
    ASSUME NEW r \in [modifiers : SUBSET Modifier, keys : KeyArray]
    PROVE  HostModifiers(KeyBytes(r)) =
               {c \in DOMAIN ModifierBit : ModifierBit[c] \in r.modifiers}
  <1> DEFINE bytes == KeyBytes(r)
             f == Fields(bytes, KeyItems, "modifiers")
  <1> HIDE DEF bytes
  <1>1. /\ ByteAt(bytes, 2) = Byte(r.modifiers)
        /\ \A j \in {2, 2 + 1, 2 + 2} : Octet(ByteAt(bytes, j))
    BY KeyReportBytes DEF bytes
  <1>2. f = [k \in 1 .. 8 |-> Field(bytes, 8 + (k - 1), 1)]
    BY KeyPlaces
  <1>3. ASSUME NEW k \in 1 .. 8
        PROVE  f[k] = 1 <=> Bits[k] \in r.modifiers
    <2>1. Field(bytes, 8 * (2 - 1) + k - 1, 1)
              = (Byte(r.modifiers) \div Power(k - 1)) % 2
      BY <1>1, FieldOfBit
    <2>2. f[k] = (Byte(r.modifiers) \div Power(k - 1)) % 2
      BY <1>2, <2>1, 8 * (2 - 1) + k - 1 = 8 + (k - 1)
    <2> QED
      BY <2>2, ByteBits
  <1>4. HostModifiers(bytes)
            = {223 + k : k \in {j \in 1 .. 8 : Bits[j] \in r.modifiers}}
    BY <1>2, <1>3 DEF HostModifiers
  <1> HIDE DEF f
  <1>5. {223 + k : k \in {j \in 1 .. 8 : Bits[j] \in r.modifiers}}
            = {c \in 224 .. 231 : Bits[c - 223] \in r.modifiers}
    <2>1. \A k \in 1 .. 8 : /\ 223 + k \in 224 .. 231
                            /\ (223 + k) - 223 = k
      OBVIOUS
    <2>2. \A c \in 224 .. 231 : /\ c - 223 \in 1 .. 8
                                /\ 223 + (c - 223) = c
      OBVIOUS
    <2> QED
      BY <2>1, <2>2
  <1>6. {c \in DOMAIN ModifierBit : ModifierBit[c] \in r.modifiers}
            = {c \in 224 .. 231 : Bits[c - 223] \in r.modifiers}
    BY ModifierBits
  <1> QED
    BY <1>4, <1>5, <1>6 DEF bytes

----------------------------------------------------------------------------
\* An event of the backend is one of Vkbd: the table gives a code a usage or a
\* bit of the sets Vkbd knows.
LEMMA HidStep == [HidNext]_vars => [Next]_vars
  <1>1. ASSUME NEW event \in InEvent, VkbdEvent(event)
        PROVE  Next
    <2>1. CASE /\ event.type = "XENKBD_TYPE_KEY"
               /\ CodeEvent(event.keycode, event.pressed)
      <3>1. event.pressed \in BOOLEAN
        BY <2>1 DEF InEvent
      <3>2. \A c \in DOMAIN KeyUsage : KeyUsage[c] \in Key
        BY ReportAssumption DEF TableKeys
      <3>3. \A c \in DOMAIN ModifierBit : ModifierBit[c] \in Modifier
        BY ReportAssumption DEF TableModifiers
      <3>4. \A c \in DOMAIN ButtonBit : ButtonBit[c] \in Button
        BY ReportAssumption DEF TableButtons
      <3> QED
        BY <2>1, <3>1, <3>2, <3>3, <3>4 DEF CodeEvent, Next
    <2>2. CASE event.type = "XENKBD_TYPE_POS" /\ PosEvent(event.motion)
      <3>1. event.motion \in Motion
        BY <2>2 DEF InEvent
      <3> QED
        BY <2>2, <3>1 DEF Next
    <2> QED
      BY <1>1, <2>1, <2>2 DEF VkbdEvent
  <1> QED
    BY <1>1 DEF HidNext, Next

\* The key codes drive Vkbd and nothing else: what is proved of it holds with
\* the codes of the backend through the table of __UsasgeType.
THEOREM ImplementsVkbd == HidSpec => Spec
  BY HidStep, PTL DEF HidSpec, Spec

\* The reports that are sent have the types of the driver's structures, the
\* position in its logical range, for any key codes.
THEOREM HidTypeCorrect == HidSpec => []TypeOK
  BY ImplementsVkbd, TypeCorrect, PTL

\* __Complete: what the host was not told of a key, a button or a motion is
\* pending, for any key codes.
THEOREM HidChangesAreAccountedFor == HidSpec => []UnsentIsPending
  BY ImplementsVkbd, ChangesAreAccountedFor, PTL

\* A host that reads XENHID_MOUSE by the report descriptor finds the buttons,
\* the position and the signed wheel motion the driver put there.
THEOREM HostUnderstandsMouse == HidSpec => []MouseUnderstood
  <1>1. TypeOK => MouseUnderstood
    BY PositionRead, ButtonsRead DEF TypeOK, MouseUnderstood
  <1> QED
    BY <1>1, HidTypeCorrect, PTL

\* A host that reads XENHID_KEYBOARD by the report descriptor finds the
\* modifiers whose codes were pressed.
THEOREM HostUnderstandsModifiers == HidSpec => []ModifiersUnderstood
  <1>1. TypeOK => ModifiersUnderstood
    BY ModifiersRead DEF TypeOK, ModifiersUnderstood
  <1> QED
    BY <1>1, HidTypeCorrect, PTL
============================================================================
