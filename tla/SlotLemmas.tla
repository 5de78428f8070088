---------------------------- MODULE SlotLemmas -----------------------------
(* What the operators of Slots preserve, for arrays of any length. *)
EXTENDS Slots, WellFoundedInduction, SequenceTheorems, TLAPS

\* A scan that has where to stop stops at one place.
LEMMA FirstIs ==
    ASSUME NEW n \in Nat, NEW S \in SUBSET Slot(n), S # {}
    PROVE  First(S) \in Slot(n) /\ IsFirst(First(S), S)
  <1> DEFINE Less == {ss \in Nat \X Nat : ss[1] < ss[2]}
  <1>1. IsWellFoundedOn(Less, Nat)
    BY NatLessThanWellFounded DEF OpToRel
  <1>2. S \subseteq Nat
    BY DEF Slot
  <1>3. \E m \in S : \A i \in S : <<i, m>> \notin Less
    <2> HIDE DEF Less
    <2> QED
      BY <1>1, <1>2, WFMin
  <1>4. \A i, m \in Nat : <<i, m>> \notin Less => m <= i
    OBVIOUS
  <1>5. \E m \in S : IsFirst(m, S)
    BY <1>2, <1>3, <1>4 DEF IsFirst
  <1> QED
    BY <1>5 DEF First

\* Moving entries down keeps the type of the array.
LEMMA ShiftDownType ==
    ASSUME NEW n \in Nat, NEW S, NEW nil \in S,
           NEW a \in [Slot(n) -> S], NEW i \in Slot(n)
    PROVE  ShiftDown(a, n, nil, i) \in [Slot(n) -> S]
  <1>1. \A j \in Slot(n) : j < n - 1 => a[j + 1] \in S
    BY DEF Slot
  <1> QED
    BY <1>1 DEF ShiftDown

\* Moving entries down leaves no hole below a used slot.
LEMMA ShiftDownCompact ==
    ASSUME NEW n \in Nat, NEW nil, NEW a, NEW i \in Slot(n),
           IsCompact(a, n, nil)
    PROVE  IsCompact(ShiftDown(a, n, nil, i), n, nil)
  <1> SUFFICES ASSUME NEW j \in Slot(n), NEW k \in Slot(n), j < k,
                      ShiftDown(a, n, nil, i)[k] # nil
               PROVE  ShiftDown(a, n, nil, i)[j] # nil
    BY DEF IsCompact
  <1>1. CASE k < i
    BY <1>1 DEF ShiftDown, IsCompact, Slot
  <1>2. CASE k >= i /\ k < n - 1
    BY <1>2 DEF ShiftDown, IsCompact, Slot
  <1>3. CASE k >= i /\ ~(k < n - 1)
    BY <1>3 DEF ShiftDown, Slot
  <1> QED
    BY <1>1, <1>2, <1>3 DEF Slot

\* Moving entries down repeats no entry.
LEMMA ShiftDownDistinct ==
    ASSUME NEW n \in Nat, NEW nil, NEW a, NEW i \in Slot(n),
           IsDistinct(a, n, nil)
    PROVE  IsDistinct(ShiftDown(a, n, nil, i), n, nil)
  <1> DEFINE b == ShiftDown(a, n, nil, i)
             from(j) == IF j < i THEN j ELSE j + 1
  <1>1. \A j \in Slot(n) : b[j] # nil => from(j) \in Slot(n) /\ b[j] = a[from(j)]
    BY DEF ShiftDown, Slot
  <1>2. \A j, k \in Slot(n) : from(j) = from(k) => j = k
    BY DEF Slot
  <1> QED
    BY <1>1, <1>2 DEF IsDistinct, Used

\* Moving entries down brings in no new entry.
LEMMA ShiftDownEntries ==
    ASSUME NEW n \in Nat, NEW nil, NEW a, NEW i \in Slot(n)
    PROVE  Entries(ShiftDown(a, n, nil, i), n, nil) \subseteq Entries(a, n, nil)
  <1> DEFINE b == ShiftDown(a, n, nil, i)
             from(j) == IF j < i THEN j ELSE j + 1
  <1>1. \A j \in Slot(n) : b[j] # nil => from(j) \in Slot(n) /\ b[j] = a[from(j)]
    BY DEF ShiftDown, Slot
  <1> QED
    BY <1>1 DEF Entries, Used

\* The entry that is moved over is gone when it was there once.
LEMMA ShiftDownRemoves ==
    ASSUME NEW n \in Nat, NEW nil, NEW a, NEW i \in Slot(n),
           IsDistinct(a, n, nil), a[i] # nil
    PROVE  a[i] \notin Entries(ShiftDown(a, n, nil, i), n, nil)
  <1> DEFINE b == ShiftDown(a, n, nil, i)
             from(j) == IF j < i THEN j ELSE j + 1
  <1>1. \A j \in Slot(n) : b[j] # nil => from(j) \in Slot(n) /\ b[j] = a[from(j)]
    BY DEF ShiftDown, Slot
  <1>2. \A j \in Slot(n) : from(j) # i
    BY DEF Slot
  <1> QED
    BY <1>1, <1>2 DEF Entries, IsDistinct, Used

----------------------------------------------------------------------------
\* A compact array has a length.
LEMMA LengthExists ==
    ASSUME NEW n \in Nat, NEW nil, NEW a, IsCompact(a, n, nil)
    PROVE  \E m \in 0 .. n : IsLength(m, a, n, nil)
  <1> DEFINE Free == {i \in Slot(n) : a[i] = nil}
  <1>1. CASE Free = {}
    <2>1. IsLength(n, a, n, nil)
      BY <1>1 DEF IsLength, Slot
    <2> QED
      BY <2>1
  <1>2. CASE Free # {}
    <2>1. PICK m \in Slot(n) : IsFirst(m, Free)
      BY <1>2, FirstIs
    <2>2. IsLength(m, a, n, nil)
      BY <2>1 DEF IsFirst, IsLength, IsCompact, Slot
    <2> QED
      BY <2>2 DEF Slot
  <1> QED
    BY <1>1, <1>2

\* It has only one.
LEMMA LengthIs ==
    ASSUME NEW n \in Nat, NEW nil, NEW a, NEW m, IsLength(m, a, n, nil)
    PROVE  Length(a, n, nil) = m
  <1>1. ASSUME NEW k \in 0 .. n, IsLength(k, a, n, nil)
        PROVE  k = m
    <2>1. ~(k < m)
      BY <1>1 DEF IsLength, Slot
    <2>2. ~(m < k)
      BY <1>1 DEF IsLength, Slot
    <2> QED
      BY <2>1, <2>2 DEF IsLength
  <1>2. m \in 0 .. n
    BY DEF IsLength
  <1> QED
    BY <1>1, <1>2 DEF Length

\* The list has the array's entries in the array's order.
LEMMA AsSeqIs ==
    ASSUME NEW n \in Nat, NEW S, NEW nil \in S, NEW a \in [Slot(n) -> S],
           NEW m, IsLength(m, a, n, nil)
    PROVE  /\ AsSeq(a, n, nil) \in Seq(S)
           /\ Len(AsSeq(a, n, nil)) = m
           /\ \A k \in 1 .. m : AsSeq(a, n, nil)[k] = a[k - 1]
  <1>1. AsSeq(a, n, nil) = [k \in 1 .. m |-> a[k - 1]]
    BY LengthIs DEF AsSeq
  <1>2. m \in Nat /\ \A k \in 1 .. m : a[k - 1] \in S
    BY DEF IsLength, Slot
  <1> QED
    BY <1>1, <1>2

\* a and b differ at most in slot m.
AgreeBut(a, b, n, m) == \A i \in Slot(n) : i # m => b[i] = a[i]

\* Storing into the first free slot appends to the list.
LEMMA AsSeqPut ==
    ASSUME NEW n \in Nat, NEW S, NEW nil \in S, NEW a \in [Slot(n) -> S],
           NEW m, IsLength(m, a, n, nil), m < n,
           NEW b \in [Slot(n) -> S], b[m] # nil,
           AgreeBut(a, b, n, m)
    PROVE  /\ Len(AsSeq(a, n, nil)) = m
           /\ AsSeq(b, n, nil) = Append(AsSeq(a, n, nil), b[m])
  <1> DEFINE s == AsSeq(a, n, nil)
             t == AsSeq(b, n, nil)
  <1>1. m \in Nat /\ m \in Slot(n)
    BY DEF AgreeBut, IsLength, Slot
  <1>2. IsLength(m + 1, b, n, nil)
    BY <1>1 DEF AgreeBut, IsLength, Slot
  <1>3. b[m] \in S
    BY <1>1
  <1>4. s \in Seq(S) /\ Len(s) = m /\ \A k \in 1 .. m : s[k] = a[k - 1]
    BY <1>1, AsSeqIs
  <1>5. t \in Seq(S) /\ Len(t) = m + 1 /\ \A k \in 1 .. m + 1 : t[k] = b[k - 1]
    BY <1>2, AsSeqIs
  <1>6. /\ Append(s, b[m]) \in Seq(S) /\ Len(Append(s, b[m])) = m + 1
        /\ \A k \in 1 .. m : Append(s, b[m])[k] = s[k]
        /\ Append(s, b[m])[m + 1] = b[m]
    BY <1>3, <1>4, AppendProperties
  <1>7. \A k \in 1 .. m + 1 : t[k] = Append(s, b[m])[k]
    <2>1. \A k \in 1 .. m : b[k - 1] = a[k - 1]
      BY <1>1 DEF AgreeBut, Slot
    <2> HIDE DEF s, t
    <2> QED
      BY <1>1, <1>4, <1>5, <1>6, <2>1
  <1>8. t = Append(s, b[m])
    <2> HIDE DEF s, t
    <2> QED
      BY <1>1, <1>5, <1>6, <1>7, SeqEqual
  <1> QED
    BY <1>4, <1>8

\* Taking the entry of slot 0 takes the head of the list.
LEMMA AsSeqTake ==
    ASSUME NEW n \in Nat, NEW S, NEW nil \in S, NEW a \in [Slot(n) -> S],
           IsCompact(a, n, nil), 0 \in Slot(n), a[0] # nil
    PROVE  /\ AsSeq(a, n, nil) # << >>
           /\ Head(AsSeq(a, n, nil)) = a[0]
           /\ AsSeq(ShiftDown(a, n, nil, 0), n, nil) = Tail(AsSeq(a, n, nil))
  <1> DEFINE b == ShiftDown(a, n, nil, 0)
             s == AsSeq(a, n, nil)
             t == AsSeq(b, n, nil)
  <1>1. PICK m \in 0 .. n : IsLength(m, a, n, nil)
    BY LengthExists
  <1>2. m > 0
    BY <1>1 DEF IsLength
  <1>3. IsLength(m - 1, b, n, nil)
    BY <1>1, <1>2 DEF IsLength, ShiftDown, Slot
  <1>4. b \in [Slot(n) -> S]
    BY ShiftDownType
  <1>5. s \in Seq(S) /\ Len(s) = m /\ \A k \in 1 .. m : s[k] = a[k - 1]
    BY <1>1, AsSeqIs
  <1>6. t \in Seq(S) /\ Len(t) = m - 1 /\ \A k \in 1 .. m - 1 : t[k] = b[k - 1]
    <2> HIDE DEF b
    <2> QED
      BY <1>2, <1>3, <1>4, AsSeqIs, m - 1 \in Nat, (m - 1) + 1 = m
  <1>7. s # << >>
    BY <1>2, <1>5, EmptySeq
  <1>8. /\ Tail(s) \in Seq(S) /\ Len(Tail(s)) = m - 1
        /\ \A k \in 1 .. m - 1 : Tail(s)[k] = s[k + 1]
    BY <1>5, <1>7, HeadTailProperties
  <1>9. \A k \in 1 .. m - 1 : b[k - 1] = a[k]
    BY DEF ShiftDown, Slot
  <1>10. \A k \in 1 .. m - 1 : t[k] = Tail(s)[k]
    <2> HIDE DEF b, s, t
    <2> SUFFICES ASSUME NEW k \in 1 .. m - 1
                 PROVE  t[k] = Tail(s)[k]
      OBVIOUS
    <2>1. k + 1 \in 1 .. m /\ (k + 1) - 1 = k
      BY <1>2
    <2>2. s[k + 1] = a[k]
      BY <1>5, <2>1
    <2> QED
      BY <1>6, <1>8, <1>9, <2>2
  <1>11. t = Tail(s)
    <2> HIDE DEF s, t
    <2> QED
      BY <1>6, <1>8, <1>10, SeqEqual
  <1>12. Head(s) = a[0]
    BY <1>2, <1>5
  <1> QED
    BY <1>7, <1>11, <1>12
============================================================================
