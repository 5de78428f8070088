-------------------------- MODULE VkbdRingProofs ---------------------------
(***************************************************************************)
(* Proofs about VkbdRing for any length of the ring, any range of the      *)
(* index, the 51 and 2^32 of the driver among them, and any number of      *)
(* events.                                                                 *)
(***************************************************************************)
EXTENDS VkbdRing, TLAPS

\* The position of the n-th event in the range of the index.
Pos(n) == n % IndexRange

\* What is in the slot of an event that was not given back: the event, or the
\* first event after the wrap where the last one before it should be.
Intact(c) ==
    \A n \in c .. written - 1 :
        \/ ring[SlotOf(Pos(n))] = n
        \/ ring[SlotOf(Pos(n))] = n + 1 /\ (n + 1) % IndexRange = 0

\* The indices are counters of events, reduced: in_prod counts the events
\* written; in_cons those given back, at most a ring behind and, between two
\* scans, those handled.
GivenBack(c) ==
    /\ inCons = Pos(c)
    /\ dpc # "scan" => c = handled
    /\ written - c <= RingLen
    /\ Intact(c)

\* In a scan Cons counts the events handled, and Prod a number of events that
\* were already written when it was read.
Scanning ==
    /\ cons = Pos(handled)
    /\ \E p \in handled .. written : prod = Pos(p)

IndicesCount ==
    /\ handled <= written
    /\ inProd = Pos(written)
    /\ \E c \in 0 .. handled : GivenBack(c)
    /\ dpc = "scan" => Scanning

\* Nothing is raised once the channel is closed, and after the flush only a
\* late interrupt can have queued the DPC.
QuietAfterFlush ==
    /\ page \notin {"connected", "flushed"} => ~raised
    /\ page # "connected" /\ (queued \/ dpc # "idle") => late

\* From the revocation on, the backend is kept out or the revocation failed.
RevokedOrRefused ==
    page \notin {"connected", "flushed", "closed"} /\ (mapped \/ permitted)
        => refused

IInv == TypeOK /\ IndicesCount /\ QuietAfterFlush /\ RevokedOrRefused

----------------------------------------------------------------------------
\* A remainder is what is left of any multiple.
LEMMA Remainder ==
    ASSUME NEW R \in Nat, R > 0, NEW n \in Nat
    PROVE  /\ n % R \in 0 .. R - 1
           /\ n \div R \in Nat
           /\ n = R * (n \div R) + (n % R)
  OBVIOUS

\* And only what is left: there is one multiple that leaves less than R.
LEMMA RemainderUnique ==
    ASSUME NEW R \in Nat, R > 0, NEW q \in Nat, NEW r \in 0 .. R - 1
    PROVE  (R * q + r) % R = r
  <1> DEFINE n == R * q + r
             d == n \div R
             m == n % R
  <1>1. R * q \in Nat /\ n \in Nat
    OBVIOUS
  <1>2. d \in Nat /\ m \in 0 .. R - 1 /\ n = R * d + m
    BY <1>1, Remainder
  <1> HIDE DEF d, m
  <1>3. R * (q - d) = m - r
    BY <1>1, <1>2
  <1>4. q - d < 1
    <2>1. SUFFICES ASSUME q - d >= 1 PROVE FALSE
      BY <1>2
    <2>2. R * (q - d) >= R
      BY <2>1, <1>2
    <2> QED
      BY <2>2, <1>2, <1>3
  <1>5. q - d > -1
    <2>1. SUFFICES ASSUME d - q >= 1 PROVE FALSE
      BY <1>2
    <2>2. R * (d - q) >= R
      BY <2>1, <1>2
    <2>3. R * (d - q) = r - m
      BY <1>1, <1>2
    <2> QED
      BY <2>2, <2>3, <1>2
  <1> QED
    BY <1>2, <1>3, <1>4, <1>5 DEF m, n

\* Advance follows the events: the index of the next event is the next index.
LEMMA AdvancePos ==
    ASSUME NEW n \in Nat
    PROVE  /\ Pos(n) \in Index
           /\ Advance(Pos(n)) = Pos(n + 1)
  <1> DEFINE R == IndexRange
             q == n \div R
             r == n % R
  <1>1. R \in Nat /\ R > 1
    BY RingAssumption
  <1>2. q \in Nat /\ r \in 0 .. R - 1 /\ n = R * q + r
    BY <1>1, Remainder
  <1>3. (r + 1) % R = (n + 1) % R
    <2> HIDE DEF q, r, R
    <2>1. CASE r + 1 < R
      <3>1. n + 1 = R * q + (r + 1)
        BY <1>1, <1>2
      <3>2. r + 1 = R * 0 + (r + 1)
        BY <1>1, <1>2
      <3> QED
        BY <1>1, <1>2, <2>1, <3>1, <3>2, RemainderUnique
    <2>2. CASE r + 1 = R
      <3>1. n + 1 = R * (q + 1) + 0
        BY <1>1, <1>2, <2>2
      <3>2. r + 1 = R * 1 + 0
        BY <1>1, <1>2, <2>2
      <3> QED
        BY <1>1, <1>2, <3>1, <3>2, RemainderUnique
    <2> QED
      BY <1>1, <1>2, <2>1, <2>2
  <1> QED
    BY <1>2, <1>3 DEF Advance, Pos, Index

\* The distance of two indices is the number of events between them, as long
\* as it is less than the range.
LEMMA Distance ==
    ASSUME NEW c \in Nat, NEW w \in Nat, c <= w, w - c < IndexRange
    PROVE  (Pos(w) - Pos(c)) % IndexRange = w - c
  <1> DEFINE R == IndexRange
             qc == c \div R
             rc == c % R
             qw == w \div R
             rw == w % R
  <1>1. R \in Nat /\ R > 1
    BY RingAssumption
  <1>2. /\ qc \in Nat /\ rc \in 0 .. R - 1 /\ c = R * qc + rc
        /\ qw \in Nat /\ rw \in 0 .. R - 1 /\ w = R * qw + rw
    BY <1>1, Remainder
  <1> SUFFICES (rw - rc) % R = w - c
    BY DEF Pos
  <1> HIDE DEF R, qc, rc, qw, rw
  <1>3. w - c < R
    BY DEF R
  <1>4. R * (qw - qc) = (w - c) + rc - rw
    BY <1>1, <1>2
  <1>5. qw - qc \in {0, 1}
    <2>1. SUFFICES ASSUME qw - qc < 0 \/ qw - qc > 1 PROVE FALSE
      BY <1>2
    <2>2. CASE qw - qc < 0
      <3>1. R * (qc - qw) >= R
        BY <1>1, <1>2, <2>2
      <3>2. R * (qc - qw) = rw - rc - (w - c)
        BY <1>1, <1>2
      <3> QED
        BY <1>1, <1>2, <3>1, <3>2
    <2>3. CASE qw - qc > 1
      <3>1. R * (qw - qc) >= R * 2
        BY <1>1, <1>2, <2>3
      <3> QED
        BY <1>1, <1>2, <1>3, <1>4, <3>1
    <2> QED
      BY <2>1, <2>2, <2>3
  <1>6. CASE qw - qc = 0
    <2>1. rw - rc = w - c
      BY <1>1, <1>2, <1>4, <1>6
    <2>2. rw - rc = R * 0 + (w - c)
      BY <1>1, <1>2, <2>1
    <2> QED
      BY <1>1, <1>2, <1>3, <2>2, RemainderUnique
  <1>7. CASE qw - qc = 1
    <2>1. rw - rc = (w - c) - R
      BY <1>1, <1>2, <1>4, <1>7
    <2>2. ((w - c) - R) % R = w - c
      <3> DEFINE k == w - c
      <3>1. k \in 0 .. R - 1
        BY <1>1, <1>2, <1>3
      <3> HIDE DEF k
      <3>2. (k - R) % R = k
        BY <1>1, <3>1
      <3> QED
        BY <3>2 DEF k
    <2> QED
      BY <2>1, <2>2
  <1> QED
    BY <1>5, <1>6, <1>7

\* Two events less than a ring apart share a slot in one case only: the index
\* wraps between them, and they follow each other.
LEMMA Collision ==
    ASSUME NEW n \in Nat, NEW w \in Nat, n < w, w - n < RingLen,
           SlotOf(Pos(n)) = SlotOf(Pos(w))
    PROVE  w = n + 1 /\ w % IndexRange = 0
  <1> DEFINE R == IndexRange
             L == RingLen
             q == n \div R
             r == n % R
             k == w - n
             a == r \div L
             x == r % L
             m == R \div L
  <1>1. R \in Nat /\ L \in Nat /\ L > 1 /\ L < R /\ R % L = 1
    BY RingAssumption
  <1>2. q \in Nat /\ r \in 0 .. R - 1 /\ n = R * q + r
    BY <1>1, Remainder
  <1>3. a \in Nat /\ x \in 0 .. L - 1 /\ r = L * a + x
    BY <1>1, <1>2, Remainder
  <1>4. m \in Nat /\ R = L * m + 1
    BY <1>1, Remainder
  <1>5. k \in 1 .. L - 1 /\ w = n + k
    BY <1>1
  <1>6. SlotOf(Pos(n)) = x
    BY DEF SlotOf, Pos
  <1>7. SlotOf(Pos(w)) = (w % R) % L
    BY DEF SlotOf, Pos
  <1> HIDE DEF q, r, k, a, x, m, R, L
  <1>8. r + k >= R
    <2>1. SUFFICES ASSUME r + k < R PROVE FALSE
      BY <1>1, <1>2, <1>5
    <2> DEFINE y == r + k
               b == y \div L
    <2>2. y \in 0 .. R - 1 /\ w = R * q + y
      BY <1>1, <1>2, <1>5, <2>1
    <2> HIDE DEF y
    <2>3. w % R = y
      BY <1>1, <1>2, <2>2, RemainderUnique
    <2>4. b \in Nat /\ r + k = L * b + x
      <3>1. y % L = x
        BY <1>6, <1>7, <2>3 DEF L
      <3>2. b \in Nat /\ y = L * b + (y % L)
        BY <1>1, <2>2, Remainder
      <3> QED
        BY <3>1, <3>2 DEF y
    <2> HIDE DEF b
    <2>5. L * (b - a) = k
      BY <1>1, <1>3, <1>5, <2>4, <1>2
    <2>6. b - a >= 1
      <3>1. SUFFICES ASSUME a - b >= 0 PROVE FALSE
        BY <1>3, <2>4
      <3>2. L * (a - b) >= 0
        BY <1>1, <1>3, <2>4, <3>1
      <3>3. L * (a - b) = -k
        BY <1>1, <1>3, <1>5, <2>4, <1>2
      <3> QED
        BY <1>5, <3>2, <3>3
    <2>7. L * (b - a) >= L
      BY <1>1, <1>3, <2>4, <2>6
    <2> QED
      BY <1>1, <1>5, <2>5, <2>7
  <1> DEFINE y == r + k - R
             b == y \div L
  <1>9. y \in 0 .. R - 1 /\ w = R * (q + 1) + y
    BY <1>1, <1>2, <1>5, <1>8
  <1> HIDE DEF y
  <1>10. w % R = y
    <2> DEFINE p == q + 1
    <2>1. p \in Nat /\ w = R * p + y
      BY <1>2, <1>9
    <2> HIDE DEF p
    <2> QED
      BY <1>1, <1>9, <2>1, RemainderUnique
  <1>11. b \in Nat /\ r + k - R = L * b + x
    <2>1. y % L = x
      BY <1>6, <1>7, <1>10 DEF L
    <2>2. b \in Nat /\ y = L * b + (y % L)
      BY <1>1, <1>9, Remainder
    <2> QED
      BY <2>1, <2>2 DEF y
  <1> HIDE DEF b
  <1> DEFINE j == m + b - a
  <1>12. j \in Int /\ L * j = k - 1
    <2>1. k - 1 = L * b + x - r + R - 1
      BY <1>1, <1>2, <1>3, <1>5, <1>11
    <2>2. k - 1 = L * b - L * a + L * m
      BY <1>1, <1>2, <1>3, <1>4, <1>5, <1>11, <2>1
    <2> QED
      BY <1>1, <1>3, <1>4, <1>11, <2>2
  <1> HIDE DEF j
  <1>13. j = 0
    <2>1. CASE j >= 1
      <3>1. L * j >= L
        BY <1>1, <1>12, <2>1
      <3> QED
        BY <1>1, <1>5, <1>12, <3>1
    <2>2. CASE j <= -1
      <3>1. L * j <= -L
        BY <1>1, <1>12, <2>2
      <3> QED
        BY <1>1, <1>5, <1>12, <3>1
    <2> QED
      BY <1>12, <2>1, <2>2
  <1>14. k = 1
    BY <1>1, <1>5, <1>12, <1>13
  <1>15. y = 0
    BY <1>1, <1>2, <1>8, <1>14 DEF y
  <1> QED
    BY <1>5, <1>10, <1>14, <1>15 DEF R

\* An index names a slot of the ring.
LEMMA SlotIs ==
    ASSUME NEW n \in Nat
    PROVE  SlotOf(Pos(n)) \in 0 .. RingLen - 1
  <1>1. Pos(n) \in Nat
    BY AdvancePos, RingAssumption DEF Index
  <1> QED
    BY <1>1, Remainder, RingAssumption DEF SlotOf

----------------------------------------------------------------------------
\* The page of Vkbd_Connect is zeroed and the backend the only one to see it.
LEMMA InitInvariant == Init => IInv
  <1> SUFFICES ASSUME Init PROVE IInv
    OBVIOUS
  <1>1. IndexRange \in Nat /\ IndexRange > 1 /\ MaxEvents \in Nat
    BY RingAssumption
  <1>2. Pos(0) = 0
    <2>1. IndexRange * 0 + 0 = 0
      BY <1>1
    <2> QED
      BY <1>1, <2>1, RemainderUnique DEF Pos
  <1>3. TypeOK
    <2>1. ring \in [0 .. RingLen - 1 -> 0 .. MaxEvents]
      BY <1>1 DEF Init
    <2>2. 0 \in Index
      BY <1>1 DEF Index
    <2>3. /\ inProd = 0 /\ inCons = 0 /\ cons = 0 /\ prod = 0
          /\ written = 0 /\ handled = 0
      BY DEF Init
    <2>4. /\ backend = "idle" /\ dpc = "idle" /\ page = "connected"
          /\ raised = FALSE /\ queued = FALSE /\ late = FALSE
          /\ mapped = TRUE /\ permitted = TRUE /\ refused = FALSE
      BY DEF Init
    <2>5. 0 \in 0 .. MaxEvents
      BY <1>1
    <2>6. /\ inProd \in Index /\ inCons \in Index
          /\ cons \in Index /\ prod \in Index
          /\ written \in 0 .. MaxEvents /\ handled \in 0 .. MaxEvents
      BY <2>2, <2>3, <2>5
    <2> QED
      BY <2>1, <2>4, <2>6 DEF TypeOK
  <1>4. GivenBack(0)
    BY <1>2, RingAssumption DEF Init, GivenBack, Intact
  <1> QED
    BY <1>2, <1>3, <1>4
    DEF Init, IInv, IndicesCount, QuietAfterFlush, RevokedOrRefused

\* An event goes into a slot that was given back, or that holds the event
\* before it, with the wrap in between.
LEMMA ProduceInvariant == IInv /\ Produce => IInv'
  <1> SUFFICES ASSUME IInv, Produce PROVE IInv'
    OBVIOUS
  <1>1. /\ IndexRange \in Nat /\ IndexRange > 1 /\ MaxEvents \in Nat
        /\ RingLen \in Nat /\ RingLen > 1 /\ RingLen < IndexRange
    BY RingAssumption
  <1>2. /\ TypeOK /\ IndicesCount
        /\ written \in Nat /\ handled \in Nat /\ handled <= written
        /\ written < MaxEvents /\ written' = written + 1
        /\ inProd = Pos(written)
    BY <1>1 DEF IInv, TypeOK, IndicesCount, Produce
  <1>3. inProd' = Pos(written') /\ inProd' \in Index
    BY <1>2, AdvancePos DEF Produce
  <1>4. SlotOf(inProd) \in 0 .. RingLen - 1
    BY <1>2, SlotIs
  <1>5. TypeOK'
    BY <1>1, <1>2, <1>3, <1>4
    DEF TypeOK, Produce, dpcVars, grantVars
  <1>6. PICK c \in 0 .. handled : GivenBack(c)
    BY <1>2 DEF IndicesCount
  <1>7. written - c < RingLen
    <2>1. (inProd - inCons) % IndexRange = written - c
      BY <1>1, <1>2, <1>6, Distance DEF GivenBack
    <2> QED
      BY <2>1 DEF Produce
  <1>8. Intact(c)'
    <2> SUFFICES ASSUME NEW n \in c .. written
                 PROVE  \/ ring'[SlotOf(Pos(n))] = n
                        \/ /\ ring'[SlotOf(Pos(n))] = n + 1
                           /\ (n + 1) % IndexRange = 0
      BY <1>2, <1>6 DEF Intact
    <2>1. /\ n \in Nat
          /\ SlotOf(Pos(n)) \in 0 .. RingLen - 1
      BY <1>2, <1>6, SlotIs
    <2>2. ring' = [ring EXCEPT ![SlotOf(inProd)] = written]
          /\ ring \in [0 .. RingLen - 1 -> 0 .. MaxEvents]
      BY <1>2 DEF TypeOK, Produce
    <2>3. CASE n = written
      BY <1>2, <1>4, <2>2, <2>3
    <2>4. CASE n # written /\ SlotOf(Pos(n)) = SlotOf(Pos(written))
      <3>1. written = n + 1 /\ written % IndexRange = 0
        <4>1. n < written /\ written - n < RingLen
          BY <1>1, <1>2, <1>6, <1>7, <2>1, <2>4
        <4> QED
          BY <1>2, <2>1, <2>4, <4>1, Collision
      <3> QED
        BY <1>2, <1>4, <2>2, <2>4, <3>1
    <2>5. CASE n # written /\ SlotOf(Pos(n)) # SlotOf(Pos(written))
      <3>1. ring'[SlotOf(Pos(n))] = ring[SlotOf(Pos(n))]
        BY <1>2, <2>1, <2>2, <2>5
      <3>2. n \in c .. written - 1
        BY <1>2, <1>6, <2>1, <2>5
      <3> QED
        BY <1>6, <3>1, <3>2 DEF GivenBack, Intact
    <2> QED
      BY <2>3, <2>4, <2>5
  <1>9. GivenBack(c)'
    <2>1. written' - c <= RingLen
      BY <1>1, <1>2, <1>6, <1>7
    <2>2. inCons' = inCons /\ dpc' = dpc /\ handled' = handled
      BY DEF Produce, dpcVars
    <2> QED
      BY <1>6, <1>8, <2>1, <2>2 DEF GivenBack, Pos
  <1>10. IndicesCount'
    <2>1. (dpc = "scan" => Scanning)'
      <3> SUFFICES ASSUME dpc = "scan" PROVE Scanning'
        BY DEF Produce, dpcVars
      <3>1. PICK p \in handled .. written : prod = Pos(p)
        BY <1>2 DEF IndicesCount, Scanning
      <3>2. p \in handled' .. written'
        BY <1>2, <3>1 DEF Produce, dpcVars
      <3>3. cons' = Pos(handled') /\ prod' = Pos(p)
        BY <1>2, <3>1 DEF IndicesCount, Scanning, Produce, dpcVars
      <3> QED
        BY <3>2, <3>3 DEF Scanning
    <2>2. c \in 0 .. handled'
      BY <1>6 DEF Produce, dpcVars
    <2>3. handled' <= written'
      BY <1>2 DEF Produce, dpcVars
    <2> QED
      BY <1>3, <1>9, <2>1, <2>2, <2>3 DEF IndicesCount
  <1> QED
    BY <1>5, <1>10
    DEF IInv, Produce, QuietAfterFlush, RevokedOrRefused, dpcVars, grantVars

\* The DPC reads the indices: everything written is in front of it.
LEMMA ReadIndicesInvariant == IInv /\ ReadIndices => IInv'
  <1> SUFFICES ASSUME IInv, ReadIndices PROVE IInv'
    OBVIOUS
  <1>1. /\ TypeOK /\ IndicesCount
        /\ written \in Nat /\ handled \in Nat /\ handled <= written
    BY RingAssumption DEF IInv, TypeOK, IndicesCount
  <1>2. /\ cons' = inCons /\ prod' = inProd /\ dpc = "read"
        /\ dpc' = IF inCons = inProd THEN "idle" ELSE "scan"
        /\ UNCHANGED <<ring, inProd, written, inCons, handled>>
    BY DEF ReadIndices, ringVars
  <1>3. TypeOK'
    BY <1>1, <1>2 DEF TypeOK, ReadIndices, grantVars
  <1>4. PICK c \in 0 .. handled : GivenBack(c)
    BY <1>1 DEF IndicesCount
  <1>5. c = handled /\ inCons = Pos(handled)
    BY <1>2, <1>4 DEF GivenBack
  <1>6. GivenBack(c)'
    BY <1>2, <1>4, <1>5 DEF GivenBack, Intact
  <1>7. Scanning'
    <2>1. written \in handled' .. written'
      BY <1>1, <1>2
    <2>2. cons' = Pos(handled') /\ prod' = Pos(written)
      BY <1>1, <1>2, <1>5 DEF IndicesCount
    <2> QED
      BY <2>1, <2>2 DEF Scanning
  <1>8. IndicesCount'
    BY <1>1, <1>2, <1>4, <1>6, <1>7 DEF IndicesCount
  <1> QED
    BY <1>2, <1>3, <1>8
    DEF IInv, ReadIndices, QuietAfterFlush, RevokedOrRefused, grantVars

\* What TakeEvent finds: an event that was written and not given back.
LEMMA TakeEventFinds ==
    ASSUME IInv, TakeEvent
    PROVE  /\ handled < written
           /\ \/ ring[SlotOf(cons)] = handled
              \/ /\ ring[SlotOf(cons)] = handled + 1
                 /\ (handled + 1) % IndexRange = 0
  <1>1. /\ IndicesCount /\ dpc = "scan" /\ cons # prod
        /\ written \in Nat /\ handled \in Nat
    BY RingAssumption DEF IInv, TypeOK, TakeEvent
  <1>2. PICK p \in handled .. written : prod = Pos(p)
    BY <1>1 DEF IndicesCount, Scanning
  <1>3. cons = Pos(handled)
    BY <1>1 DEF IndicesCount, Scanning
  <1>4. handled < written
    BY <1>1, <1>2, <1>3
  <1>5. PICK c \in 0 .. handled : GivenBack(c)
    BY <1>1 DEF IndicesCount
  <1>6. handled \in c .. written - 1
    BY <1>1, <1>4, <1>5
  <1> QED
    BY <1>3, <1>4, <1>5, <1>6 DEF GivenBack, Intact

LEMMA TakeEventInvariant == IInv /\ TakeEvent => IInv'
  <1> SUFFICES ASSUME IInv, TakeEvent PROVE IInv'
    OBVIOUS
  <1>1. /\ TypeOK /\ IndicesCount /\ MaxEvents \in Nat
        /\ written \in Nat /\ handled \in Nat /\ written <= MaxEvents
    BY RingAssumption DEF IInv, TypeOK
  <1>2. /\ dpc = "scan" /\ dpc' = dpc /\ cons # prod
        /\ cons' = Advance(cons) /\ handled' = handled + 1
        /\ UNCHANGED <<ring, inProd, written, inCons, prod>>
    BY DEF TakeEvent, ringVars
  <1>3. handled < written
    BY TakeEventFinds
  <1>4. cons = Pos(handled)
    BY <1>1, <1>2 DEF IndicesCount, Scanning
  <1>5. cons' = Pos(handled + 1) /\ cons' \in Index
    BY <1>1, <1>2, <1>4, AdvancePos
  <1>6. TypeOK'
    <2>1. handled' \in 0 .. MaxEvents
      BY <1>1, <1>2, <1>3
    <2> QED
      BY <1>1, <1>2, <1>5, <2>1 DEF TypeOK, TakeEvent, grantVars
  <1>7. PICK p \in handled .. written : prod = Pos(p)
    BY <1>1, <1>2 DEF IndicesCount, Scanning
  <1>8. p \in handled' .. written'
    BY <1>1, <1>2, <1>4, <1>7
  <1>9. Scanning'
    <2>1. prod' = Pos(p)
      BY <1>2, <1>7
    <2> QED
      BY <1>2, <1>5, <1>8, <2>1 DEF Scanning
  <1>10. PICK c \in 0 .. handled : GivenBack(c)
    BY <1>1 DEF IndicesCount
  <1>11. c \in 0 .. handled' /\ GivenBack(c)'
    BY <1>1, <1>2, <1>10 DEF GivenBack, Intact
  <1>12. IndicesCount'
    BY <1>1, <1>2, <1>3, <1>9, <1>11 DEF IndicesCount
  <1> QED
    BY <1>2, <1>6, <1>12
    DEF IInv, TakeEvent, QuietAfterFlush, RevokedOrRefused, grantVars

\* Everything handled is given back.
LEMMA PublishConsInvariant == IInv /\ PublishCons => IInv'
  <1> SUFFICES ASSUME IInv, PublishCons PROVE IInv'
    OBVIOUS
  <1>1. /\ TypeOK /\ IndicesCount
        /\ written \in Nat /\ handled \in Nat /\ handled <= written
        /\ RingLen \in Nat
    BY RingAssumption DEF IInv, TypeOK, IndicesCount
  <1>2. /\ dpc = "scan" /\ dpc' = "read" /\ inCons' = cons
        /\ UNCHANGED <<ring, inProd, written, handled, cons, prod>>
    BY DEF PublishCons, ringVars
  <1>3. TypeOK'
    BY <1>1, <1>2 DEF TypeOK, PublishCons, grantVars
  <1>4. PICK c \in 0 .. handled : GivenBack(c)
    BY <1>1 DEF IndicesCount
  <1>5. inCons' = Pos(handled)
    BY <1>1, <1>2 DEF IndicesCount, Scanning
  <1>6. written - handled <= RingLen
    BY <1>1, <1>4 DEF GivenBack
  <1>7. Intact(handled)'
    BY <1>1, <1>2, <1>4 DEF GivenBack, Intact
  <1>8. GivenBack(handled)'
    BY <1>2, <1>5, <1>6, <1>7 DEF GivenBack
  <1>9. IndicesCount'
    BY <1>1, <1>2, <1>8 DEF IndicesCount
  <1> QED
    BY <1>2, <1>3, <1>9
    DEF IInv, PublishCons, QuietAfterFlush, RevokedOrRefused, grantVars

\* The other steps leave the ring and the indices alone.
LEMMA IndicesFrame ==
    ASSUME IndicesCount,
           UNCHANGED <<ring, inProd, written, inCons, cons, prod, handled>>,
           dpc' = dpc \/ (dpc = "idle" /\ dpc' = "read")
    PROVE  IndicesCount'
  <1>1. PICK c \in 0 .. handled : GivenBack(c)
    BY DEF IndicesCount
  <1>2. GivenBack(c)'
    BY <1>1 DEF GivenBack, Intact
  <1>3. (dpc = "scan" => Scanning)'
    BY DEF IndicesCount, Scanning
  <1> QED
    BY <1>1, <1>2, <1>3 DEF IndicesCount

LEMMA OtherInvariant ==
    ASSUME IInv,
           \/ Notify \/ VkbdInterrupt \/ VkbdDpc \/ Map \/ Unmap
           \/ FlushDpcs \/ CloseChannel \/ Revoke
           \/ PutReference \/ FreePage \/ Destroy
    PROVE  IInv'
  <1> USE DEF ringVars, dpcVars, grantVars
  <1>1. TypeOK /\ IndicesCount /\ QuietAfterFlush /\ RevokedOrRefused
    BY DEF IInv
  <1>2. /\ UNCHANGED <<ring, inProd, written, inCons, cons, prod, handled>>
        /\ dpc' = dpc \/ (dpc = "idle" /\ dpc' = "read")
    BY DEF Notify, VkbdInterrupt, VkbdDpc, Map, Unmap, FlushDpcs,
           CloseChannel, Revoke, PutReference, FreePage, Destroy, Step
  <1>3. IndicesCount'
    BY <1>1, <1>2, IndicesFrame
  <1> SUFFICES (TypeOK /\ QuietAfterFlush /\ RevokedOrRefused)'
    BY <1>3 DEF IInv
  <1> USE DEF TypeOK, QuietAfterFlush, RevokedOrRefused
  <1>4. CASE Notify
    BY <1>1, <1>4 DEF Notify
  <1>5. CASE VkbdInterrupt
    BY <1>1, <1>5 DEF VkbdInterrupt
  <1>6. CASE VkbdDpc
    BY <1>1, <1>6 DEF VkbdDpc
  <1>7. CASE Map
    BY <1>1, <1>7 DEF Map
  <1>8. CASE Unmap
    BY <1>1, <1>8 DEF Unmap
  <1>9. CASE FlushDpcs
    BY <1>1, <1>9 DEF FlushDpcs
  <1>10. CASE CloseChannel
    BY <1>1, <1>10 DEF CloseChannel
  <1>11. CASE Revoke
    BY <1>1, <1>11 DEF Revoke
  <1>12. CASE PutReference
    BY <1>1, <1>12 DEF PutReference, Step
  <1>13. CASE FreePage
    BY <1>1, <1>13 DEF FreePage, Step
  <1>14. CASE Destroy
    BY <1>1, <1>14 DEF Destroy, Step
  <1> QED
    BY <1>4, <1>5, <1>6, <1>7, <1>8, <1>9, <1>10, <1>11, <1>12, <1>13, <1>14

LEMMA NextInvariant == IInv /\ [Next]_vars => IInv'
  <1>1. IInv /\ UNCHANGED vars => IInv'
    <2> SUFFICES ASSUME IInv, UNCHANGED vars PROVE IInv'
      OBVIOUS
    <2> USE DEF vars, ringVars, dpcVars, grantVars
    <2>1. IndicesCount'
      BY IndicesFrame DEF IInv
    <2> QED
      BY <2>1 DEF IInv, TypeOK, QuietAfterFlush, RevokedOrRefused
  <1> QED
    BY <1>1, ProduceInvariant, ReadIndicesInvariant, TakeEventInvariant,
       PublishConsInvariant, OtherInvariant
    DEF Next, Dpc

----------------------------------------------------------------------------
\* The inductive invariant: the indices count events, whatever the length of
\* the ring, and what was shut in Vkbd_Disconnect stays shut.
THEOREM RingInductive == Spec => []IInv
  BY InitInvariant, NextInvariant, PTL DEF Spec

\* The variables keep their types; no more events are handled than written.
THEOREM RingTypeCorrect == Spec => []TypeOK
  <1>1. IInv => TypeOK
    BY DEF IInv
  <1> QED
    BY <1>1, RingInductive, PTL

\* VkbdPoll handles the events one by one in the order they were written, but
\* for the last event before the index wraps, in a ring of any length.
THEOREM OrderedHandling == Spec => HandledInOrder
  <1>1. IInv /\ [Next]_vars =>
          [ handled' # handled =>
            LET event == ring[SlotOf(cons)]
            IN  \/ event = handled
                \/ event = handled + 1 /\ event % IndexRange = 0 ]_vars
    <2> SUFFICES ASSUME IInv, Next, handled' # handled
                 PROVE  \/ ring[SlotOf(cons)] = handled
                        \/ /\ ring[SlotOf(cons)] = handled + 1
                           /\ ring[SlotOf(cons)] % IndexRange = 0
      BY DEF vars, dpcVars
    <2>1. TakeEvent
      BY DEF Next, Dpc, Produce, Notify, VkbdInterrupt, VkbdDpc, ReadIndices,
             PublishCons, Map, Unmap, FlushDpcs, CloseChannel, Revoke,
             PutReference, FreePage, Destroy, Step, dpcVars
    <2> QED
      BY <2>1, TakeEventFinds
  <1> QED
    BY <1>1, RingInductive, PTL DEF Spec, HandledInOrder

\* Only an interrupt between the flush and the close lets a DPC run later.
THEOREM LateDpc == Spec => []DpcAfterCloseIsLate
  <1>1. IInv => DpcAfterCloseIsLate
    BY DEF IInv, QuietAfterFlush, DpcAfterCloseIsLate
  <1> QED
    BY <1>1, RingInductive, PTL

\* Only a revocation that failed leaves the backend in the page.
THEOREM KeptOut == Spec => []BackendKeptOut
  <1>1. IInv => BackendKeptOut
    BY DEF IInv, RevokedOrRefused, BackendKeptOut
  <1> QED
    BY <1>1, RingInductive, PTL
============================================================================
