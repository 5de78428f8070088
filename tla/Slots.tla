------------------------------- MODULE Slots -------------------------------
(***************************************************************************)
(* Fixed C arrays used as lists: Irps[MAXIRPCACHE] of fdo.c and Keys[6] of *)
(* vkbd.c.  Entries are kept in the low slots, in order of arrival; nil    *)
(* (NULL, or usage 0) fills the slots above them.                          *)
(***************************************************************************)
EXTENDS Integers, Sequences

\* The index range of an array of n slots.
Slot(n) == 0 .. n - 1

\* The index at which a C scan over the slots in ascending order stops, when
\* the slots it would stop at are those of S.
IsFirst(i, S) == i \in S /\ \A j \in S : i <= j

First(S) == CHOOSE i \in S : IsFirst(i, S)

Used(a, n, nil) == {i \in Slot(n) : a[i] # nil}

Entries(a, n, nil) == {a[i] : i \in Used(a, n, nil)}

\* Mutant: the last slot is not cleared after the move.
ShiftDownKeepsLast(a, n, nil, i) ==
    [j \in Slot(n) |-> IF j < i \/ j = n - 1 THEN a[j] ELSE a[j + 1]]

\* "for (; Index < n-1; ++Index) a[Index] = a[Index+1]; a[n-1] = nil;"
\* started at Index = i.
ShiftDown(a, n, nil, i) ==
    [j \in Slot(n) |-> IF j < i THEN a[j]
                       ELSE IF j < n - 1 THEN a[j + 1]
                       ELSE nil]

----------------------------------------------------------------------------
\* No used slot lies above a free one.
IsCompact(a, n, nil) ==
    \A i, j \in Slot(n) : (i < j /\ a[j] # nil) => a[i] # nil

\* No entry sits in two slots.
IsDistinct(a, n, nil) ==
    \A i, j \in Used(a, n, nil) : a[i] = a[j] => i = j

\* m is the number of used slots of a compact array.
IsLength(m, a, n, nil) ==
    /\ m \in 0 .. n
    /\ \A i \in Slot(n) : a[i] # nil <=> i < m

Length(a, n, nil) == CHOOSE m \in 0 .. n : IsLength(m, a, n, nil)

\* The list a compact array stands for.
AsSeq(a, n, nil) == [k \in 1 .. Length(a, n, nil) |-> a[k - 1]]
============================================================================
