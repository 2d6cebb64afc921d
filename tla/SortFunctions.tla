---------------------------- MODULE SortFunctions ----------------------------
(* CFSortIndexes (CFSortFunctions.c): the indexes of a list are sorted by a  *)
(* merge sort, on several cores by sections.  Each section is sorted by its  *)
(* own task; then neighbouring sections are merged by two tasks each, one of *)
(* which keeps the smaller and one the larger half, in rounds of an even and *)
(* an odd phase.  The tasks of a phase run in any order and at the same time *)
(* (dispatch_apply), and the next phase starts when all have ended: they     *)
(* read one of the two buffers and write parts of the other.                 *)
EXTENDS Integers, FiniteSets, Sequences, FiniteSetsExt

CONSTANTS
  Keys,       \* what the comparator tells apart, integers
  Counts,     \* the lengths of lists
  Cores,      \* how many cores there may be
  Unit        \* the sections' size is a multiple of this (16)

VARIABLES
  list,       \* what is sorted: the key of each index
  cores,
  buffer,     \* indexBuffer, and
  tmps,       \* the memory of each section
  phase,      \* <<round, kind>>, where a kind is "sort", "even", "odd" or "done"
  todo        \* the sections whose task of this phase has not run

vars == <<list, cores, buffer, tmps, phase, todo>>

Count == Len(list)
LessOrEqual(i, j) == list[i + 1] <= list[j + 1]
CeilDiv(a, b) == (a + b - 1) \div b

\* The size of the sections, how many there are, and the length of the last.
SectionSize == CeilDiv(CeilDiv(Count, cores), Unit) * Unit
Sections == CeilDiv(Count, SectionSize)
LastLength == Count + SectionSize - SectionSize * Sections
LengthOf(s) == IF s = Sections - 1 THEN LastLength ELSE SectionSize
Section(s) == SubSeq(buffer, s * SectionSize + 1, s * SectionSize + LengthOf(s))
WithSection(b, s, new) ==
  [i \in 1 .. Len(b) |-> IF i \in s * SectionSize + 1 .. s * SectionSize + Len(new)
                         THEN new[i - s * SectionSize] ELSE b[i]]

\* The merge of two sorted lists, built from its end: of equal elements those of
\* the first list are first.
Merge(a, b) ==
  LET merged[i \in 0 .. Len(a), j \in 0 .. Len(b)] ==
        IF i = 0 THEN SubSeq(b, 1, j)
        ELSE IF j = 0 THEN SubSeq(a, 1, i)
        ELSE IF LessOrEqual(a[i], b[j]) THEN Append(merged[i, j - 1], b[j])
        ELSE Append(merged[i - 1, j], a[i])
  IN merged[Len(a), Len(b)]

\* The merge in place: what is merged goes to tmp until one list ends.  When the
\* second ends, the rest of the first moves to the end, then tmp to the front.
SimpleMerge(s, n1) ==
  LET n == Len(s)
      At(i) == s[i + 1]
      \* where the two lists stand when idx elements are in tmp
      stand[idx \in 0 .. n] ==
        IF idx = 0 THEN <<0, n1, <<>>>>
        ELSE LET i == stand[idx - 1][1]  j == stand[idx - 1][2]  tmp == stand[idx - 1][3]
             IN IF n1 <= i \/ n <= j THEN stand[idx - 1]
                ELSE IF LessOrEqual(At(i), At(j)) THEN <<i + 1, j, Append(tmp, At(i))>>
                ELSE <<i, j + 1, Append(tmp, At(j))>>
      tmp == stand[n][3]
      rest == IF n1 <= stand[n][1] THEN s
              ELSE [t \in 1 .. n |-> IF Len(tmp) < t THEN s[t - (n - n1)] ELSE s[t]]
  IN [t \in 1 .. n |-> IF t <= Len(tmp) THEN tmp[t] ELSE rest[t]]

\* Short lists are sorted by comparing and swapping, longer ones by halves.
Swapped(s, i) ==
  IF LessOrEqual(s[i], s[i + 1]) THEN s ELSE [s EXCEPT ![i] = s[i + 1], ![i + 1] = s[i]]
SimpleSort(s) ==
  LET sorted[from \in 0 .. Len(s), n \in 0 .. Len(s)] ==
        LET part == SubSeq(s, from + 1, from + n)
            half == n \div 2
        IN CASE n < 2 -> part
             [] n = 2 -> Swapped(part, 1)
             [] n = 3 -> LET first == Swapped(part, 1)
                             second == Swapped(first, 2)
                         IN IF second = first THEN first ELSE Swapped(second, 1)
             [] OTHER -> SimpleMerge(sorted[from, half] \o sorted[from + half, n - half], half)
  IN sorted[0, Len(s)]

\* The first Len(a), or the last Len(b), of the merge of a and b.
SmallerHalf(a, b) == SubSeq(Merge(a, b), 1, Len(a))
LargerHalf(a, b) == SubSeq(Merge(a, b), Len(a) + 1, Len(a) + Len(b))
----------------------------------------------------------------------------
Init ==
  /\ list \in UNION {[1 .. n -> Keys] : n \in Counts}
  /\ cores \in Cores
  /\ buffer = [i \in 1 .. Count |-> i - 1]
  /\ tmps = [s \in 0 .. Sections - 1 |-> <<>>]
  /\ phase = <<0, "sort">>
  /\ todo = 0 .. Sections - 1

SortSection(s) ==
  /\ phase = <<0, "sort">>
  /\ buffer' = WithSection(buffer, s, SimpleSort(Section(s)))
  /\ todo' = todo \ {s}
  /\ UNCHANGED <<list, cores, tmps, phase>>

\* A task of the even phase merges the sections s and its neighbour of a pair into
\* the memory of s.
MergeEven(s) ==
  /\ phase[2] = "even"
  /\ tmps' = [tmps EXCEPT ![s] = IF s % 2 = 1 THEN LargerHalf(Section(s - 1), Section(s))
                                 ELSE SmallerHalf(Section(s), Section(s + 1))]
  /\ todo' = todo \ {s}
  /\ UNCHANGED <<list, cores, buffer, phase>>

\* One of the odd phase merges what the even phase left for s + 1 and its
\* neighbour back into the list.
MergeOdd(s) ==
  /\ phase[2] = "odd"
  /\ buffer' = WithSection(buffer, s + 1,
                 IF s % 2 = 1 THEN LargerHalf(tmps[s], tmps[s + 1])
                 ELSE SmallerHalf(tmps[s + 1], tmps[s + 2]))
  /\ todo' = todo \ {s}
  /\ UNCHANGED <<list, cores, tmps, phase>>

EvenTasks == 0 .. (Sections \div 2) * 2 - 1
OddTasks == 0 .. ((Sections - 1) \div 2) * 2 - 1
\* One core sorts the list as one section, without rounds.
Rounds == IF cores = 1 THEN 0 ELSE (Sections + 1) \div 2
StartRound(r) ==
  /\ phase' = <<r, IF r < Rounds THEN "even" ELSE "done">>
  /\ todo' = IF r < Rounds THEN EvenTasks ELSE {}

\* After the even phase an odd last section is copied as it is.
StartOdd ==
  /\ tmps' = IF Sections % 2 = 1
             THEN [tmps EXCEPT ![Sections - 1] = Section(Sections - 1)] ELSE tmps
  /\ phase' = <<phase[1], "odd">>
  /\ todo' = OddTasks
  /\ UNCHANGED buffer

\* After the odd phase the first section is copied back, and an even last one.
EndRound ==
  LET first == WithSection(buffer, 0, tmps[0])
  IN /\ buffer' = IF Sections % 2 = 0
                  THEN WithSection(first, Sections - 1, tmps[Sections - 1]) ELSE first
     /\ UNCHANGED tmps
     /\ StartRound(phase[1] + 1)

NextPhase ==
  /\ phase[2] # "done" /\ todo = {}
  /\ \/ phase = <<0, "sort">> /\ StartRound(0) /\ UNCHANGED <<buffer, tmps>>
     \/ phase[2] = "even" /\ StartOdd
     \/ phase[2] = "odd" /\ EndRound
  /\ UNCHANGED <<list, cores>>

Next ==
  \/ \E s \in todo : SortSection(s) \/ MergeEven(s) \/ MergeOdd(s)
  \/ NextPhase
----------------------------------------------------------------------------
TypeOK ==
  /\ cores \in Cores /\ Count \in Counts
  /\ todo \subseteq 0 .. Sections - 1

\* When the last round has ended the indexes are in the order of their keys, and
\* those of equal keys in their own order: there are enough rounds for any number
\* of sections, the last of which may be shorter (CFSortFunctions.c:203-252).
SortedInTheEnd ==
  phase[2] = "done" =>
    /\ {buffer[i] : i \in 1 .. Count} = 0 .. Count - 1
    /\ \A i \in 1 .. Count - 1 :
         \/ list[buffer[i] + 1] < list[buffer[i + 1] + 1]
         \/ list[buffer[i] + 1] = list[buffer[i + 1] + 1] /\ buffer[i] < buffer[i + 1]
==============================================================================
