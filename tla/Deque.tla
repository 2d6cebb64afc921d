-------------------------------- MODULE Deque --------------------------------
(* The store of a mutable CFArray (CFArray.c): buckets of which the values   *)
(* take a run somewhere in the middle, with room on both sides.  Every call  *)
(* becomes a replacement of a range, which moves the smaller of the parts    *)
(* before (A) and after (C) the range, centers everything again, or takes a  *)
(* larger store.  `values` is the sequence that the array stands for, and    *)
(* `held` how often each value was retained less how often it was released.  *)
EXTENDS Integers, FiniteSets, Sequences, SequencesExt

CONSTANTS
  Items,       \* the values, positive integers
  Wiggle,      \* the room that is kept (4, or 1/131072 of the capacity)
  MinCapacity, \* the least capacity (4)
  MaxLength,   \* bound: the length of the array
  MaxNew       \* bound: how many values one call brings

VARIABLES store, count, values, held

vars == <<store, count, values, held>>

NoStore == [left |-> 0, capacity |-> 0, buckets |-> <<>>]
Garbage == 0
Zero == -1
Filled(n, what) == [b \in 0 .. n - 1 |-> what]

\* The power of two above the capacity.
RoundUp(capacity) ==
  IF capacity < MinCapacity THEN MinCapacity
  ELSE CHOOSE p \in {2 ^ e : e \in 0 .. 8} : capacity < p /\ p <= 2 * capacity

\* memmove and memset, on buckets.
Moved(buckets, to, source, from, n) ==
  [b \in DOMAIN buckets |-> IF b \in to .. to + n - 1 THEN source[from + b - to] ELSE buckets[b]]
Cleared(buckets, from, n) ==
  [b \in DOMAIN buckets |-> IF b \in from .. from + n - 1 THEN Zero ELSE buckets[b]]

\* The store with a gap of n buckets for the range of b values at a.
Reposition(s, cnt, a, b, n) ==
  LET c == cnt - b - a
      future == cnt - b + n
      right == s.capacity - cnt - s.left
      more == n - b
      oldC == s.left + a + b
      Larger ==
        LET capacity == RoundUp(future + Wiggle)
            left == (capacity - future) \div 2
            new == Filled(capacity, Garbage)
        IN [left |-> left, capacity |-> capacity,
            buckets |-> Moved(Moved(new, left, s.buckets, s.left, a),
                              left + a + n, s.buckets, oldC, c)]
      MoveC ==
        LET newC == s.left + a + n
        IN [s EXCEPT !.buckets =
              Cleared(Moved(s.buckets, newC, s.buckets, oldC, c), newC + c, oldC - newC)]
      MoveA ==
        LET left == s.left - more
        IN [s EXCEPT !.left = left, !.buckets =
              Cleared(Moved(s.buckets, left, s.buckets, s.left, a), s.left, left - s.left)]
      Center ==
        LET half == (s.left + right - more) \div 2
            left == half - half \div 2
            newC == left + a + n
            first == Moved(s.buckets, left, s.buckets, s.left, a)
            last == Moved(s.buckets, newC, s.buckets, oldC, c)
        IN [s EXCEPT !.left = left, !.buckets =
              IF left < s.left
              THEN Cleared(Moved(first, newC, first, oldC, c), newC + c, oldC - newC)
              ELSE Cleared(Moved(last, left, last, s.left, a), s.left, left - s.left)]
  IN CASE s.capacity < future \/ (cnt < future /\ s.left + right < Wiggle) -> Larger
       [] more <= right /\ c < a -> MoveC
       [] more < 0 \/ (more <= s.left /\ a <= c) -> MoveA
       [] OTHER -> Center

\* The first store, with the new values in the middle.
NewStore(future, n) ==
  LET capacity == RoundUp(future)
  IN [left |-> (capacity - n) \div 2, capacity |-> capacity,
      buckets |-> Filled(capacity, Garbage)]

ReplaceIn(s, cnt, a, b, new) ==
  LET n == Len(new)
      released == [s EXCEPT !.buckets = Cleared(@, s.left + a, b)]
      ready == IF s = NoStore THEN NewStore(cnt - b + n, n)
               ELSE IF b # n THEN Reposition(released, cnt, a, b, n) ELSE released
  IN [ready EXCEPT !.buckets =
        Moved(@, ready.left + a, [i \in 0 .. n - 1 |-> new[i + 1]], 0, n)]

ValueAt(i) == store.buckets[store.left + i]
Replaced(a, b, new) == SubSeq(values, 1, a) \o new \o SubSeq(values, a + b + 1, Len(values))
Occurs(s, v) == Cardinality({i \in DOMAIN s : s[i] = v})
----------------------------------------------------------------------------
Init ==
  /\ store = NoStore
  /\ count = 0
  /\ values = <<>>
  /\ held = [v \in Items |-> 0]

\* _CFArrayReplaceValues: the new values are retained, the old ones released.
ReplaceValues(a, b, new) ==
  /\ store' = ReplaceIn(store, count, a, b, new)
  /\ count' = count - b + Len(new)
  /\ held' = [v \in Items |-> held[v] + Occurs(new, v)
                              - Cardinality({i \in a .. a + b - 1 : ValueAt(i) = v})]
  /\ values' = Replaced(a, b, new)

AppendValue(v) == ReplaceValues(count, 0, <<v>>)
InsertValueAtIndex(a, v) == ReplaceValues(a, 0, <<v>>)
RemoveValueAtIndex(a) == ReplaceValues(a, 1, <<>>)

\* A value past the last one is appended; another one is changed in its bucket.
SetValueAtIndex(a, v) ==
  \/ a = count /\ ReplaceValues(a, 0, <<v>>)
  \/ /\ a < count
     /\ store' = [store EXCEPT !.buckets[store.left + a] = v]
     /\ held' = [w \in Items |-> held[w] + (IF w = v THEN 1 ELSE 0)
                                         - (IF w = ValueAt(a) THEN 1 ELSE 0)]
     /\ values' = [values EXCEPT ![a + 1] = v]
     /\ UNCHANGED count

ExchangeValuesAtIndices(a, b) ==
  /\ store' = [store EXCEPT !.buckets[store.left + a] = ValueAt(b),
                            !.buckets[store.left + b] = ValueAt(a)]
  /\ values' = [values EXCEPT ![a + 1] = values[b + 1], ![b + 1] = values[a + 1]]
  /\ UNCHANGED <<count, held>>

RemoveAllValues ==
  /\ store' = NoStore
  /\ count' = 0
  /\ values' = <<>>
  /\ held' = [v \in Items |->
                held[v] - Cardinality({i \in 0 .. count - 1 : ValueAt(i) = v})]

\* The capacity is set on new arrays.
SetCapacity(cap) ==
  /\ store = NoStore
  /\ store' = [left |-> RoundUp(cap) \div 2, capacity |-> RoundUp(cap),
               buckets |-> Filled(RoundUp(cap), Garbage)]
  /\ UNCHANGED <<count, values, held>>

NewValues == SeqOf(Items, MaxNew)

Next ==
  \/ \E a \in 0 .. count : \E b \in 0 .. count - a, new \in NewValues :
       count - b + Len(new) <= MaxLength /\ ReplaceValues(a, b, new)
  \/ \E v \in Items : count < MaxLength /\ AppendValue(v)
  \/ \E a \in 0 .. count, v \in Items : count < MaxLength /\ InsertValueAtIndex(a, v)
  \/ \E a \in 0 .. count - 1 : RemoveValueAtIndex(a)
  \/ \E a \in 0 .. count, v \in Items : a < MaxLength /\ SetValueAtIndex(a, v)
  \/ \E a \in 0 .. count - 1 : \E b \in 0 .. count - 1 : ExchangeValuesAtIndices(a, b)
  \/ RemoveAllValues
  \/ \E cap \in 0 .. MaxLength : SetCapacity(cap)
----------------------------------------------------------------------------
\* CFArrayBSearchValues, in a sorted sequence: where the value belongs.
Log2(n) == CHOOSE e \in 0 .. 8 : 2 ^ e <= n /\ n < 2 ^ (e + 1)
BSearch(s, v) ==
  LET n == Len(s)
      At(i) == s[i + 1]
      lg == Log2(n)
      start == IF At(2 ^ lg - 1) < v THEN n - 2 ^ lg ELSE -1
      probe[k \in 0 .. lg] ==             \* the index after the powers from lg - 1 to k
        IF k = lg THEN start
        ELSE probe[k + 1] + IF At(probe[k + 1] + 2 ^ k) < v THEN 2 ^ k ELSE 0
  IN CASE n = 0 -> 0
       [] n > 0 /\ At(n - 1) < v -> n
       [] n > 0 /\ v < At(0) -> 0
       [] OTHER -> probe[0] + 1

TypeOK ==
  /\ count \in 0 .. MaxLength
  /\ store.capacity \in Nat
  /\ DOMAIN store.buckets = 0 .. store.capacity - 1 \/ store = NoStore

\* The array is the sequence of what was put in it: its run of buckets lies in
\* the store and holds the values in their order, whichever parts moved, and each
\* is retained once for every time it is there (CFArray.c:714-792, 854-924).
ArrayIsTheSequence ==
  /\ count = Len(values)
  /\ store.left >= 0 /\ store.left + count <= store.capacity
  /\ \A i \in 0 .. count - 1 : ValueAt(i) = values[i + 1]
  /\ \A v \in Items : held[v] = Occurs(values, v)

\* The search of a sorted array ends at the first value that is not less, and
\* never looks outside of the range (CFArray.c:1005-1031).
SearchFindsThePlace ==
  (\A i, j \in DOMAIN values : i < j => values[i] <= values[j])
  => \A v \in Items : BSearch(values, v) = Cardinality({i \in DOMAIN values : values[i] < v})
==============================================================================
