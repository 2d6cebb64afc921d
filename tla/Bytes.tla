-------------------------------- MODULE Bytes --------------------------------
(* Bytes and bits in a buffer that grows: CFData.c, with the search for      *)
(* bytes in others, and CFBitVector.c.  A buffer is a function on the        *)
(* indices that were allocated; what was not written there is Garbage.  Each *)
(* behaviour is of one kind.                                                 *)
EXTENDS Integers, FiniteSets, Sequences, SequencesExt

CONSTANTS
  Values,                  \* the bytes that are given, from 1 on
  Least, Low, High, Chunk, \* capacities are rounded up to 16, and as they are
                           \* below 2^20, below 2^32, and by 2^29 from there
  ClearFrom,               \* calloc is used from more than this (128 K)
  Capacities,              \* those of fixed data
  Bucket, Round,           \* bits of a bucket (8), and of a least capacity (64)
  Leaves,                  \* whether fixed data leave bytes behind, which a
                           \* greater length brings back
  Overlaps,                \* whether bytes come out of where they go
  Haystacks, Needles, MaxLength, MaxCalls

VARIABLES kind, store, mean, calls

vars == <<kind, store, mean, calls>>

Garbage == -1
BitValues == {Garbage, 0, 1}
Least2(a, b) == IF a < b THEN a ELSE b
Most2(a, b) == IF a > b THEN a ELSE b
----------------------------------------------------------------------------
\* flsl: how many bits the number takes.
Bits(n) == CHOOSE e \in 1 .. 12 : 2 ^ (e - 1) <= n /\ n < 2 ^ e
RoundUpCapacity(n) ==
  IF n < Least THEN Least
  ELSE IF n < Low THEN 2 ^ (Bits(n) + (Bits(n) % 2))
  ELSE IF n < High THEN 2 ^ Bits(n)
  ELSE Chunk * (1 + n \div Chunk)

\* memmove and memset.
Put(buf, at, bytes) ==
  [i \in DOMAIN buf |-> IF i >= at /\ i < at + Len(bytes) THEN bytes[i - at + 1] ELSE buf[i]]
Zeroed(buf, from, end) == [i \in DOMAIN buf |-> IF i >= from /\ i < end THEN 0 ELSE buf[i]]
Taken(buf, from, n) == [i \in 1 .. n |-> buf[from + i - 1]]

\* New room for n bytes more; what is new is zero if that was wanted, and all
\* of it if it is so much that it is not copied.
Grow(d, n, clear) ==
  LET length == d.length + n
      capacity == RoundUpCapacity(length)
      calloc == /\ clear /\ ~d.custom /\ capacity > ClearFrom
                /\ d.length = 0 \/ length \div d.length > 4
      kept == IF calloc THEN d.length ELSE d.capacity
      buf == [i \in 0 .. capacity - 1 |-> IF i < kept THEN d.buf[i] ELSE IF calloc THEN 0 ELSE Garbage]
  IN [d EXCEPT !.capacity = capacity, !.needsZero = ~calloc,
               !.buf = IF clear /\ ~calloc THEN Zeroed(buf, d.length, length) ELSE buf]

SetLength(d, n) ==
  LET grown == IF d.capacity < n THEN Grow(d, n - d.length, TRUE)
               ELSE IF d.length < n /\ d.needsZero THEN [d EXCEPT !.buf = Zeroed(@, d.length, n)]
               ELSE IF n < d.length THEN [d EXCEPT !.needsZero = TRUE]
               ELSE d
  IN [grown EXCEPT !.length = n]

\* n bytes at a become others: `bytes`, or the m that are at `own` themselves,
\* which are copied only when the buffer grows.
ReplaceBytes(d, a, n, bytes, own, m) ==
  LET count == d.length - n + m
      grows == d.growable /\ d.capacity < count
      source == IF own < 0 THEN bytes ELSE Taken(d.buf, own, m)
      room == IF grows THEN Grow(d, m - n, FALSE) ELSE d
      moved == IF m # n /\ a + n < d.length
               THEN Put(room.buf, a + m, Taken(room.buf, a + n, d.length - a - n)) ELSE room.buf
      new == IF own >= 0 /\ ~grows THEN Taken(moved, own, m) ELSE source
  IN [room EXCEPT !.buf = Put(moved, a, new), !.length = count]

\* Fixed data are within their object, which was cleared; growable data are
\* not, and begin with the least capacity.
NewData(capacity, custom, bytes) ==
  LET growable == capacity = 0
      room == IF growable THEN RoundUpCapacity(1) ELSE capacity
      empty == [growable |-> growable, custom |-> custom, capacity |-> room, length |-> 0,
                needsZero |-> growable,
                buf |-> [i \in 0 .. room - 1 |-> IF growable THEN Garbage ELSE 0]]
  IN ReplaceBytes(empty, 0, 0, bytes, -1, Len(bytes))

Contents(d) == Taken(d.buf, 0, d.length)
----------------------------------------------------------------------------
\* The lengths of the suffixes that end at each place of the needle.
SuffixLengths(needle) ==
  LET n == Len(needle)
      Byte(i) == needle[i + 1]
      Step(acc, i) ==
        LET known == acc.suffix[i + n - 1 - acc.f]
            from == Least2(i, acc.g)
            g == Max({k \in -1 .. from : k = -1 \/ Byte(k) # Byte(k + n - 1 - i)})
        IN IF i > acc.g /\ known < i - acc.g THEN [acc EXCEPT !.suffix[i] = known]
           ELSE [suffix |-> [acc.suffix EXCEPT ![i] = i - g], f |-> i, g |-> g]
      start == [suffix |-> [i \in 0 .. n - 1 |-> IF i = n - 1 THEN n ELSE 0], f |-> n - 1, g |-> n - 1]
  IN FoldLeft(Step, start, [k \in 1 .. n - 1 |-> n - 1 - k]).suffix

\* How far the end goes on when the bytes after i were there, and i is not.
GoodSubstringShift(needle) ==
  LET n == Len(needle)
      suffix == SuffixLengths(needle)
      Borders(j) == {i \in 0 .. n - 1 : suffix[i] = i + 1 /\ j < n - 1 - i}
      Matches(j) == {i \in 0 .. n - 2 : suffix[i] = n - 1 - j}
      Shift(j) ==
        IF Matches(j) # {} THEN n - 1 - Max(Matches(j))
        ELSE IF Borders(j) # {} THEN n - 1 - Max(Borders(j))
        ELSE n
  IN [j \in 0 .. n - 1 |-> Shift(j) + (IF j < n - 1 THEN n - 1 - j ELSE 0)]

BadCharacterShift(needle, byte) ==
  LET places == {i \in DOMAIN needle : needle[i] = byte} IN
  IF places = {} THEN Len(needle) ELSE Len(needle) - Max(places)

\* Forwards from where the end of the needle may be; h and i are the bytes that
\* are compared, of both.
RECURSIVE Scan(_, _, _, _, _)
Scan(haystack, needle, good, h, i) ==
  IF i < 0 THEN h + 1
  ELSE IF h >= Len(haystack) THEN -1
  ELSE IF haystack[h + 1] = needle[i + 1] THEN Scan(haystack, needle, good, h - 1, i - 1)
  ELSE Scan(haystack, needle, good,
            h + Most2(BadCharacterShift(needle, haystack[h + 1]), good[i]), Len(needle) - 1)

\* Backwards everything is as if it were reversed.
SearchBoyerMoore(haystack, needle, backwards) ==
  LET n == Len(needle)
      text == IF backwards THEN Reverse(haystack) ELSE haystack
      word == IF backwards THEN Reverse(needle) ELSE needle
      at == Scan(text, word, GoodSubstringShift(word), n - 1, n - 1)
  IN IF at < 0 THEN -1 ELSE IF backwards THEN Len(haystack) - at - n ELSE at

FindBytes(bytes, needle, from, length, backwards, anchored) ==
  LET n == Len(needle)
      clips == anchored /\ length > n
      a == IF clips /\ backwards THEN from + length - n ELSE from
      most == IF clips THEN n ELSE length
      size == Least2(most, Len(bytes) - a)
      at == SearchBoyerMoore(SubSeq(bytes, a + 1, a + size), needle, backwards)
  IN IF size < n \/ bytes = <<>> \/ needle = <<>> \/ at < 0 THEN -1 ELSE a + at
----------------------------------------------------------------------------
\* A bit vector: bits in buckets, of which there is one more than is needed.
BitCapacity(n) == ((Most2(n, 1) + Round - 1) \div Round) * Round
BitBuffer(capacity) == 0 .. (capacity \div Bucket + 1) * Bucket - 1
NewBits(bits) ==
  LET capacity == BitCapacity(Len(bits)) IN
  [count |-> Len(bits), capacity |-> capacity,
   buf |-> Put([i \in BitBuffer(capacity) |-> 0], 0, bits)]

\* The buckets of a range, each with the bits of it that are meant.
InternalMap(a, n) ==
  LET first == a \div Bucket
      bit == a % Bucket
      few == bit + n < Bucket
      left == IF few THEN 0 ELSE n - (Bucket - bit)
      whole == left \div Bucket
      rest == left % Bucket
  IN IF n = 0 THEN <<>>
     ELSE <<<<first, IF few THEN bit .. bit + n - 1 ELSE bit .. Bucket - 1>>>>
            \o [i \in 1 .. whole |-> <<first + i, 0 .. Bucket - 1>>]
            \o (IF rest = 0 THEN <<>> ELSE <<<<first + whole + 1, 0 .. rest - 1>>>>)
\* The function on bits is applied to those of the range.
Mapped(v, a, n, bit) ==
  [v EXCEPT !.buf = FoldLeft(LAMBDA buf, visit :
     [i \in DOMAIN buf |-> IF i \div Bucket = visit[1] /\ i % Bucket \in visit[2]
                           THEN bit[buf[i]] ELSE buf[i]], @, InternalMap(a, n))]

GetCountOfBit(v, a, n, value) ==
  FoldLeft(LAMBDA sum, visit :
             sum + Cardinality({b \in visit[2] : v.buf[visit[1] * Bucket + b] = value}),
           0, InternalMap(a, n))

\* The bits of a range, moved to where bytes begin.  The first bits of each
\* bucket, as many as the range begins later, are never taken.
GetBits(v, a, n) ==
  LET skip == a % Bucket
      Visit(acc, visit) ==
        LET few == Least2(Bucket - skip, acc.left)
            masked == [b \in 0 .. Bucket - 1 |->
                         IF b \in visit[2] THEN v.buf[visit[1] * Bucket + b] ELSE 0]
            byte == [b \in 0 .. Bucket - 1 |-> IF b + skip < Bucket THEN masked[b + skip] ELSE 0]
        IN IF few >= Bucket THEN [acc EXCEPT !.bytes = Append(@, byte), !.at = @ + 1]
           ELSE [bytes |-> IF few = 0 THEN acc.bytes ELSE Append(SubSeq(acc.bytes, 1, acc.at), byte),
                 at |-> acc.at, left |-> acc.left - few]
      bytes == FoldLeft(Visit, [bytes |-> <<>>, at |-> 0, left |-> n], InternalMap(a, n)).bytes
  IN [i \in 1 .. Len(bytes) * Bucket |-> bytes[(i - 1) \div Bucket + 1][(i - 1) % Bucket]]

GetFirstIndexOfBit(v, a, n, value) ==
  LET found == {i \in a .. a + n - 1 : v.buf[i] = value} IN IF found = {} THEN -1 ELSE Min(found)
GetLastIndexOfBit(v, a, n, value) ==
  LET found == {i \in a .. a + n - 1 : v.buf[i] = value} IN IF found = {} THEN -1 ELSE Max(found)

GrowBits(v, n) ==
  LET capacity == BitCapacity(v.count + n) IN
  [v EXCEPT !.capacity = capacity,
            !.buf = [i \in BitBuffer(capacity) |-> IF i \in DOMAIN v.buf THEN v.buf[i] ELSE Garbage]]
SetCount(v, n) ==
  [IF v.count < n THEN Mapped(GrowBits(v, n - v.count), v.count, n - v.count, [b \in BitValues |-> 0]) ELSE v
   EXCEPT !.count = n]
SetAllBits(v, value) ==
  LET whole == (v.count \div Bucket) * Bucket
      rest == Mapped(v, whole, v.count - whole, [b \in BitValues |-> value])
  IN [rest EXCEPT !.buf = [i \in DOMAIN @ |-> IF i < whole THEN value ELSE @[i]]]

EqualBits(v, o) ==
  /\ v.count = o.count
  /\ v.count = 0 \/ \A i \in 0 .. (v.count \div Bucket + 1) * Bucket - 1 : v.buf[i] = o.buf[i]
----------------------------------------------------------------------------
Sequences2(S, n) == UNION {[1 .. k -> S] : k \in 0 .. n}
Pieces == Sequences2(Values, 2)
Init ==
  /\ calls = 0
  /\ \/ /\ kind = "data"
        /\ \E c \in Capacities \cup {0}, custom \in BOOLEAN, bytes \in Pieces :
             /\ c = 0 \/ Len(bytes) <= c
             /\ mean = bytes /\ store = NewData(c, custom, bytes)
     \/ /\ kind = "search"
        /\ store \in Haystacks
        /\ mean = [needle |-> <<>>, a |-> 0, n |-> 0, backwards |-> FALSE, anchored |-> FALSE, at |-> -1]
     \/ /\ kind = "bits"
        /\ \E bits \in Sequences2(0 .. 1, Bucket + 1) :
             mean = [bits |-> bits, resized |-> FALSE] /\ store = NewBits(bits)

Halts(d, n) == ~d.growable /\ n > d.capacity
ChangeData ==
  /\ kind = "data"
  /\ \/ \E n \in 0 .. MaxLength :
          /\ ~Halts(store, n)
          /\ store' = SetLength(store, n)
          /\ mean' = [i \in 1 .. n |-> IF i <= Len(mean) THEN mean[i] ELSE 0]
     \/ \E a, n \in 0 .. MaxLength :
          /\ a + n <= store.length
          /\ \/ \E bytes \in Pieces :
                  /\ store.length - n + Len(bytes) <= MaxLength /\ ~Halts(store, store.length - n + Len(bytes))
                  /\ Leaves \/ store.needsZero \/ Len(bytes) >= n
                  /\ store' = ReplaceBytes(store, a, n, bytes, -1, Len(bytes))
                  /\ mean' = SubSeq(mean, 1, a) \o bytes \o SubSeq(mean, a + n + 1, Len(mean))
             \/ \E own, m \in 0 .. MaxLength :
                  /\ own + m <= store.length /\ m > n /\ store.length - n + m <= MaxLength
                  /\ ~Halts(store, store.length - n + m)
                  /\ Overlaps \/ (store.growable /\ store.capacity < store.length - n + m)
                       \/ own + m <= a
                  /\ store' = ReplaceBytes(store, a, n, <<>>, own, m)
                  /\ mean' = SubSeq(mean, 1, a) \o SubSeq(mean, own + 1, own + m)
                               \o SubSeq(mean, a + n + 1, Len(mean))
  /\ UNCHANGED kind

\* What is found, and of what question, is kept until the next.
Search ==
  /\ kind = "search"
  /\ \E needle \in Needles, a, n \in 0 .. Len(store), backwards, anchored \in BOOLEAN :
       /\ a + n <= Len(store)
       /\ mean' = [needle |-> needle, a |-> a, n |-> n, backwards |-> backwards, anchored |-> anchored,
                   at |-> FindBytes(store, needle, a, n, backwards, anchored)]
  /\ UNCHANGED <<kind, store>>

SetTo(from, n, bit) ==
  /\ store' = Mapped(store, from, n, bit)
  /\ mean' = [mean EXCEPT !.bits = [i \in DOMAIN @ |->
                IF i - 1 >= from /\ i - 1 < from + n THEN bit[@[i]] ELSE @[i]]]
ChangeBits ==
  /\ kind = "bits"
  /\ \/ \E n \in 0 .. MaxLength :
          /\ store' = SetCount(store, n)
          /\ mean' = [resized |-> TRUE,
                      bits |-> [i \in 1 .. n |-> IF i <= Len(mean.bits) THEN mean.bits[i] ELSE 0]]
     \/ \E a, n \in 0 .. store.count :
          /\ a < store.count /\ a + n <= store.count
          /\ \/ SetTo(a, n, [b \in 0 .. 1 |-> 1 - b])
             \/ \E value \in 0 .. 1 : SetTo(a, n, [b \in 0 .. 1 |-> value])
     \/ \E value \in 0 .. 1 :
          /\ store' = SetAllBits(store, value)
          /\ mean' = [mean EXCEPT !.bits = [i \in DOMAIN @ |-> value]]
  /\ UNCHANGED kind

Next ==
  /\ calls < (IF kind = "search" THEN 1 ELSE MaxCalls)
  /\ calls' = calls + 1
  /\ ChangeData \/ Search \/ ChangeBits

Spec == Init /\ [][Next]_vars
----------------------------------------------------------------------------
TypeOK ==
  /\ calls \in 0 .. MaxCalls /\ kind \in {"data", "search", "bits"}
  /\ kind = "data" => store.length \in 0 .. store.capacity /\ DOMAIN store.buf = 0 .. store.capacity - 1
  /\ kind = "bits" => store.count \in 0 .. store.capacity /\ DOMAIN store.buf = BitBuffer(store.capacity)

\* Data have the bytes that the calls put there, and zeros where their length
\* was increased, however the buffer was made, grown and filled before
\* (CFData.c:530, 566, 618).
BytesAreThoseGiven == kind = "data" => Contents(store) = mean

\* Bytes are found at the first place they are in the range, or at the last
\* backwards, or only at its end (CFData.c:669-830).
FoundWhereTheyAre ==
  kind = "search" /\ calls > 0 =>
    LET k == Len(mean.needle)
        first == IF mean.anchored /\ mean.backwards THEN mean.a + mean.n - k ELSE mean.a
        last == IF mean.anchored /\ ~mean.backwards THEN mean.a ELSE mean.a + mean.n - k
        places == {i \in first .. last : /\ i >= mean.a /\ i + k <= mean.a + mean.n
                                     /\ SubSeq(store, i + 1, i + k) = mean.needle}
    IN mean.at = IF k = 0 \/ places = {} THEN -1
                 ELSE IF mean.backwards THEN Max(places) ELSE Min(places)

\* A bit vector has the bits it was given, whatever shares their buckets; they
\* are counted and found; those of whole bytes are given out as they are; and
\* vectors that are equal have the same bits, and until they are resized the
\* other way as well (CFBitVector.c:252-480).
BitsAreThoseGiven ==
  kind = "bits" =>
    LET bits == mean.bits
        Of(a, n, value) == {i \in a .. a + n - 1 : bits[i + 1] = value}
    IN /\ Taken(store.buf, 0, store.count) = bits
       /\ \A a, n \in 0 .. store.count, value \in 0 .. 1 : a + n <= store.count =>
            /\ GetCountOfBit(store, a, n, value) = Cardinality(Of(a, n, value))
            /\ Of(a, n, value) # {} =>
                 GetFirstIndexOfBit(store, a, n, value) = Min(Of(a, n, value))
                   /\ GetLastIndexOfBit(store, a, n, value) = Max(Of(a, n, value))
            /\ a % Bucket = 0 \/ (a % Bucket) + n <= Bucket =>
                 LET got == GetBits(store, a, n) IN
                 \A i \in DOMAIN got : got[i] = IF i <= n THEN bits[a + i] ELSE 0
       /\ \A other \in Sequences2(0 .. 1, 3) : EqualBits(store, NewBits(other)) => other = bits
       /\ ~mean.resized => EqualBits(store, NewBits(bits))
============================================================================
