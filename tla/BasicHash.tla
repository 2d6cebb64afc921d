------------------------------ MODULE BasicHash ------------------------------
(* The open-addressing table of CFBasicHash.c behind CFSet, CFBag and        *)
(* CFDictionary.  A bucket is empty, deleted, or holds a key, a value and a  *)
(* count; a removal leaves a mark that later searches walk over.  Every call *)
(* is one action.  `entries` is what the collection stands for (an abstract  *)
(* dictionary of entries with counts), and `held` how often the callbacks    *)
(* retained each object less how often they released it.                     *)
(*                                                                           *)
(* An object is <<class, copy>>: objects of one class are equal and have one *)
(* hash code, and are still different objects to retain and release.         *)
EXTENDS Integers, FiniteSets, Sequences, SequencesExt, FiniteSetsExt

CONSTANTS
  Classes,        \* the classes of equal objects, natural numbers
  NumValues,      \* how many values a dictionary may hold
  HashOf,         \* the hash code of each class
  Sizes,          \* __CFBasicHashTableSizes, from index 0 on as a sequence
  Capacities,     \* __CFBasicHashTableCapacities
  Roots,          \* __CFBasicHashPrimitiveRoots
  Kinds,          \* the kinds of tables: [keys, counts, fast, style]
  DeletedLimit,   \* 2 ^ width of the field `deleted`
  PurgeFrom,      \* a table has this many buckets before its marks are purged (20)
  ShrinkBy,       \* how many sizes below a table shrinks, by fast_grow (2 and 5)
  Requests,       \* the capacities asked for
  MaxCount        \* bound: the count of one entry of a bag

VARIABLES kind, table, entries, held

vars == <<kind, table, entries, held>>

Objects == Classes \X {1, 2}
Values == {0} \X (1 .. NumValues)
Key(o) == o[1]
Empty == <<>>
Deleted == <<0>>
IsUsed(slot) == Len(slot) = 3
NoBucket == -1
BucketsAt(size) == Sizes[size + 1]
CapacityAt(size) == Capacities[size + 1]
Buckets(t) == 0 .. BucketsAt(t.size) - 1
EmptyTable == [size |-> 0, slots |-> <<>>, used |-> 0, deleted |-> 0]
NewSlots(size) == [b \in 0 .. BucketsAt(size) - 1 |-> Empty]

\* The i-th bucket that a search looks at.  FindBucket of each hash style.
ProbeOf(n, h1, h2, root, i) ==
  CASE kind.style = "linear" -> (h1 + i) % n
    [] kind.style = "double" -> (h1 + i * h2) % n
    [] OTHER -> IF i = 0 THEN h1 ELSE (h1 + h2 * root ^ i) % n
Stride(n, step) == IF step = 0 THEN n - 1 ELSE step
ProbeIn(n, hash, root, i) == ProbeOf(n, hash % n, Stride(n, (hash \div n) % n), root, i)
Probe(size, hash, i) == ProbeIn(BucketsAt(size), hash, Roots[size + 1], i)
\* The buckets in the order a search for class c looks at them.
Path(t, c) == [i \in 0 .. BucketsAt(t.size) - 1 |-> Probe(t.size, HashOf[c], i)]
Missing == [bucket |-> NoBucket, count |-> 0]

LooseAt(t, path, stops) ==
  IF stops = {} THEN Missing
  ELSE LET at == path[Min(stops)]
       IN [bucket |-> at, count |-> IF IsUsed(t.slots[at]) THEN t.slots[at][3] ELSE 0]
LooseOn(t, c, path) ==
  LooseAt(t, path, {i \in DOMAIN path : \/ t.slots[path[i]] \in {Empty, Deleted}
                                        \/ Key(t.slots[path[i]][1]) = c})
FindBucket_Loose(t, c) == IF t.size = 0 THEN Missing ELSE LooseOn(t, c, Path(t, c))

\* The bucket of class c, with its count, or else the bucket to fill: the first
\* deleted one on the way to an empty one.
ToFill(path, last, marks) ==
  LET at == IF marks = {} THEN last ELSE Min(marks)
  IN [bucket |-> IF at \in DOMAIN path THEN path[at] ELSE NoBucket, count |-> 0]
FoundAt(t, path, last) ==
  IF last \in DOMAIN path /\ IsUsed(t.slots[path[last]])
  THEN [bucket |-> path[last], count |-> t.slots[path[last]][3]]
  ELSE ToFill(path, last, {i \in 0 .. last - 1 : t.slots[path[i]] = Deleted})
FoundOn(t, c, path) ==
  FoundAt(t, path, Min({i \in DOMAIN path : \/ t.slots[path[i]] = Empty
                                            \/ IsUsed(t.slots[path[i]]) /\ Key(t.slots[path[i]][1]) = c}
                       \cup {BucketsAt(t.size)}))
FindBucket(t, c) == IF t.size = 0 THEN Missing ELSE FoundOn(t, c, Path(t, c))

\* The least size for so many items.
SizeFor(capacity) ==
  Min({s \in 0 .. Len(Sizes) - 1 : capacity <= CapacityAt(s)})

\* A table of another size with the entries of t and no marks; 0 keeps the size.
RehashTo(t, size) ==
  LET Move(new, b) ==
        IF ~IsUsed(t.slots[b]) THEN new
        ELSE [new EXCEPT !.slots[FindBucket(new, Key(t.slots[b][1])).bucket] = t.slots[b]]
  IN FoldLeft(Move,
              [size |-> size, slots |-> NewSlots(size), used |-> t.used, deleted |-> 0],
              [i \in 1 .. BucketsAt(t.size) |-> i - 1])
Rehash(t, more) ==
  RehashTo(t, IF more = 0 THEN t.size
              ELSE SizeFor(t.used + IF more < 0 THEN 0 ELSE more)
                   + IF more = 1 /\ kind.fast THEN 1 ELSE 0)

\* A capacity asked for is a rehash when the table has fewer entries.
SetCapacity(t, capacity) ==
  IF t.used < capacity THEN Rehash(t, capacity - t.used) ELSE t

Fill(t, bucket, k, v) == [t EXCEPT !.slots[bucket] = <<k, v, 1>>, !.used = @ + 1]

\* A new entry: the table grows first when it is full, and a mark is used up.
FillNew(t, k, v) == Fill(t, FindBucket(t, Key(k)).bucket, k, v)
AddEntry(t, bucket, k, v) ==
  IF CapacityAt(t.size) < t.used + 1 THEN FillNew(Rehash(t, 1), k, v)
  ELSE LET less == IF t.slots[bucket] = Deleted THEN t.deleted - 1 ELSE t.deleted
       IN [Fill(t, bucket, k, v) EXCEPT !.deleted = less % DeletedLimit]

Purges(t) ==
  \/ t.deleted = 0                                            \* it rolled over
  \/ PurgeFrom <= BucketsAt(t.size) /\ BucketsAt(t.size) \div 4 <= t.deleted

\* The last of an entry goes: a mark stays, and the table shrinks when it has far
\* too many buckets, or is purged of its marks.
Tidied(t, by) ==
  IF by < t.size /\ t.used < CapacityAt(t.size - by) THEN Rehash(t, -1)
  ELSE IF Purges(t) THEN Rehash(t, 0) ELSE t
RemoveEntry(t, bucket) ==
  Tidied([t EXCEPT !.slots[bucket] = Deleted, !.used = @ - 1, !.deleted = (@ + 1) % DeletedLimit],
         ShrinkBy[kind.fast])

Bump(t, bucket, by) == [t EXCEPT !.slots[bucket][3] = @ + by]
Put(t, bucket, k, v) == [t EXCEPT !.slots[bucket][1] = k, !.slots[bucket][2] = v]

\* The kinds that the collections are made as.
Dictionary == [keys |-> TRUE, counts |-> FALSE, fast |-> FALSE, style |-> "linear"]
Bag == [keys |-> FALSE, counts |-> TRUE, fast |-> FALSE, style |-> "linear"]
Set == [keys |-> FALSE, counts |-> FALSE, fast |-> FALSE, style |-> "linear"]

\* The calls on a table: CFBasicHashAddValue, ReplaceValue and RemoveValue.
AddTo(t, k, v) ==
  LET found == FindBucket(t, Key(k))
  IN IF found.count = 0 THEN AddEntry(t, found.bucket, k, v)
     ELSE IF kind.counts THEN Bump(t, found.bucket, 1) ELSE t

ReplaceIn(t, k, v) ==
  LET found == FindBucket(t, Key(k))
  IN IF found.count = 0 THEN t ELSE Put(t, found.bucket, k, v)

RemoveFrom(t, c) ==
  LET found == FindBucket(t, c)
  IN CASE found.count = 0 -> t
       [] found.count = 1 -> RemoveEntry(t, found.bucket)
       [] OTHER -> Bump(t, found.bucket, -1)

\* The callbacks.  A table without keys retains the value only.
Import(h, k, v) ==
  [o \in DOMAIN h |-> h[o] + (IF o = v THEN 1 ELSE 0)
                           + (IF o = k /\ kind.keys THEN 1 ELSE 0)]
Eject(h, k, v) ==
  [o \in DOMAIN h |-> h[o] - (IF o = v THEN 1 ELSE 0)
                           - (IF o = k /\ kind.keys THEN 1 ELSE 0)]
----------------------------------------------------------------------------
Init ==
  /\ kind \in Kinds
  /\ table = EmptyTable
  /\ entries = [c \in {} |-> 0]
  /\ held = [o \in Objects \cup Values |-> 0]

Becomes(t) == table' = t /\ UNCHANGED kind

AddValue(k, v) ==
  LET found == FindBucket(table, Key(k))
  IN /\ found.count < MaxCount
     /\ Becomes(AddTo(table, k, v))
     /\ held' = IF found.count = 0 THEN Import(held, k, v) ELSE held
     /\ entries' = IF Key(k) \notin DOMAIN entries
                   THEN [c \in DOMAIN entries \cup {Key(k)} |->
                           IF c = Key(k) THEN <<k, v, 1>> ELSE entries[c]]
                   ELSE IF kind.counts THEN [entries EXCEPT ![Key(k)][3] = @ + 1]
                   ELSE entries

\* The new key and value are retained before the old ones are released.
ReplaceValue(k, v) ==
  LET found == FindBucket(table, Key(k))
      old == table.slots[found.bucket]
  IN /\ found.count > 0
     /\ Becomes(ReplaceIn(table, k, v))
     /\ held' = Eject(Import(held, k, v), old[1], old[2])
     /\ entries' = [entries EXCEPT ![Key(k)][1] = k, ![Key(k)][2] = v]

SetValue(k, v) ==
  \/ FindBucket(table, Key(k)).count > 0 /\ ReplaceValue(k, v)
  \/ FindBucket(table, Key(k)).count = 0 /\ AddValue(k, v)

RemoveValue(c) ==
  LET found == FindBucket(table, c)
      old == table.slots[found.bucket]
  IN /\ found.count > 0
     /\ Becomes(RemoveFrom(table, c))
     /\ held' = IF found.count = 1 THEN Eject(held, old[1], old[2]) ELSE held
     /\ entries' = IF found.count = 1 THEN [d \in DOMAIN entries \ {c} |-> entries[d]]
                   ELSE [entries EXCEPT ![c][3] = @ - 1]

\* Everything is released, and the table has no buckets.
RemoveAllValues ==
  /\ table.size # 0
  /\ LET all == {b \in Buckets(table) : IsUsed(table.slots[b])}
     IN held' = FoldSet(LAMBDA b, h : Eject(h, table.slots[b][1], table.slots[b][2]),
                        held, all)
  /\ Becomes(EmptyTable)
  /\ entries' = [c \in {} |-> 0]

AskCapacity(capacity) ==
  /\ table.used < capacity
  /\ Becomes(SetCapacity(table, capacity))
  /\ UNCHANGED <<entries, held>>

Next ==
  \/ \E k \in Objects, v \in Values : kind.keys /\ AddValue(k, v)
  \/ \E k \in Objects : ~kind.keys /\ AddValue(k, k)
  \/ \E k \in Objects, v \in Values : kind.keys /\ SetValue(k, v)
  \/ \E k \in Objects : ~kind.keys /\ SetValue(k, k)
  \/ \E k \in Objects, v \in Values : kind.keys /\ ReplaceValue(k, v)
  \/ \E c \in Classes : RemoveValue(c)
  \/ RemoveAllValues
  \/ \E n \in Requests : AskCapacity(n)
----------------------------------------------------------------------------
\* What the queries return.
UsedBuckets(t) == {b \in Buckets(t) : IsUsed(t.slots[b])}
GetCount(t) ==
  IF kind.counts THEN FoldSet(LAMBDA b, n : n + t.slots[b][3], 0, UsedBuckets(t))
  ELSE t.used
GetValue(t, c) ==
  LET found == FindBucket(t, c)
  IN IF found.count > 0 THEN t.slots[found.bucket][2] ELSE <<>>

\* CFBasicHashApply stops after as many buckets as are used.
Applied(t) ==
  FoldLeft(LAMBDA seen, b : IF Len(seen) < t.used /\ IsUsed(t.slots[b])
                            THEN Append(seen, t.slots[b]) ELSE seen,
           <<>>, [i \in 1 .. BucketsAt(t.size) |-> i - 1])

AreEqual(t, u) ==
  /\ GetCount(t) = GetCount(u)
  /\ \A i \in DOMAIN Applied(t) :
       LET slot == Applied(t)[i]
           other == FindBucket(u, Key(slot[1]))
       IN /\ other.count = slot[3]
          /\ kind.keys => u.slots[other.bucket][2] = slot[2]

\* A collection made of the same elements in their order in this one, as
\* CFDictionaryCreate makes it, and one that CFBasicHashCreateCopy copies.
Recreated(t) ==
  LET each == Applied(t)
      Again(u, s) == FoldLeft(LAMBDA w, i : AddTo(w, s[1], s[2]), u, [i \in 1..s[3] |-> i])
  IN FoldLeft(Again, SetCapacity(EmptyTable, GetCount(t)), each)

TypeOK ==
  /\ kind \in Kinds
  /\ table.size \in 0 .. Len(Sizes) - 1 /\ table.used \in Nat
  /\ table.deleted \in 0 .. DeletedLimit - 1
  /\ DOMAIN table.slots = Buckets(table)

\* The table is the collection it stands for: every entry is found where a search
\* looks for it, with its value and its count, nothing removed is found again,
\* whatever marks are in between, and the numbers kept are those of the buckets
\* (CFBasicHash.c:905-980, CFBasicHashFindBucket.m:84-165).
TableIsTheCollection ==
  /\ \A c \in Classes :
       LET found == FindBucket(table, c)
       IN IF c \in DOMAIN entries
          THEN found.count > 0 /\ table.slots[found.bucket] = entries[c]
          ELSE found.count = 0
  /\ table.used = Cardinality(UsedBuckets(table))
  /\ table.used = Cardinality(DOMAIN entries)
  /\ Cardinality({b \in Buckets(table) : table.slots[b] = Deleted}) = table.deleted
  /\ ToSet(Applied(table)) = {entries[c] : c \in DOMAIN entries}

\* An object is retained once for each bucket it is in, as key and as value.
RetainsAreOfBuckets ==
  \A o \in DOMAIN held :
    held[o] = Cardinality({b \in UsedBuckets(table) : table.slots[b][2] = o})
              + IF kind.keys
                THEN Cardinality({b \in UsedBuckets(table) : table.slots[b][1] = o}) ELSE 0

\* A collection is equal to the one made of its elements, however differently
\* the two are laid out.
EqualWhenRecreated == AreEqual(table, Recreated(table)) /\ AreEqual(Recreated(table), table)
==============================================================================
