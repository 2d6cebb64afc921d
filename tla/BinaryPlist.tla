----------------------------- MODULE BinaryPlist -----------------------------
(* Property lists, and their binary form (CFBinaryPList.c): a list of        *)
(* objects, which refer to each other by their numbers, and the offsets they *)
(* begin at, both in as few bytes as will do.  A value is a tuple of its     *)
(* type, what it holds and whether it is mutable; a number's unit is a half, *)
(* if it is not an integer, and a date's too.  Equal containers within a     *)
(* list are one object.                                                      *)
EXTENDS Integers, Sequences, SequencesExt, FiniteSets, FiniteSetsExt, TLC

CONSTANTS
  Base,     \* how many values a byte has
  Few,      \* a count this large is an integer of its own: 15
  Deep,     \* how deep objects are before cycles are looked for: 15
  Wide      \* the characters that are not ASCII

Value(type, payload, mutable) == <<type, payload, mutable>>
None == <<"none", 0, FALSE>>
Numbers == {"int", "float", "double"}
Containers == {"array", "dict"}
Max64 == Base ^ 8 \div 2 - 1
MaxU64 == Base ^ 8 - 1
\* Numbers are equal when their values are, whatever their types.
Canon(v) ==
  IF v[1] \notin Numbers THEN v
  ELSE <<"number", IF v[1] = "int" THEN 2 * v[2] ELSE v[2], FALSE>>
KeysOf(v) == SetToSeq(DOMAIN v[2])
ValuesOf(v) == [i \in DOMAIN KeysOf(v) |-> v[2][KeysOf(v)[i]]]
Children(v) ==
  CASE v[1] = "array" -> v[2]
    [] v[1] = "dict" -> [i \in DOMAIN KeysOf(v) |-> <<"string", KeysOf(v)[i], FALSE>>] \o ValuesOf(v)
    [] OTHER -> <<>>
----------------------------------------------------------------------------
\* Writing.  Leaves that are equal are written once.
Uniqued(v) == v[1] \in Numbers \cup {"string", "date", "data"}
RECURSIVE Flatten(_, _)
Flatten(v, st) ==
  IF Uniqued(v) /\ Canon(v) \in DOMAIN st.table THEN st
  ELSE FoldLeft(LAMBDA s, child : Flatten(child, s),
                [list |-> Append(st.list, v), table |-> st.table @@ (Canon(v) :> Len(st.list))],
                Children(v))

\* The bytes a number takes: 1, 2, 4 or 8, or what it needs.
ByteCount_Less(n) == CHOOSE s \in {1, 2, 4, 8} : n <= Base ^ s /\ \A r \in {1, 2, 4, 8} : r < s => n > Base ^ r
ByteCount(n) ==
  IF \A s \in {1, 2, 4, 8} : n >= Base ^ s
    THEN CHOOSE s \in 9..16 : n < Base ^ s /\ n >= Base ^ (s - 1)
  ELSE Min({s \in {1, 2, 4, 8} : n < Base ^ s})
IntBytes(n) == IF n < 0 THEN 8 ELSE IF n > Max64 THEN 16 ELSE Min({s \in {1, 2, 4, 8} : n < Base ^ s})
AppendInt(n) == <<"int", n % (Base ^ 8), IntBytes(n)>>
CountBytes(count) == IF count < Few THEN 1 ELSE 2 + IntBytes(count)
AppendString(s) ==
  LET wide == \E i \in DOMAIN s : s[i] \in Wide
  IN <<IF wide THEN "unicode" ELSE "ascii", s, CountBytes(Len(s)) + Len(s) * (IF wide THEN 2 ELSE 1)>>
AppendObject(v, table, refSize) ==
  LET count == IF v[1] = "dict" THEN Cardinality(DOMAIN v[2]) ELSE Len(v[2])
      refs == [i \in DOMAIN Children(v) |-> table[Canon(Children(v)[i])] % (Base ^ refSize)]
  IN CASE v[1] = "string" -> AppendString(v[2])
       [] v[1] = "int" -> AppendInt(v[2])
       [] v[1] = "float" -> <<"float", v[2], 5>>
       [] v[1] = "double" -> <<"double", v[2], 9>>
       [] v[1] = "bool" -> <<"bool", v[2], 1>>
       [] v[1] = "date" -> <<"date", v[2], 9>>
       [] v[1] = "data" -> <<"data", v[2], CountBytes(count) + count>>
       [] v[1] = "uid" -> <<"uid", v[2], IntBytes(v[2])>>
       [] OTHER -> <<v[1], refs, CountBytes(count) + Len(refs) * refSize>>
BytesOf(o) == IF o[1] \in {"int", "uid"} THEN 1 + o[3] ELSE o[3]
Sum(objects) == FoldLeft(LAMBDA n, o : n + BytesOf(o), 0, objects)
Starts(objects) == [i \in DOMAIN objects |-> 8 + Sum(SubSeq(objects, 1, i - 1))]
BinaryWrite(v) ==
  LET flat == Flatten(v, [list |-> <<>>, table |-> <<>>])
      count == Len(flat.list)
      refSize == ByteCount(count)
      objects == [i \in 1..count |-> AppendObject(flat.list[i], flat.table, refSize)]
      table == 8 + Sum(objects)
      offsetSize == ByteCount(table)
  IN [objects |-> objects, refSize |-> refSize, offsetSize |-> offsetSize, top |-> 0,
      tableOffset |-> table,
      offsets |-> [i \in 1..count |-> Starts(objects)[i] % (Base ^ offsetSize)],
      length |-> table + count * offsetSize + 32]
----------------------------------------------------------------------------
\* Reading.
GetTopLevelInfo(d) ==
  LET count == Len(d.offsets)
  IN /\ 1 <= count /\ d.top < count
     /\ 9 <= d.tableOffset /\ d.tableOffset < d.length - 32
     /\ 1 <= d.offsetSize /\ 1 <= d.refSize
     /\ d.length = d.tableOffset + count * d.offsetSize + 32
     /\ d.refSize < 8 => count < Base ^ d.refSize
     /\ d.offsetSize < 8 => d.tableOffset < Base ^ d.offsetSize
     /\ \A i \in 1..count : d.offsets[i] < d.tableOffset
     /\ 8 <= d.offsets[d.top + 1]
TopOffset(d) == d.offsets[d.top + 1]
\* What begins within another object is nothing.
ObjectAt(d, offset) ==
  LET at == {i \in DOMAIN d.objects : Starts(d.objects)[i] = offset}
  IN IF at = {} THEN <<"nothing", 0, 0>> ELSE d.objects[CHOOSE i \in at : TRUE]
GetOffsetOfRef(d, ref) == IF ref >= Len(d.offsets) THEN -1 ELSE d.offsets[ref + 1]
HalfOf(refs) == Len(refs) \div 2
\* A key that is no string is named by its type.
KeyName(v) == IF v[1] = "string" THEN v[2] ELSE <<v[1]>>
LeafOf(o, leaves) ==
  CASE o[1] = "int" ->
         Value("int", IF o[3] = 16 \/ o[2] <= Max64 THEN o[2] ELSE o[2] - Base ^ 8, FALSE)
    [] o[1] \in {"ascii", "unicode"} -> Value("string", o[2], leaves)
    [] o[1] = "data" -> Value("data", o[2], leaves)
    [] o[1] \in {"float", "double", "date", "bool"} -> Value(o[1], o[2], FALSE)
    [] o[1] = "uid" /\ o[2] < Base ^ 4 -> Value("uid", o[2], FALSE)
    [] OTHER -> None

\* The keys of this level, and the paths of all of them for the next.
TheseKeys(paths) == {p[1] : p \in paths}
NextKeys(paths) == {Tail(p) : p \in {q \in paths : Len(q) > 1}}
Whole == {}
\* The number a key is; what is no number is 0, but not a place of its own.
IntValue(key) ==
  LET digits == <<"0", "1", "2", "3">>
  IN IF Len(key) = 1 /\ Contains(digits, key[1]) THEN SelectInSeq(digits, LAMBDA x : x = key[1]) - 1
     ELSE 0
ProperIndex(key) == IF IntValue(key) = 0 /\ key # <<"0">> THEN -1 ELSE IntValue(key)

GetOffsetForValueFromArray(d, o, i) ==
  IF o[1] # "array" \/ i < 0 \/ i >= Len(o[2]) THEN -1 ELSE GetOffsetOfRef(d, o[2][i + 1])
\* Keys are looked through in their order, and what is no leaf ends it.
GetOffsetForValueFromDictionary(d, o, key) ==
  LET keys == [i \in 1..HalfOf(o[2]) |-> LeafOf(ObjectAt(d, GetOffsetOfRef(d, o[2][i])), FALSE)]
      at == SelectInSeq(keys, LAMBDA k : k = None \/ k = <<"string", key, FALSE>>)
  IN IF o[1] # "dict" \/ at = 0 \/ keys[at] = None THEN -1
     ELSE GetOffsetOfRef(d, o[2][HalfOf(o[2]) + at])

Failed(st) == [st EXCEPT !.ok = FALSE, !.v = None]
\* What was read is kept by its offset, unless it is mutable.
Kept(st, v, offset) ==
  [ok |-> TRUE, v |-> v,
   cache |-> IF v[1] # "bool" /\ ~v[3] THEN st.cache @@ (offset :> v) ELSE st.cache]
Grown(values, st) == [st EXCEPT !.v = Append(values, st.v)]
\* Each of a list of objects is read until one fails.
RECURSIVE CreateObject(_, _, _, _, _, _, _)
CreateObjects(d, offsets, mutability, st, set, depth, paths) ==
  FoldLeft(LAMBDA s, at :
             IF ~s.ok THEN s
             ELSE IF at = -1 THEN Failed(s)
             ELSE Grown(s.v, CreateObject(d, at, mutability, [s EXCEPT !.v = None], set, depth, paths)),
           [st EXCEPT !.ok = TRUE, !.v = <<>>], offsets)

\* The keys of a container, of those that are asked for, and where what is
\* asked for begins.
KeysWithin(d, o, keys) ==
  SelectSeq(keys, LAMBDA k : (IF o[1] = "array" THEN GetOffsetForValueFromArray(d, o, ProperIndex(k))
                              ELSE GetOffsetForValueFromDictionary(d, o, k)) # -1)
OffsetsWithin(d, o, keys, paths) ==
  IF paths = Whole THEN [i \in DOMAIN o[2] |-> GetOffsetOfRef(d, o[2][i])]
  ELSE [i \in DOMAIN keys |->
         IF o[1] = "array" THEN GetOffsetForValueFromArray(d, o, ProperIndex(keys[i]))
         ELSE GetOffsetForValueFromDictionary(d, o, keys[i])]
\* The first of equal keys counts.
Paired(names, values) == [k \in Range(names) |-> values[SelectInSeq(names, LAMBDA n : n = k)]]
Container(o, read, keys, mutable, offset, paths) ==
  IF ~read.ok THEN Failed(read)
  ELSE IF o[1] = "array" THEN Kept(read, Value("array", read.v, mutable), offset)
  ELSE IF paths # Whole THEN Kept(read, Value("dict", Paired(keys, read.v), mutable), offset)
  ELSE IF \E i \in 1..HalfOf(o[2]) : read.v[i][1] \in Containers THEN Failed(read)
  ELSE Kept(read,
            Value("dict", Paired([i \in 1..HalfOf(o[2]) |-> KeyName(read.v[i])],
                                 SubSeq(read.v, HalfOf(o[2]) + 1, Len(read.v))), mutable),
            offset)
Leaf(leaf, st, offset) == IF leaf = None THEN Failed(st) ELSE Kept(st, leaf, offset)
\* The set has the offsets down to this one, once they are deep.
ObjectOf(d, o, offset, mutability, st, set, depth, paths, keys) ==
  IF o[1] \notin Containers THEN Leaf(LeafOf(o, mutability = "leaves"), st, offset)
  ELSE Container(o,
         CreateObjects(d, OffsetsWithin(d, o, keys, paths), mutability, st,
                       IF set # {} \/ depth > Deep THEN set \cup {offset} ELSE {},
                       depth + 1, NextKeys(paths)),
         keys, mutability # "immutable", offset, paths)
CreateObject(d, offset, mutability, st, set, depth, paths) ==
  IF offset \in DOMAIN st.cache THEN [st EXCEPT !.ok = TRUE, !.v = st.cache[offset]]
  ELSE IF offset \in set THEN Failed(st)
  ELSE ObjectOf(d, ObjectAt(d, offset), offset, mutability, st, set, depth, paths,
                KeysWithin(d, ObjectAt(d, offset), SetToSeq(TheseKeys(paths))))
Fresh == [ok |-> FALSE, v |-> None, cache |-> <<>>]
Filtered(d, mutability, paths) ==
  CreateObject(d, TopOffset(d), mutability, Fresh, {}, 0, paths).v
TryParse(d, mutability) == IF GetTopLevelInfo(d) THEN Filtered(d, mutability, Whole) ELSE None

\* One value is found by its path.  What is neither a dictionary nor an
\* array leaves the last success as it is.
SingleOffset(d, path) ==
  FoldLeft(LAMBDA s, key :
             LET o == ObjectAt(d, s.at)
                 next == IF o[1] = "dict" THEN GetOffsetForValueFromDictionary(d, o, key)
                         ELSE GetOffsetForValueFromArray(d, o, IntValue(key))
             IN IF s.ended THEN s
                ELSE IF o[1] \in Containers
                  THEN [at |-> next, ok |-> next # -1, ended |-> next = -1]
                ELSE [s EXCEPT !.ended = ~s.ok],
           [at |-> TopOffset(d), ok |-> FALSE, ended |-> FALSE], path)
SingleAt(d, mutability, s) ==
  IF ~s.ok THEN None ELSE CreateObject(d, s.at, mutability, Fresh, {}, 0, Whole).v
BinarySingle(d, mutability, path) == SingleAt(d, mutability, SingleOffset(d, path))
BinaryTopKeys(d) ==
  LET o == ObjectAt(d, TopOffset(d))
      keys == [i \in 1..HalfOf(o[2]) |-> LeafOf(ObjectAt(d, GetOffsetOfRef(d, o[2][i])), FALSE)]
  IN IF o[1] # "dict" \/ \E i \in DOMAIN keys : keys[i][1] # "string" THEN {None}
     ELSE {keys[i] : i \in DOMAIN keys}
============================================================================
