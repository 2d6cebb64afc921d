---------------------------- MODULE CharacterSet ----------------------------
(* Sets of characters (CFCharacterSet.c).  A set is a predefined set, a      *)
(* range, a short string, a bitmap or a compacted bitmap, of the characters  *)
(* of plane 0; the other planes are sets of their own, in an annex, that may *)
(* be inverted as a whole.  `set` is a mutable set and `members` the         *)
(* characters that it stands for.                                            *)
EXTENDS Integers, FiniteSets, Sequences, FiniteSetsExt, SequencesExt

CONSTANTS
  PlaneSize,   \* characters of a plane (65536)
  MaxPlane,    \* the last plane (16)
  PageSize,    \* characters of a page of a compacted bitmap (256)
  MaxPages,    \* the most pages that a compacted bitmap keeps (128)
  StringMax,   \* the room of a set that is a string (64)
  Predefined,  \* the characters of the predefined set
  Ranges,      \* the ranges of the calls, <<location, length>>
  Strings,     \* the strings of the calls, sequences of characters
  Turns,       \* whether sets are inverted
  Exceptional  \* whether the calls that go wrong are made too

VARIABLES set, members

vars == <<set, members>>

Plane == 0 .. PlaneSize - 1
Planes == 1 .. MaxPlane
Unicode == 0 .. PlaneSize * (MaxPlane + 1) - 1
Within(loc, len) == loc .. loc + len - 1
PlaneOf(c) == c \div PlaneSize
InPlane(chars, p) == {c % PlaneSize : c \in {d \in chars : PlaneOf(d) = p}}

NoBits == {-1}
NoPages == [header |-> <<>>, body |-> <<>>]
NoSet == [class |-> "none"]
Empty == [class |-> "bitmap", bits |-> NoBits, pages |-> NoPages,
          inverted |-> FALSE, first |-> 0, length |-> 0,
          annex |-> [p \in Planes |-> NoSet], annexInverted |-> FALSE]

HasNonBMPPlane(s) == \E p \in Planes : s.annex[p] # NoSet

IsEmpty(s) ==
  /\ ~HasNonBMPPlane(s) /\ ~s.annexInverted
  /\ CASE s.class = "range" -> s.length = 0
       [] s.class = "string" -> s.bits = {}
       [] s.class = "bitmap" -> s.bits = NoBits
       [] OTHER -> FALSE

\* A compacted bitmap: of each page that it is all or nothing, or its contents.
PageOf(c) == c \div PageSize
Pages == 0 .. PageOf(PlaneSize - 1)
PageBits(bits, g) == {c \in bits : PageOf(c) = g}
FullPage(g) == {c \in Plane : PageOf(c) = g}
Compacted(bits) ==
  LET mixed == {g \in Pages : PageBits(bits, g) \notin {{}, FullPage(g)}}
      at(g) == Cardinality({h \in mixed : h <= g})
  IN [header |-> [g \in Pages |-> CASE g \in mixed -> at(g)
                                    [] PageBits(bits, g) = {} -> 0
                                    [] OTHER -> -1],
      body |-> [k \in 1 .. Cardinality(mixed) |->
                  PageBits(bits, CHOOSE g \in mixed : at(g) = k)]]
MayCompact(bits) == Len(Compacted(bits).body) <= MaxPages
Expanded(compact) ==
  UNION {LET h == compact.header[g]
         IN CASE h = 0 -> {} [] h = -1 -> FullPage(g) [] OTHER -> compact.body[h]
         : g \in Pages}

\* The characters of plane 0 of a set (CFUniCharGetBitmapForPlane for a
\* predefined set).
Turned(bits, turn) == IF turn THEN Plane \ bits ELSE bits
GetBitmap(s) ==
  CASE s.class = "bitmap" /\ s.bits # NoBits -> s.bits
    [] IsEmpty(s) \/ s.class = "bitmap" -> Turned({}, s.inverted)
    [] s.class = "builtin" -> Turned(InPlane(Predefined, 0), s.inverted)
    [] s.class = "range" -> Turned(Within(s.first, s.length) \cap Plane, s.inverted)
    [] s.class = "string" -> Turned(s.bits, s.inverted)
    [] OTHER -> Expanded(s.pages)

MakeCompact(s) ==
  IF s.class = "bitmap" /\ s.bits # NoBits /\ MayCompact(s.bits)
  THEN [s EXCEPT !.class = "compact", !.bits = {}, !.pages = Compacted(s.bits)] ELSE s

Cleared(s, p) == [s EXCEPT !.annex[p] = NoSet]
NoAnnex(s) == [s EXCEPT !.annex = [p \in Planes |-> NoSet], !.annexInverted = FALSE]
AnnexPlane(s, p) == IF s.annex[p] = NoSet THEN Empty ELSE s.annex[p]
ClearIfEmpty(s, p) ==
  IF s.annex[p] # NoSet /\ IsEmpty(s.annex[p]) /\ ~s.annex[p].inverted THEN Cleared(s, p) ELSE s

\* The part of a range in plane p.  The offset of its first character is that of
\* its first plane, in the planes after it too.
PlaneRange(loc, len, p) ==
  LET first == loc % PlaneSize
      end == (loc + len) % PlaneSize
  IN <<first, (IF p = PlaneOf(loc + len - 1) /\ end # 0 THEN end ELSE PlaneSize) - first>>
AnnexPlanesOf(loc, len) == {p \in Planes : PlaneOf(loc) <= p /\ p <= PlaneOf(loc + len - 1)}
Range_(s, loc, len) ==
  [s EXCEPT !.class = "range", !.bits = {}, !.first = loc, !.length = len]

RECURSIVE AddRange(_, _, _), RemoveRange(_, _, _)

\* The range's part of each plane is put into the annex, or taken out of it.
MorePlane(s, p, r) == AddRange(AnnexPlane(s, p), r[1], r[2])
UnlessEmpty(t) == IF IsEmpty(t) /\ ~t.inverted THEN NoSet ELSE t
LessPlane(s, p, r) ==
  IF s.annex[p] = NoSet THEN NoSet ELSE UnlessEmpty(RemoveRange(s.annex[p], r[1], r[2]))
ChangePlanes(s, loc, len, more) ==
  [s EXCEPT !.annex = [p \in Planes |->
     IF p \notin AnnexPlanesOf(loc, len) THEN s.annex[p]
     ELSE IF more THEN MorePlane(s, p, PlaneRange(loc, len, p))
     ELSE LessPlane(s, p, PlaneRange(loc, len, p))]]
AddNonBMPPlanes(s, loc, len) == ChangePlanes(s, loc, len, ~s.annexInverted)
RemoveNonBMPPlanes(s, loc, len) == ChangePlanes(s, loc, len, s.annexInverted)

\* A predefined set and a range bring their other planes into the annex.
WithPlanes(s) ==
  IF s.class = "builtin"
  THEN [s EXCEPT !.annex = [p \in Planes |->
          IF InPlane(Predefined, p) = {} THEN s.annex[p]
          ELSE [Empty EXCEPT !.bits = InPlane(Predefined, p)]]]
  ELSE IF s.class = "range"
  THEN [AddNonBMPPlanes(s, s.first, s.length) EXCEPT
          !.annexInverted = @ \/ (~HasNonBMPPlane(s) /\ s.inverted)]
  ELSE s
MakeBitmap(s) ==
  IF s.class = "bitmap" /\ s.bits # NoBits THEN s
  ELSE [WithPlanes(s) EXCEPT !.class = "bitmap", !.bits = GetBitmap(s), !.pages = NoPages,
                             !.inverted = FALSE, !.first = 0, !.length = 0]

Joined_Shorter(s, loc, len) ==   \* mutant
  IF s.first <= loc THEN Range_(s, s.first, loc + len - s.first)
  ELSE Range_(s, loc, Max({s.first + s.length - loc, len}))

\* A range that meets the one that the set is makes it longer; a short one is
\* put into the string, with the plane cut off.
Joined(s, loc, len) ==
  LET end == s.first + s.length
  IN CASE s.first < loc /\ loc <= end ->
            Range_(s, s.first, IF end < loc + len THEN len + loc - s.first ELSE s.length)
       [] loc < s.first /\ s.first <= loc + len ->
            Range_(s, loc, (IF end > loc + len THEN end ELSE loc + len) - loc)
Meets(s, loc, len) ==
  s.class = "range" /\ (\/ s.first < loc /\ loc <= s.first + s.length
                        \/ loc < s.first /\ s.first <= loc + len)
FitsString(s, len) == s.class = "string" /\ Cardinality(s.bits) + len < StringMax
WithString(s, chars) == [s EXCEPT !.bits = @ \cup {c % PlaneSize : c \in chars}]

AddRange(s, loc, len) ==
  CASE len = 0 \/ (s.inverted /\ IsEmpty(s)) -> s
    [] ~s.inverted /\ IsEmpty(s) -> Range_(s, loc, len)
    [] ~s.inverted /\ s.class = "range" /\ s.first = loc ->
         Range_(s, loc, IF s.length > len THEN s.length ELSE len)
    [] ~s.inverted /\ Meets(s, loc, len) -> Joined(s, loc, len)
    [] ~s.inverted /\ FitsString(s, len) -> WithString(s, Within(loc, len))
    [] OTHER -> [AddNonBMPPlanes(MakeBitmap(s), loc, len) EXCEPT
                   !.bits = @ \cup (Within(loc, len) \cap Plane)]

\* What is removed from an inverted set is added to what it leaves out, but of
\* two ranges that start together the shorter one stays.
RemoveRange(s, loc, len) ==
  CASE len = 0 \/ (~s.inverted /\ IsEmpty(s)) -> s
    [] s.inverted /\ IsEmpty(s) -> Range_(s, loc, len)
    [] s.inverted /\ s.class = "range" /\ s.first = loc ->
         Range_(s, loc, IF s.length < len THEN s.length ELSE len)
    [] s.inverted /\ Meets(s, loc, len) ->
         IF s.first < loc THEN Joined(s, loc, len)
         ELSE Range_(s, loc, s.length + s.first - loc)
    [] s.inverted /\ FitsString(s, len) -> WithString(s, Within(loc, len))
    [] OTHER -> [RemoveNonBMPPlanes(MakeBitmap(s), loc, len) EXCEPT
                   !.bits = IF loc = 0 /\ len >= PlaneSize THEN NoBits
                            ELSE @ \ (Within(loc, len) \cap Plane)]
----------------------------------------------------------------------------
\* Strings: the characters of other planes are pairs of surrogates, which are
\* left out of the string and then added or removed, one range for those that
\* follow one another.
Units(str) == FoldLeft(LAMBDA n, c : n + (IF c \in Plane THEN 1 ELSE 2), 0, str)
Short(str) == {str[i] : i \in DOMAIN str} \cap Plane
Long(str) == SelectSeq(str, LAMBDA c : c \notin Plane)
ShortUnits(str) == Len(str) - Len(Long(str))

RangesOf(long) ==
  FoldLeft(LAMBDA rs, c :
             IF rs # <<>> /\ rs[Len(rs)][1] + rs[Len(rs)][2] = c
             THEN [rs EXCEPT ![Len(rs)][2] = @ + 1] ELSE Append(rs, <<c, 1>>),
           <<>>, long)
Apply(op(_, _, _), s, str) ==
  FoldLeft(LAMBDA t, r : op(t, r[1], r[2]), s, RangesOf(Long(str)))

NewLength(s, str) ==
  Units(str) + (CASE IsEmpty(s) -> 0 [] s.class = "string" -> Cardinality(s.bits)
                  [] OTHER -> StringMax)
Strung(s, str) == [s EXCEPT !.class = "string", !.first = 0, !.length = 0,
                            !.bits = Short(str) \cup (IF s.class = "string" THEN @ ELSE {})]

AddString(s, str) ==
  LET kept == IF s.class = "string" THEN Cardinality(s.bits) ELSE 0
      asString == IF kept + ShortUnits(str) = 0 THEN s ELSE Strung(s, str)
  IN IF (IsEmpty(s) /\ s.inverted) \/ str = <<>> THEN s
     ELSE Apply(AddRange, IF ~s.inverted /\ NewLength(s, str) < StringMax THEN asString
                          ELSE [MakeBitmap(s) EXCEPT !.bits = @ \cup Short(str)], str)

RemoveString(s, str) ==
  IF (IsEmpty(s) /\ ~s.inverted) \/ str = <<>> THEN s
  ELSE Apply(RemoveRange, IF s.inverted /\ NewLength(s, str) < StringMax THEN Strung(s, str)
                          ELSE [MakeBitmap(s) EXCEPT !.bits = @ \ Short(str)], str)

Inverted(s) ==
  LET flipped == [h \in Pages |-> IF s.pages.header[h] \in {0, -1}
                                  THEN -1 - s.pages.header[h] ELSE s.pages.header[h]]
      pageAt(k) == CHOOSE g \in Pages : s.pages.header[g] = k
  IN [(CASE s.class = "bitmap" /\ s.bits = NoBits -> [s EXCEPT !.bits = Plane]
         [] s.class = "bitmap" -> [s EXCEPT !.bits = Plane \ @]
         [] s.class = "compact" ->
              [s EXCEPT !.pages = [header |-> flipped,
                                  body |-> [k \in DOMAIN s.pages.body |->
                                              FullPage(pageAt(k)) \ s.pages.body[k]]]]
         [] OTHER -> [s EXCEPT !.inverted = ~@]) EXCEPT !.annexInverted = ~@]

EachPlane(op(_), s) ==
  [op(s) EXCEPT !.annex = [p \in Planes |-> IF s.annex[p] = NoSet THEN NoSet ELSE op(s.annex[p])]]
Compact(s) == EachPlane(MakeCompact, s)
MakeFast(s) == IF s.class = "compact" THEN MakeBitmap(s) ELSE s
Fast(s) == EachPlane(MakeFast, s)

\* An immutable copy is compacted when it can be.
Copied(s, isMutable) == IF isMutable THEN s ELSE Compact(s)
----------------------------------------------------------------------------
RECURSIVE Union_(_, _), Intersect(_, _)

\* The annex of the union: the planes of the other set, whatever is inverted.
UnionAnnex(s, o) ==
  CASE HasNonBMPPlane(o) ->
         [s EXCEPT !.annex = [p \in Planes |-> IF o.annex[p] = NoSet THEN s.annex[p]
                                               ELSE Union_(AnnexPlane(s, p), o.annex[p])]]
    [] o.annexInverted -> [NoAnnex(s) EXCEPT !.annexInverted = TRUE]
    [] o.class = "builtin" ->
         [s EXCEPT !.annex = [p \in Planes |->
            LET bits == InPlane(Predefined, p)
            IN CASE bits = {} -> s.annex[p]
                 [] bits = Plane -> AddRange(AnnexPlane(s, p), 0, PlaneSize)
                 [] OTHER -> [MakeBitmap(AnnexPlane(s, p)) EXCEPT !.bits = @ \cup bits]]]
    [] OTHER -> s

\* Plane 0 of the union, with the planes of a range.
UnionBase(s, o) ==
  LET end == o.first + o.length
      turned == o.class = "range" /\ o.inverted
  IN CASE o.class = "range" ->
            AddRange(IF turned /\ o.first > 0 THEN AddRange(s, 0, o.first) ELSE s,
                     IF turned THEN end ELSE o.first,
                     IF turned THEN PlaneSize * (MaxPlane + 1) - end ELSE o.length)
       [] o.class = "string" -> AddString(s, SetToSortSeq(o.bits, LAMBDA a, b : a < b))
       [] OTHER -> [MakeBitmap(s) EXCEPT !.bits = @ \cup GetBitmap(o)]

\* A bitmap that has none is read through NULL: it is not united with.
Union_(s, o) ==
  CASE IsEmpty(s) /\ s.inverted -> s
    [] IsEmpty(o) /\ o.inverted -> [Range_(NoAnnex(s), 0, 0) EXCEPT !.inverted = TRUE]
    [] IsEmpty(o) /\ ~o.inverted -> s
    [] o.class = "builtin" /\ IsEmpty(s) ->
         [s EXCEPT !.class = "builtin", !.bits = {}, !.first = 0, !.length = 0,
                   !.inverted = @ \/ o.inverted, !.annexInverted = @ \/ o.annexInverted]
    [] OTHER -> UnionAnnex(UnionBase(s, o), o)

TurnedIf(turn, s) == IF turn THEN Inverted(s) ELSE s

\* Plane p of the intersection with a set of which the annex is o.annex; nothing
\* is left of one that the other set has not.
PlaneWith(s, mine, other) == TurnedIf(s.annexInverted, Intersect(TurnedIf(s.annexInverted, mine), other))
IntersectPlane(s, o, p) ==
  LET has == o.annex[p] # NoSet IN
  IF ~has /\ ~s.annexInverted THEN Cleared(s, p)
  ELSE LET Kept(t) == IF has THEN ClearIfEmpty(t, p) ELSE t
       IN Kept([s EXCEPT !.annex[p] =
                  PlaneWith(s, AnnexPlane(s, p), IF has THEN TurnedIf(o.annexInverted, o.annex[p]) ELSE Empty)])
OrNoAnnex(s) == IF HasNonBMPPlane(s) THEN s ELSE NoAnnex(s)
IntersectPlanes(s, o) ==
  OrNoAnnex(FoldFunction(LAMBDA p, u : IntersectPlane(u, o, p), s, [p \in Planes |-> p]))

\* With a predefined set, of which every plane is asked for its bitmap.
IntersectBuiltin(s) ==
  LET Filled(t) == IF t.bits = {} THEN NoSet ELSE t
      Common(t, p) == Filled([t EXCEPT !.bits = @ \cap InPlane(Predefined, p)])
  IN OrNoAnnex([s EXCEPT !.annex = [p \in Planes |->
       IF s.annex[p] = NoSet \/ InPlane(Predefined, p) = Plane THEN s.annex[p]
       ELSE Common(MakeBitmap(s.annex[p]), p)]])
IntersectAnnex(s, o) ==
  LET planes == HasNonBMPPlane(o) IN
  CASE ~planes /\ o.class = "builtin" /\ ~o.annexInverted -> IntersectBuiltin(s)
    [] planes \/ o.class = "range" ->
         IntersectPlanes(s, IF planes THEN o ELSE AddNonBMPPlanes(Empty, o.first, o.length))
    [] OTHER -> IF o.annexInverted THEN s ELSE NoAnnex(s)

Intersect(s, o) ==
  IF IsEmpty(s) /\ ~s.inverted THEN s
  ELSE IF IsEmpty(o) THEN IF o.inverted THEN s ELSE Empty
  ELSE IF IsEmpty(s)
  THEN [o EXCEPT !.annexInverted = IF HasNonBMPPlane(o) THEN @ ELSE s.annexInverted]
  ELSE IntersectAnnex([MakeBitmap(s) EXCEPT !.bits = @ \cap GetBitmap(o)], o)
----------------------------------------------------------------------------
\* Whether a character is in a set; a compacted bitmap is searched by its pages.
InCompact(compact, c) ==
  LET h == compact.header[PageOf(c)]
  IN h = -1 \/ (h > 0 /\ c \in compact.body[h])
IsShortMember(s, c) ==
  CASE s.class = "builtin" -> (c \in Predefined) # s.inverted
    [] s.class = "range" -> (c \in Within(s.first, s.length)) # s.inverted
    [] s.class = "string" -> (c \in s.bits) # s.inverted
    [] s.class = "bitmap" -> IF s.bits = NoBits THEN s.inverted ELSE c \in s.bits
    [] OTHER -> InCompact(s.pages, c)
IsMember(s, c) ==
  LET p == PlaneOf(c)
  IN CASE p = 0 \/ s.class = "builtin" -> IsShortMember(s, c)
       [] s.annex[p] # NoSet -> IsShortMember(s.annex[p], c % PlaneSize) # s.annexInverted
       [] ~HasNonBMPPlane(s) /\ s.class = "range" -> IsShortMember(s, c)
       [] OTHER -> s.annexInverted
MembersOf(s) == {c \in Unicode : IsMember(s, c)}

AnnexBits(s, p) == IF s.annex[p] = NoSet THEN {} ELSE GetBitmap(s.annex[p])

\* The planes that an inverted range leaves: of a range of several planes what
\* is left in its last one is written, with its last character, for its first.
InvertedRangeBits(loc, len, p) ==
  LET first == IF PlaneOf(loc) = 0 THEN 1 ELSE PlaneOf(loc)
      start == IF PlaneOf(loc) = 0 THEN 0 ELSE loc % PlaneSize
      last == PlaneOf(loc + len - 1)
      end == (loc + len - 1) % PlaneSize
  IN CASE p < first \/ p > last -> Plane
       [] first = last -> Plane \ (start .. end)
       [] p = first -> IF end < PlaneSize - 1 THEN end .. PlaneSize - 1 ELSE 0 .. start - 1
       [] OTHER -> {}

\* The bitmaps of the planes.
BitmapRepresentation(s) ==
  LET bits(p) == CASE HasNonBMPPlane(s) -> Turned(AnnexBits(s, p), s.annexInverted)
                   [] s.class = "builtin" -> Turned(InPlane(Predefined, p), s.inverted)
                   [] s.class = "range" /\ s.inverted -> InvertedRangeBits(s.first, s.length, p)
                   [] s.class = "range" -> InPlane(Within(s.first, s.length), p)
                   [] OTHER -> Turned({}, s.annexInverted)
  IN [p \in {0} \cup Planes |-> IF p = 0 THEN GetBitmap(s) ELSE bits(p)]

\* Equality, of sets that are not predefined.
RECURSIVE Equal(_, _)
BitsOf(s) == IF s.bits = NoBits THEN {} ELSE s.bits
EqualAnnex(a, b) ==
  IF a.annexInverted = b.annexInverted
  THEN \A p \in Planes : /\ (a.annex[p] = NoSet) = (b.annex[p] = NoSet)
                         /\ a.annex[p] # NoSet => Equal(a.annex[p], b.annex[p])
  ELSE \A p \in Planes : AnnexBits(a, p) = Plane \ AnnexBits(b, p)
EqualSameClass(a, b) ==
  CASE a.class = "range" -> /\ a.first = b.first /\ a.inverted = b.inverted
                            /\ a.length # 0 /\ b.length # 0
    [] a.class = "string" -> a.inverted = b.inverted /\ a.bits = b.bits /\ EqualAnnex(a, b)
    [] OTHER -> BitsOf(a) = BitsOf(b) /\ EqualAnnex(a, b)
EqualEmpty(empty, s) ==
  IF s.class = "range"
  THEN s.length = (IF s.inverted = empty.inverted THEN 0 ELSE Cardinality(Unicode))
  ELSE /\ ~s.annexInverted /\ ~HasNonBMPPlane(s) /\ GetBitmap(s) = {}
\* The last plane is not looked at.
EqualRange(range, s) ==
  LET same == range.inverted = s.annexInverted
  IN /\ GetBitmap(s) = GetBitmap(range)
     /\ \A p \in Planes \ {MaxPlane} :
          AnnexBits(s, p) = Turned(InPlane(Within(range.first, range.length), p), ~same)
Equal(a, b) ==
  CASE IsEmpty(a) /\ IsEmpty(b) /\ a.inverted # b.inverted -> FALSE
    [] a.class = b.class /\ a.class # "compact" -> EqualSameClass(a, b)
    [] IsEmpty(a) -> EqualEmpty(a, b)
    [] IsEmpty(b) -> EqualEmpty(b, a)
    [] a.class = "range" -> EqualRange(a, b)
    [] b.class = "range" -> EqualRange(b, a)
    [] OTHER -> GetBitmap(a) = GetBitmap(b) /\ EqualAnnex(a, b)
\* Whether a set holds another one.
RangeHolds(a, b) ==
  LET endA == a.first + a.length
      endB == b.first + b.length
  IN CASE a.inverted /\ b.inverted -> b.first <= a.first /\ endA <= endB
       [] a.inverted -> endB <= a.first \/ endA <= b.first
       [] b.inverted -> \/ a.first = 0 /\ a.length = Cardinality(Unicode)
                        \/ b.first = 0 /\ b.length <= a.first
                        \/ endA <= b.first /\ endB = Cardinality(Unicode)
       [] OTHER -> a.first <= b.first /\ endB <= endA
PlanesOf(s) == {p \in Planes : (s.annex[p] = NoSet) = s.annexInverted}
BitmapHolds(a, b) ==
  /\ GetBitmap(b) \subseteq GetBitmap(a)
  /\ PlanesOf(b) \subseteq PlanesOf(a)
  /\ PlanesOf(b) # {} =>
       \A p \in {q \in Planes : a.annex[q] # NoSet} :
         IF b.annex[p] = NoSet
         THEN b.annexInverted => Turned(AnnexBits(a, p), a.annexInverted) = Plane
         ELSE Turned(AnnexBits(b, p), b.annexInverted)
                \subseteq Turned(AnnexBits(a, p), a.annexInverted)
IsSupersetOfSet(a, b) ==
  LET byIntersection == Equal(Intersect(a, b), b)
  IN CASE IsEmpty(a) /\ a.inverted -> TRUE
       [] IsEmpty(a) /\ (~IsEmpty(b) \/ b.inverted) -> FALSE
       [] IsEmpty(b) /\ ~b.inverted -> TRUE
       [] "builtin" \in {a.class, b.class} ->
            (a.class = b.class /\ ~a.inverted /\ ~b.inverted) \/ byIntersection
       [] a.class = "range" /\ b.class = "range" -> RangeHolds(a, b)
       [] "range" \in {a.class, b.class} -> byIntersection
       [] OTHER -> BitmapHolds(a, b)

\* Whether a set has members in a plane; a bitmap that is there counts as some.
HasMemberInPlane(s, p) ==
  LET ofRange == InPlane(Within(s.first, s.length), p)
  IN CASE IsEmpty(s) -> s.inverted
       [] s.class = "builtin" -> s.inverted \/ InPlane(Predefined, p) # {}
       [] s.class = "range" -> Turned(ofRange, s.inverted) # {}
       [] p = 0 -> IF s.class = "string" THEN s.bits # {} \/ s.inverted ELSE s.bits # NoBits
       [] s.annex[p] = NoSet -> s.annexInverted
       [] OTHER -> ~(s.annexInverted /\ GetBitmap(s.annex[p]) = Plane)
----------------------------------------------------------------------------
CreateWithRange(r) == IF r[2] = 0 THEN Empty ELSE Range_(Empty, r[1], r[2])
CreateWithString(str) ==
  IF Units(str) < StringMax /\ Long(str) = <<>> THEN Strung(Empty, str)
  ELSE MakeCompact(AddString(Empty, str))
CreateWithBitmap(chars) ==
  LET plane(p) == MakeCompact([Empty EXCEPT !.bits = InPlane(chars, p)])
  IN [plane(0) EXCEPT !.annex =
        [p \in Planes |-> IF InPlane(chars, p) = {} THEN NoSet ELSE plane(p)]]
GetPredefined == [Empty EXCEPT !.class = "builtin", !.bits = {}]

Created == {CreateWithRange(r) : r \in Ranges} \cup {CreateWithString(s) : s \in Strings}
           \cup {CreateWithBitmap({s[i] : i \in DOMAIN s}) : s \in Strings}
           \cup {GetPredefined}
\* The sets that a call may get: new ones, a copy, and the inverted set of them.
New == Created \cup {Copied(set, FALSE)}
Operands == New \cup (IF Turns THEN {Inverted(s) : s \in New} ELSE {})

Init == set = Empty /\ members = {}

\* A range that starts within a plane and goes on in the next one is cut there as
\* soon as the set becomes a bitmap.
OffsetIsKept(s) ==
  /\ s.class = "range" /\ s.first % PlaneSize # 0
  /\ PlaneOf(s.first) # PlaneOf(s.first + s.length - 1)
Becomes(new, chars) ==
  /\ Exceptional \/ ~OffsetIsKept(new)
  /\ set' = new
  /\ members' = chars
CharsOf(str) == {str[i] : i \in DOMAIN str}

\* The calls that go wrong: characters of other planes added to a string; a range removed from an inverted one that begins where
\* it does; an inverted string or bitmap united with the set; an inverted range
\* intersected with it.
ShorterIsKept(r) ==
  /\ set.inverted /\ set.class = "range"
  /\ \/ set.first = r[1] /\ set.length # r[2]
     \/ r[1] < set.first /\ set.first + set.length < r[1] + r[2]
PlaneIsCutOff(s, chars) ==
  s.class = "string" /\ FitsString(s, 1) /\ ~(chars \subseteq Plane)
StringIsCutOff(str) == PlaneIsCutOff(IF IsEmpty(set) THEN Strung(set, str) ELSE set, CharsOf(str))
UnionForgetsTurn(o) ==
  \/ o.inverted /\ o.class \in {"string", "builtin"}
  \/ (set.annexInverted \/ o.annexInverted) /\ (HasNonBMPPlane(o) \/ o.class = "builtin")
BitsAreMissing(o) == o.class = "bitmap" /\ o.bits = NoBits /\ ~IsEmpty(o)
IntersectForgetsTurn(o) ==
  \/ o.inverted /\ o.class \in {"range", "builtin"}
  \/ set.annexInverted /\ o.class = "builtin"

AddCharactersInRange(r) ==
  /\ Exceptional \/ ~PlaneIsCutOff(set, Within(r[1], r[2]))
  /\ Becomes(AddRange(set, r[1], r[2]), members \cup Within(r[1], r[2]))
RemoveCharactersInRange(r) ==
  /\ Exceptional \/ ~ShorterIsKept(r)
  /\ Becomes(RemoveRange(set, r[1], r[2]), members \ Within(r[1], r[2]))
AddCharactersInString(str) ==
  /\ Exceptional \/ ~StringIsCutOff(str)
  /\ Becomes(AddString(set, str), members \cup CharsOf(str))
RemoveCharactersInString(str) == Becomes(RemoveString(set, str), members \ CharsOf(str))
Union(o) ==
  /\ Exceptional \/ ~(UnionForgetsTurn(o) \/ PlaneIsCutOff(set, Within(o.first, o.length)))
  /\ ~BitsAreMissing(o)
  /\ Becomes(Union_(set, o), members \cup MembersOf(o))
IntersectWith(o) ==
  /\ Exceptional \/ ~IntersectForgetsTurn(o)
  /\ ~BitsAreMissing(o)
  /\ Becomes(Intersect(set, o), members \cap MembersOf(o))
Invert == Turns /\ Becomes(Inverted(set), Unicode \ members)
CreateMutableCopy(o) == Becomes(Copied(o, TRUE), MembersOf(o))

Next ==
  \/ \E r \in Ranges : AddCharactersInRange(r) \/ RemoveCharactersInRange(r)
  \/ \E s \in Strings : AddCharactersInString(s) \/ RemoveCharactersInString(s)
  \/ \E o \in Operands : Union(o) \/ IntersectWith(o) \/ CreateMutableCopy(o)
  \/ Invert
  \/ Becomes(Compact(set), members)
  \/ Becomes(Fast(set), members)
----------------------------------------------------------------------------
TypeOK ==
  /\ members \subseteq Unicode
  /\ set.class \in {"builtin", "range", "string", "bitmap", "compact"}

\* The members of a set are what was put in it and not taken out, whatever form it
\* has taken, and the bitmaps that are made of it and the searches of its planes
\* agree with that (CFCharacterSet.c:1761-1829, 2017-2177, 2180-2936).
MembersAgree ==
  /\ MembersOf(set) = members
  /\ \A p \in {0} \cup Planes : BitmapRepresentation(set)[p] = InPlane(members, p)
  /\ \A p \in Planes : InPlane(members, p) # {} => HasMemberInPlane(set, p)

\* Sets that are found equal have the same members, and a set that is found to
\* hold another one does; a plane of which nothing is left may make them differ, so
\* not the other way round (CFCharacterSet.c:906-1195, 1841-1935).
ComparisonsAreSound ==
  \A o \in Operands : "builtin" \notin {o.class, set.class} =>
    /\ Equal(set, o) /\ {o.class, set.class} # {"range"} => MembersOf(o) = members
    /\ IsSupersetOfSet(set, o) => MembersOf(o) \subseteq members
============================================================================
