--------------------------- MODULE MutableString ---------------------------
(* The storage of a mutable string and its copies (CFString.c): a buffer of  *)
(* bytes, with a byte for the length before and a null byte behind, or of    *)
(* UniChars, whose capacity grows and shrinks; what every call does to it,   *)
(* beside the text that the calls are to leave.  A unit is a number, of      *)
(* Ascii, of EightBit (those that one byte is enough for) or wide.           *)
EXTENDS Integers, Sequences, SequencesExt, FiniteSetsExt

CONSTANTS
  Ascii, EightBit,
  Leads, Trails,       \* the halves of surrogate pairs
  White,               \* whitespace
  Lower, Upper, Title, \* what characters become, those that change
  Cased, Ignorable,    \* letters, and what is ignored between them
  MaxPascal,           \* the longest length that fits a length byte
  DefaultMin,          \* the capacity that nobody asked for
  Chunk,               \* a hash reads three chunks of a long string
  Starts,              \* the texts there are first
  Strings,             \* the units of the strings that calls are given
  MaxLengths,          \* what strings are created with, 0 for no maximum
  Externals,           \* the capacities of external buffers
  UnicodeBytes,        \* whether bytes are appended that are UniChars
  MaxLength, MaxCalls  \* bounds

VARIABLES str, text, copy, calls

Junk == -1
NullByte == 0
Fill(n) == [i \in 1..n |-> Junk]
IsAscii(units) == \A i \in DOMAIN units : units[i] \in Ascii
IsEightBit(units) == \A i \in DOMAIN units : units[i] \in EightBit
\* What is given to a call: its units and whether it is stored as Unicode.
Given == {<<s, wide>> \in Strings \X BOOLEAN : wide \/ IsEightBit(s)}

Skip(s) == IF s.pascal THEN 1 ELSE 0
CharSize(s) == IF s.unicode THEN 2 ELSE 1
Body(s) == SubSeq(s.cells, Skip(s) + 1, Len(s.cells))
Contents(s) == SubSeq(Body(s), 1, s.length)
----------------------------------------------------------------------------
\* Capacity: grown to one and a half of what is needed, at least what is
\* desired; kept while it is more than enough and less than twice of it.
NewCapacity(s, needed, charSize) ==
  LET more == (3 * needed + 1) \div 2
      desired == s.desired * charSize
  IN IF \/ s.capacity = 0 /\ needed = 0
        \/ /\ needed <= s.capacity
           /\ s.provided \/ needed >= s.capacity \div 2
     THEN s.capacity
     ELSE IF more < desired THEN desired
     ELSE IF s.fixed THEN Max({desired, needed}) ELSE more

\* A block of the buffer is moved by `shift`.
Moved(cells, block) ==
  IF block.shift = 0 THEN cells
  ELSE [i \in DOMAIN cells |->
         IF i - block.shift \in block.from + 1 .. block.from + block.length
         THEN cells[i - block.shift] ELSE cells[i]]
AllMoved(cells, deferred) == FoldLeft(Moved, cells, Reverse(deferred))

\* What lies between the ranges is moved, in place: to the left at once, with
\* what was deferred; to the right when what follows has been.
RearrangeBlocks(cells, count, ranges, insert) ==
  LET n == Len(ranges)
      End(i) == ranges[i][1] + ranges[i][2]
      Shift(i) == insert * i - FoldLeft(LAMBDA sum, r : sum + r[2], 0, SubSeq(ranges, 1, i))
      Block(i) == [from |-> End(i), shift |-> Shift(i),
                   length |-> (IF i = n THEN count ELSE ranges[i + 1][1]) - End(i)]
      Next1(acc, i) ==
        IF i = n /\ Block(i).length = 0 THEN acc
        ELSE IF Shift(i) <= 0
        THEN <<AllMoved(Moved(acc[1], Block(i)), acc[2]), <<>> >>
        ELSE <<acc[1], Append(acc[2], Block(i))>>
      Done(end) == AllMoved(end[1], end[2])
  IN Done(FoldLeftDomain(Next1, <<cells, <<>> >>, ranges))

\* The same into another buffer.
CopyBlocks(units, size, ranges, insert) ==
  LET n == Len(ranges)
      Start(i) == IF i = 0 THEN 0 ELSE ranges[i][1] + ranges[i][2]
      Kept(i) == SubSeq(units, Start(i - 1) + 1, ranges[i][1]) \o Fill(insert)
      Filled(all) == all \o Fill(size - Len(all))
  IN Filled(FoldLeftDomain(LAMBDA acc, i : acc \o Kept(i), <<>>, ranges)
            \o SubSeq(units, Start(n) + 1, Len(units)))

Put(cells, at, units) ==
  [i \in DOMAIN cells |-> IF i - at \in DOMAIN units THEN units[i - at] ELSE cells[i]]
\* Units are written into the contents; what is beyond the buffer is noted.
Write(s, at, units) ==
  [s EXCEPT !.cells = Put(@, at + Skip(s), units),
            !.overrun = @ \/ at + Skip(s) + Len(units) > Len(s.cells)]

\* An old buffer is freed by its string, or left to its client, or lost.
Dropped(s) ==
  [s EXCEPT !.lost = @ \/ (s.mine /\ ~s.frees /\ s.cells # <<>>), !.mine = TRUE, !.provided = FALSE]

Emptied(s) ==
  LET capacity == NewCapacity(s, 0, 1) IN
  IF capacity # s.capacity
  THEN [s EXCEPT !.cells = <<>>, !.capacity = 0, !.provided = FALSE, !.pascal = FALSE,
                 !.unicode = s.external, !.length = 0, !.mine = TRUE,
                 !.overrun = @ \/ ~(s.mine \/ s.frees)]
  ELSE IF s.external THEN [s EXCEPT !.length = 0]
  ELSE LET cells == IF s.unicode THEN Fill(capacity) ELSE s.cells IN
       IF capacity >= 2
       THEN [s EXCEPT !.cells = Put(cells, 0, <<0, NullByte>>), !.unicode = FALSE,
                      !.pascal = TRUE, !.length = 0]
       ELSE [s EXCEPT !.cells = cells, !.unicode = FALSE, !.pascal = FALSE, !.length = 0]

\* Room is made for `insert` units at each of the ranges, which are deleted:
\* where the units are, in a buffer that may be another; and then the string.
WithRoom(s, ranges, insert, unicode, anew, room) ==
  IF s.cells = <<>> \/ (~anew /\ s.unicode # unicode) THEN Fill(room)
  ELSE IF ~anew /\ s.pascal = ~unicode
  THEN RearrangeBlocks(Body(s), s.length, ranges, insert)
  ELSE CopyBlocks(Contents(s), room, ranges, insert)
Laid(cells, unicode, length) ==
  IF unicode THEN cells
  ELSE <<IF length <= MaxPascal THEN length ELSE 0>> \o Put(cells, length, <<NullByte>>)
Resized(s, ranges, insert, unicode, length, capacity) ==
  LET anew == capacity # s.capacity \/ (s.length > 0 /\ ~s.unicode /\ unicode)
      room == IF unicode THEN capacity \div 2 ELSE capacity - 1
  IN [(IF anew THEN Dropped(s) ELSE s) EXCEPT
        !.unicode = unicode, !.pascal = ~unicode, !.length = length, !.capacity = capacity,
        !.cells = Laid(WithRoom(s, ranges, insert, unicode, anew, room), unicode, length)]
SizedFor(s, ranges, insert, unicode, length) ==
  IF length = 0 THEN Emptied(s)
  ELSE Resized(s, ranges, insert, unicode, length,
               IF unicode THEN NewCapacity(s, 2 * length, 2) ELSE NewCapacity(s, length + 2, 1))
ChangeSizeMultiple(s, ranges, insert, makeUnicode) ==
  SizedFor(s, ranges, insert, makeUnicode \/ s.unicode \/ s.external,
           s.length + insert * Len(ranges) - FoldLeft(LAMBDA sum, r : sum + r[2], 0, ranges))
ChangeSize(s, loc, len, insert, makeUnicode) ==
  ChangeSizeMultiple(s, <<<<loc, len>> >>, insert, makeUnicode)

\* The ranges are replaced; the first gets the replacement's units, which are
\* copied from there.
ReplaceMultiple(s, ranges, with) ==
  LET n == Len(with[1])
      At(i) == ranges[i][1] + n * (i - 1)
               - FoldLeft(LAMBDA sum, r : sum + r[2], 0, SubSeq(ranges, 1, i - 1))
  IN FoldLeftDomain(
       LAMBDA acc, i :
         Write(acc, At(i), IF i = 1 THEN with[1] ELSE SubSeq(Body(acc), At(1) + 1, At(1) + n)),
       ChangeSizeMultiple(s, ranges, n, n > 0 /\ with[2]), ranges)
Replace(s, loc, len, with) == ReplaceMultiple(s, <<<<loc, len>> >>, with)
----------------------------------------------------------------------------
\* Immutable copies: bytes if a byte is enough for each, in the object or
\* not, with a length byte if the length fits one.
Reduced(units, unicode) == ~unicode \/ IsAscii(units)
Immutable(units, unicode) ==
  LET reduced == Reduced(units, unicode)
      pascal == reduced /\ Len(units) <= MaxPascal
      before == IF pascal THEN <<Len(units)>> ELSE <<>>
      after == IF reduced THEN <<NullByte>> ELSE <<>>
  IN [unicode |-> ~reduced, pascal |-> pascal, length |-> IF pascal THEN -1 ELSE Len(units),
      cells |-> before \o units \o after]
LengthOf(c) == IF c.pascal THEN c.cells[1] ELSE c.length
UnitsOf(c) == SubSeq(c.cells, Skip(c) + 1, Skip(c) + LengthOf(c))
Substring(s, loc, len) == Immutable(SubSeq(Contents(s), loc + 1, loc + len), s.unicode)
CreateCopy(s) == Immutable(Contents(s), s.unicode)

\* Byte by byte, unit by unit, or a byte and the unit it stands for.
Equal(c, s) == LengthOf(c) = s.length /\ \A i \in 1..s.length : UnitsOf(c)[i] = Contents(s)[i]

\* Three chunks of a long string are hashed; the rest is as for a short one.
HashCharacters(units, length) ==
  LET n == Len(units)
      mid == n \div 2 - Chunk \div 2
  IN <<length, IF n <= 3 * Chunk THEN units
               ELSE SubSeq(units, 1, Chunk) \o SubSeq(units, mid + 1, mid + Chunk)
                    \o SubSeq(units, n - Chunk + 1, n)>>
\* What another class than the string's own is asked for.
HashNSString(units) ==
  LET n == Len(units)
      mid == n \div 2 - Chunk \div 2
      buffer == IF n <= 3 * Chunk THEN units
                ELSE SubSeq(units, 1, Chunk) \o SubSeq(units, mid + 1, mid + Chunk)
                     \o SubSeq(units, n - Chunk + 1, n)
  IN HashCharacters(buffer, n)
----------------------------------------------------------------------------
NewMutable(maxLength) ==
  [unicode |-> FALSE, pascal |-> FALSE, cells |-> <<>>, length |-> 0, capacity |-> 0,
   fixed |-> maxLength # 0, desired |-> IF maxLength = 0 THEN DefaultMin ELSE maxLength,
   external |-> FALSE, provided |-> FALSE, frees |-> TRUE, mine |-> TRUE, lost |-> FALSE,
   overrun |-> FALSE]
SetExternalCharacters(s, units, capacity) ==
  [s EXCEPT !.cells = units \o Fill(capacity - Len(units)), !.length = Len(units),
            !.capacity = 2 * capacity, !.provided = TRUE, !.mine = FALSE]
NewExternal(units, capacity, frees) ==
  SetExternalCharacters(
    [NewMutable(0) EXCEPT !.unicode = TRUE, !.external = TRUE, !.frees = frees], units, capacity)
NoCopy == [unicode |-> FALSE, pascal |-> TRUE, length |-> -1, cells |-> <<0, NullByte>>]

Init ==
  /\ text \in Starts
  /\ \/ \E n \in MaxLengths : str = Replace(NewMutable(n), 0, 0, <<text, ~IsEightBit(text)>>)
     \/ \E capacity \in Externals, frees \in BOOLEAN :
          Len(text) <= capacity /\ str = NewExternal(text, capacity, frees)
  /\ copy = <<NoCopy, <<>> >> /\ calls = 0

Did(s, units) ==
  /\ Len(units) <= MaxLength
  /\ str' = s /\ text' = units /\ calls' = calls + 1 /\ UNCHANGED copy
----------------------------------------------------------------------------
\* What the calls are to do to the text.
Replaced(loc, len, units) ==
  SubSeq(text, 1, loc) \o units \o SubSeq(text, loc + len + 1, Len(text))
Places == {<<loc, len>> \in (0..MaxLength) \X (0..MaxLength) : loc + len <= Len(text)}

\* CFStringReplace, CFStringInsert, CFStringAppend and CFStringReplaceAll; the
\* string itself may be its replacement, and is then copied.
ReplaceRange ==
  \E r \in Places, with \in Given : Did(Replace(str, r[1], r[2], with), Replaced(r[1], r[2], with[1]))
InsertItself ==
  \E loc \in 0..Len(text) :
    LET c == CreateCopy(str) IN
    Did(Replace(str, loc, 0, <<UnitsOf(c), c.unicode>>), Replaced(loc, 0, text))
Delete == \E r \in Places : Did(ChangeSize(str, r[1], r[2], 0, FALSE), Replaced(r[1], r[2], <<>>))

AppendCharacters ==
  \E units \in Strings :
    Did(Write(ChangeSize(str, str.length, 0, Len(units), str.unicode \/ ~IsAscii(units)),
              str.length, units), text \o units)

\* Bytes of the string's own encoding; UniChars, which are stored as bytes if
\* they are ASCII, but read as bytes if the string is of UniChars; or bytes of
\* another encoding, which are decoded first.
AppendBytes ==
  \E units \in Strings, encoding \in {"own", "unicode", "other"} :
    LET ascii == IsAscii(units)
        wide == CASE encoding = "own" -> FALSE
                  [] encoding = "unicode" -> ~ascii
                  [] encoding = "other" -> ~ascii \/ str.unicode
        halves == [i \in DOMAIN units |-> IF i % 2 = 1 THEN units[(i + 1) \div 2] ELSE NullByte]
    IN /\ encoding = "own" => IsEightBit(units)
       /\ encoding = "unicode" => UnicodeBytes
       /\ Did(Write(ChangeSize(str, str.length, 0, Len(units), wide \/ str.unicode), str.length,
                    IF encoding = "unicode" /\ (str.unicode \/ str.external) /\ ~wide
                    THEN halves ELSE units),
              text \o units)

MutableCopy ==
  \E n \in MaxLengths : Did(Replace(NewMutable(n), 0, 0, <<Contents(str), str.unicode>>), text)

SetExternal ==
  \E units \in Strings, capacity \in Externals :
    /\ str.external /\ Len(units) <= capacity
    /\ Did(SetExternalCharacters(str, units, capacity), units)
----------------------------------------------------------------------------
\* The first place of `what` in units from `from`, or the last one; -1 if none.
Found(units, what, from, to, backwards) ==
  LET at == {i \in from .. to - Len(what) : SubSeq(units, i + 1, i + Len(what)) = what} IN
  IF at = {} THEN -1 ELSE IF backwards THEN Max(at) ELSE Min(at)

RECURSIVE FindAll(_, _, _, _, _)
FindAll(units, what, from, to, backwards) ==
  LET at == IF from < to THEN Found(units, what, from, to, backwards) ELSE -1 IN
  IF at = -1 THEN <<>>
  ELSE IF backwards THEN Append(FindAll(units, what, from, at, TRUE), <<at, Len(what)>>)
  ELSE <<<<at, Len(what)>> >> \o FindAll(units, what, at + Len(what), to, FALSE)

\* The text with each occurrence replaced, from the front or from the end.
RECURSIVE Substituted(_, _, _, _)
Substituted(units, what, with, backwards) ==
  LET n == Len(units) m == Len(what) IN
  IF n < m THEN units
  ELSE IF backwards
  THEN IF SubSeq(units, n - m + 1, n) = what
       THEN Substituted(SubSeq(units, 1, n - m), what, with, TRUE) \o with
       ELSE Append(Substituted(SubSeq(units, 1, n - 1), what, with, TRUE), units[n])
  ELSE IF SubSeq(units, 1, m) = what
  THEN with \o Substituted(SubSeq(units, m + 1, n), what, with, FALSE)
  ELSE <<units[1]>> \o Substituted(Tail(units), what, with, FALSE)

FindAndReplace ==
  \E r \in {<<0, Len(text)>>, <<Min({1, Len(text)}), Max({0, Len(text) - 1})>>},
     what \in Strings \ {<<>>}, with \in Given, backwards \in BOOLEAN :
    LET ranges == FindAll(Contents(str), what, r[1], r[1] + r[2], backwards)
        part == SubSeq(text, r[1] + 1, r[1] + r[2])
    IN Did(IF ranges = <<>> THEN str ELSE ReplaceMultiple(str, ranges, with),
           Replaced(r[1], r[2], Substituted(part, what, with[1], backwards)))
----------------------------------------------------------------------------
\* Padding writes the pad string piece by piece; a piece is as long as the one
\* before, or whole.
RECURSIVE Padded(_, _, _, _, _, _)
Padded(s, at, pad, from, len, remaining) ==
  IF remaining <= 0 THEN s
  ELSE LET piece == SubSeq(pad, from + 1, from + len)
           fits == IF s.unicode THEN piece ELSE SubSeq(piece, 1, Min({len, remaining}))
           left == remaining - len
       IN Padded(Write(s, at, fits), at + len, pad, 0, IF left < len THEN left ELSE Len(pad), left)
Pad ==
  \E pad \in Given, length \in 0..MaxLength, from \in 0 .. MaxLength :
    LET missing == length - str.length
        n == Len(pad[1])
        rest == [i \in 1..missing |-> pad[1][((from + i - 1) % n) + 1]]
    IN /\ pad[1] # <<>> /\ from < n /\ (length <= str.length => from = 0)
       /\ from = 0 \/ missing <= n - from \* otherwise a piece may be too long
       /\ IF length <= str.length
          THEN Did(ChangeSize(str, length, str.length - length, 0, FALSE), SubSeq(text, 1, length))
          ELSE Did(Padded(ChangeSize(str, str.length, 0, missing, str.unicode \/ pad[2]),
                          str.length, pad[1], from, Min({missing, n - from}), missing), text \o rest)

\* What is trimmed at the front is gone by moving the rest, then the end is cut.
Kept(s, from, len) ==
  ChangeSize([s EXCEPT !.cells = Put(@, Skip(s), SubSeq(Body(s), from + 1, from + len))],
             len, s.length - len, 0, FALSE)
TrimEnds(from, to) ==
  IF from < str.length THEN Kept(str, from, to - from) ELSE ChangeSize(str, 0, str.length, 0, FALSE)

RECURSIVE Leading(_, _), Ending(_, _)
Leading(units, what) ==
  IF Len(what) <= Len(units) /\ SubSeq(units, 1, Len(what)) = what
  THEN Len(what) + Leading(SubSeq(units, Len(what) + 1, Len(units)), what) ELSE 0
Ending(units, what) == Leading(Reverse(units), Reverse(what))
Trim ==
  \E what \in Strings \ {<<>>} :
    LET from == Leading(Contents(str), what)
        rest == SubSeq(Contents(str), from + 1, str.length)
        end == IF Len(what) < Len(rest) THEN Ending(rest, what) ELSE 0
        t == SubSeq(text, Leading(text, what) + 1, Len(text))
    IN Did(TrimEnds(from, str.length - end), SubSeq(t, 1, Len(t) - Ending(t, what)))

TrimWhitespace ==
  LET inner == {i \in 1..str.length : Contents(str)[i] \notin White}
      dark == {i \in DOMAIN text : text[i] \notin White}
      from == IF inner = {} THEN str.length ELSE Min(inner) - 1
      to == IF inner = {} THEN str.length ELSE Max(inner)
  IN Did(TrimEnds(from, to),
         IF dark = {} THEN <<>> ELSE SubSeq(text, Min(dark), Max(dark)))
----------------------------------------------------------------------------
\* A character: one unit, or a pair.
CharAt(units, i) ==
  IF i < Len(units) /\ units[i] \in Leads /\ units[i + 1] \in Trails
  THEN SubSeq(units, i, i + 1) ELSE <<units[i]>>
Mapped(map, c) == IF c \in DOMAIN map THEN map[c] ELSE c
StillCased(c, cased) == IF c \in Ignorable THEN cased ELSE c \in Cased
\* Lower, upper or capital letters: those begin words.
MapFor(case, cased) ==
  CASE case = "lower" -> Lower [] case = "upper" -> Upper
    [] case = "capital" -> IF cased THEN Lower ELSE Title

RECURSIVE Recased(_, _, _)
Recased(units, case, cased) ==
  IF units = <<>> THEN <<>>
  ELSE LET c == CharAt(units, 1) IN
       Mapped(MapFor(case, cased), c)
       \o Recased(SubSeq(units, Len(c) + 1, Len(units)), case, StillCased(c, cased))

\* A byte string's ASCII is changed in place, up to what is none; the rest of
\* it as UniChars, with what is longer or shorter than the character it is for
\* inserted and deleted.
RECURSIVE MapBytes(_, _, _, _)
MapBytes(s, i, case, cased) ==
  IF i = s.length \/ Body(s)[i + 1] \notin Ascii THEN <<s, i, cased>>
  ELSE LET c == <<Body(s)[i + 1]>> IN
       MapBytes(Write(s, i, Mapped(MapFor(case, cased), c)), i + 1, case, StillCased(c, cased))
SizedAs(s, i, from, to) ==
  IF from = to THEN s
  ELSE ChangeSize(s, IF to = 0 THEN i ELSE i + 1, IF to = 0 THEN from ELSE IF to < from THEN 1 ELSE 0,
                  IF to > from THEN to - from ELSE 0, TRUE)
RECURSIVE MapUnits(_, _, _, _)
MapUnits(s, i, case, cased) ==
  IF i >= s.length THEN s
  ELSE LET c == CharAt(Contents(s), i + 1)
           to == Mapped(MapFor(case, cased), c)
       IN MapUnits(Write(SizedAs(s, i, Len(c), Len(to)), i, to), i + Max({Len(to), 1}),
                   case, StillCased(c, cased))
ChangeCase ==
  \E case \in {"lower", "upper", "capital"}, language \in BOOLEAN :
    LET Rest(start) ==
          IF start[2] = str.length THEN start[1]
          ELSE MapUnits(IF str.unicode THEN start[1] ELSE ChangeSize(start[1], 0, 0, 0, TRUE),
                        start[2], case, start[3])
    IN Did(Rest(IF ~language /\ ~str.unicode THEN MapBytes(str, 0, case, FALSE) ELSE <<str, 0, FALSE>>),
           Recased(text, case, FALSE))
----------------------------------------------------------------------------
\* A copy or a substring stays what it was, whatever becomes of the string.
Copy ==
  /\ calls' = calls + 1 /\ UNCHANGED <<str, text>>
  /\ \/ copy' = <<CreateCopy(str), text>>
     \/ \E r \in Places : copy' = <<Substring(str, r[1], r[2]), SubSeq(text, r[1] + 1, r[1] + r[2])>>

Next ==
  /\ calls < MaxCalls
  /\ \/ ReplaceRange \/ InsertItself \/ Delete \/ AppendCharacters \/ AppendBytes \/ MutableCopy
     \/ SetExternal \/ FindAndReplace \/ Pad \/ Trim \/ TrimWhitespace \/ ChangeCase \/ Copy
Spec == Init /\ [][Next]_<<str, text, copy, calls>>
----------------------------------------------------------------------------
TypeOK ==
  /\ str.unicode \in BOOLEAN /\ str.pascal \in BOOLEAN /\ str.length \in Nat
  /\ text \in Seq(Int) /\ calls \in 0..MaxCalls

\* Whatever the calls, the buffer has the text they are to leave (CFString.c).
TextIsWhatTheCallsSay == Contents(str) = text /\ UnitsOf(copy[1]) = copy[2]

\* The buffer is as long as the string says; bytes have a length byte that is
\* right, or 0, and a null byte behind them; nothing is written beyond it; the
\* buffer of a client is never freed for it, and no buffer is lost but those
\* that replace one the string does not free (CFString.c:799-912).
StorageIsSound ==
  /\ Len(str.cells) = str.capacity \div CharSize(str) /\ ~str.overrun
  /\ str.length <= Len(Body(str))
  /\ ~str.unicode /\ str.length > 0 => str.pascal
  /\ str.pascal => /\ ~str.unicode /\ Body(str)[str.length + 1] = NullByte
                   /\ str.cells[1] = IF str.length <= MaxPascal THEN str.length ELSE 0
  /\ ~str.unicode => IsEightBit(Contents(str))
  /\ str.external => str.unicode
  /\ str.lost => str.external /\ ~str.frees

\* Strings are equal, and have one hash, however each is stored, if and only if
\* they have the same units (CFString.c:955-999, 1036-1178).
HashesAgree ==
  /\ Equal(copy[1], str) <=> copy[2] = text
  /\ HashCharacters(Contents(str), str.length) = HashNSString(text)
  /\ HashCharacters(UnitsOf(copy[1]), LengthOf(copy[1])) = HashNSString(copy[2])
============================================================================
