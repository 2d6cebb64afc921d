-------------------------- MODULE StringMatching ---------------------------
(* Comparing strings and finding one in another (CFString.c), with options:  *)
(* "case", "nonliteral", "diacritics", "width", "numbers", "forced",         *)
(* "alphanumeric" (the rest is ignored), "backwards" and "anchored".  A      *)
(* string is <<units, bytes>>: whether its units are stored as bytes, which  *)
(* are compared as they are as long as they tell.  Locales are not modelled. *)
EXTENDS Integers, Sequences, SequencesExt, FiniteSetsExt

CONSTANTS
  Decomposition,     \* what a character is decomposed to, by one step
  Compatibility,     \* what a compatibility character stands for
  Folding,           \* what case folding makes of characters, those it changes
  Marks,             \* the characters that extend the one before
  Classes,           \* the combining classes of those that have one
  WidthForms,        \* characters of another width
  Alphanumeric,      \* letters, digits and marks
  EightBitIsAscii,   \* whether the encoding of byte strings is ASCII
  Texts,             \* the units of the strings there are
  Places,            \* and of those that others are looked for in
  Comparing, Finding \* the options that are asked for

VARIABLES asked, answer

----------------------------------------------------------------------------
(* What the code knows of characters (CFUniChar.c,                           *)
(* CFUnicodeDecomposition.c): surrogate pairs, decompositions, and the order *)
(* of combining marks.  A text is read from 0; past either end there is 0.   *)

At(s, i) == IF i \in 0 .. Len(s) - 1 THEN s[i + 1] ELSE 0
IsHigh(u) == u \in 55296..56319
IsLow(u) == u \in 56320..57343
Pair(high, low) == (high - 55296) * 1024 + (low - 56320) + 65536
Width(c) == IF c > 65535 THEN 2 ELSE 1
\* The character whose first unit is at i, and that of unit u of it.
WithNext(u, s, i) == IF IsHigh(u) /\ IsLow(At(s, i + 1)) THEN Pair(u, At(s, i + 1)) ELSE u
LongAt(s, i) == WithNext(At(s, i), s, i)
Units(c) == IF c > 65535 THEN <<55296 + (c - 65536) \div 1024, 56320 + (c % 1024)>> ELSE <<c>>
UnitsOfAll(chars) == FlattenSeq([i \in DOMAIN chars |-> Units(chars[i])])

Class(c) == IF c \in DOMAIN Classes THEN Classes[c] ELSE 0
\* Hangul syllables are decomposed by arithmetic (and one past the last is).
HangulBase == 44032
HangulCount == 11172
IsDecomposable(c) == c \in DOMAIN Decomposition \/ c \in HangulBase .. HangulBase + HangulCount - 1

RECURSIVE Decomposed(_)
Decomposed(c) ==
  IF c \in HangulBase .. HangulBase + HangulCount
  THEN LET n == c - HangulBase
           last == IF n % 28 = 0 THEN <<>> ELSE <<(n % 28) + 4519>>
       IN <<(n \div 588) + 4352, ((n % 588) \div 28) + 4449>> \o last
  ELSE IF c \in DOMAIN Decomposition
  THEN Decomposed(Decomposition[c][1]) \o Tail(Decomposition[c])
  ELSE <<c>>

\* Sorts by class what follows the leading characters without one, keeping the
\* order within a class.
InsertedByClass(sorted, c) ==
  LET n == Len(SelectSeq(sorted, LAMBDA x : Class(x) <= Class(c))) IN
  SubSeq(sorted, 1, n) \o <<c>> \o SubSeq(sorted, n + 1, Len(sorted))
PrioritySort(chars) ==
  LET marked == {i \in DOMAIN chars : Class(chars[i]) > 0}
      first == IF marked = {} THEN Len(chars) + 1 ELSE Min(marked)
  IN SubSeq(chars, 1, first - 1) \o FoldLeft(InsertedByClass, <<>>, SubSeq(chars, first, Len(chars)))

----------------------------------------------------------------------------
Sign(n) == IF n > 0 THEN 1 ELSE IF n < 0 THEN -1 ELSE 0
Roman(c) == c < 1296
IsCapital(c) == c \in 65..90
IsDigit(c) == c \in 48..57
AsciiLower(c) == IF IsCapital(c) THEN c + 32 ELSE c
CanBeBytes(s) == \A i \in DOMAIN s : s[i] < IF EightBitIsAscii THEN 128 ELSE 256
Ignores(c, o) == "alphanumeric" \in o /\ c \notin Alphanumeric
----------------------------------------------------------------------------
\* The marks from `at` on, taken into `out` or left out, and where they end.
RECURSIVE Collected(_, _, _, _)
Collected(s, at, out, fill) ==
  LET c == LongAt(s, at) IN
  IF c \notin Marks THEN <<out, at>>
  ELSE Collected(s, at + Width(c), IF fill THEN out \o Decomposed(c) ELSE out, fill)

\* A character taken apart as the options want it, what is left of it to fold
\* and what it becomes, or nothing; then with its case folded.
TakenApart(whole, parts, narrowed, o) ==
  IF ~("nonliteral" \in o \/ "diacritics" \in o) \/ ~IsDecomposable(whole)
  THEN [last |-> whole, out |-> narrowed]
  ELSE [last |-> IF "nonliteral" \in o \/ Roman(parts[1]) THEN parts[1] ELSE whole,
        out |-> IF "diacritics" \in o /\ Roman(parts[1]) THEN <<parts[1]>>
                ELSE IF "nonliteral" \in o THEN parts ELSE <<>>]
CaseFolded(c, t, o) ==
  IF "case" \in o /\ t.last \in DOMAIN Folding /\ (c >= 128 \/ IsCapital(c))
  THEN [last |-> Last(Folding[t.last]),
        out |-> SelectSeq(Folding[t.last],
                          LAMBDA x : ~("diacritics" \in o /\ Roman(t.last)) \/ x \notin Marks)
                \o (IF t.out = <<>> THEN <<>> ELSE Tail(t.out))]
  ELSE t
\* With the marks behind it, from `next` on, and those in order.
WithMarks(f, s, next, mark, loose) ==
  LET fill == ~(loose /\ Roman(f.last)) IN
  IF f.out # <<>> THEN Collected(s, next, f.out, fill)
  ELSE IF mark \notin Marks THEN <<<<>>, next>>
  ELSE Collected(s, next + Width(mark),
                 <<f.last>> \o (IF ~fill \/ (loose /\ Roman(mark)) THEN <<>> ELSE Decomposed(mark)), fill)
InPriority(out) ==
  LET n == Max({k \in DOMAIN out : out[k] \notin Marks} \cup {1}) IN
  IF out = <<>> THEN out ELSE SubSeq(out, 1, n - 1) \o PrioritySort(SubSeq(out, n, Len(out)))

\* A character and the marks behind it, as the options want them: what differs
\* from the character alone, or nothing; how many units that stands for; and
\* what is left as the first of the buffer, which is `old` so far.
Buffered(out, used, head) ==
  [out |-> out, used |-> used, head |-> IF out # <<>> THEN out[1] ELSE head]
FoldWith(f, s, i, next, o, old) ==
  IF ~("nonliteral" \in o \/ "diacritics" \in o) THEN Buffered(f.out, next - i, old)
  ELSE LET all == WithMarks(f, s, next, LongAt(s, next), "diacritics" \in o)
       IN Buffered(InPriority(all[1]), all[2] - i, f.last)
FoldWhole(c, whole, wide, s, i, o, old) ==
  FoldWith(CaseFolded(c, TakenApart(whole, Decomposed(whole), IF wide THEN <<whole>> ELSE <<>>, o), o),
           s, i, i + (IF wide THEN 1 ELSE Width(whole)), o, old)
Fold(c, s, i, o, old) ==
  LET wide == "width" \in o /\ c \in WidthForms IN
  IF c = 0 THEN [out |-> <<>>, used |-> 0, head |-> old]
  ELSE FoldWhole(c, IF wide THEN Compatibility[c][1] ELSE WithNext(c, s, i), wide, s, i, o, old)
----------------------------------------------------------------------------
\* A cursor in a string: the place, the characters the cluster there is folded
\* to, how many of them are read, and how many units they stand for.
Cursor(at) == [at |-> at, buf |-> <<>>, k |-> 0, used |-> 1]
Here(s, c, lower) ==
  IF c.buf # <<>> THEN c.buf[c.k + 1] ELSE IF lower THEN AsciiLower(At(s, c.at)) ELSE At(s, c.at)
Taken(c) == IF c.buf = <<>> THEN [c EXCEPT !.used = 1] ELSE [c EXCEPT !.k = @ + 1]
PutBack(c) == IF c.buf = <<>> THEN c ELSE [c EXCEPT !.k = @ - 1]
Passed(c) ==
  IF c.k = Len(c.buf) THEN [c EXCEPT !.at = @ + c.used, !.buf = <<>>, !.k = 0] ELSE c
Filled(c, f) ==
  IF c.buf # <<>> \/ f.out = <<>> THEN c ELSE [c EXCEPT !.buf = f.out, !.k = 1, !.used = f.used]
Folded(c, x, s, o) == Filled(c, Fold(x, s, c.at, o, 0))

\* What becomes of two cursors at characters that differ: both go on, one of
\* them is passed over, or the difference stands.
GoOn(a, b, missed) == [how |-> "on", a |-> a, b |-> b, sign |-> 0, missed |-> missed]
Differ(a, b, n) == [how |-> "differ", a |-> a, b |-> b, sign |-> Sign(n), missed |-> FALSE]
First(c, f, x) == IF c.buf = <<>> /\ f.buf # <<>> THEN f.buf[1] ELSE x

\* Of two clusters, as far as both are folded.  One that is folded only now
\* isn't compared with what is left of the other: `missed` tells.
MeetFolded(a, x, before, y1, b, y) ==
  LET shared == Min({Len(a.buf) - a.k, Len(b.buf) - b.k})
      unlike == {k \in 1..shared : a.buf[a.k + k] # b.buf[b.k + k]}
      same == IF unlike = {} THEN shared ELSE Min(unlike) - 1
  IN IF a.buf = <<>> /\ before.buf # <<>> THEN Differ(a, b, x - y1)
     ELSE IF before.buf = <<>> /\ (a.buf = <<>> \/ x # y1) /\ (b.buf = <<>> \/ x # y)
     THEN Differ(a, b, x - y)
     ELSE IF a.buf # <<>> /\ b.buf # <<>> /\ unlike # {}
     THEN Differ(a, b, a.buf[a.k + same + 1] - b.buf[b.k + same + 1])
     ELSE GoOn(Passed(IF b.buf = <<>> THEN a ELSE [a EXCEPT !.k = @ + same]),
               Passed(IF a.buf = <<>> THEN b ELSE [b EXCEPT !.k = @ + same]),
               before.buf # <<>> /\ x # y1)
\* The second is folded only if the first doesn't do.
MeetSecond(a, x, t, b, y, o) ==
  IF b.buf = <<>> /\ (a.buf = <<>> \/ x # y)
  THEN LET Meet(f) == MeetFolded(a, x, b, y, f, First(b, f, y)) IN Meet(Folded(b, y, t, o))
  ELSE MeetFolded(a, x, b, y, b, y)
MeetFirst(a, f, x, t, b, y, o) == MeetSecond(f, First(a, f, x), t, b, y, o)
MeetAlone(s, a, x, t, b, y, o) ==
  IF x = y THEN GoOn(Passed(a), Passed(b), FALSE) ELSE MeetFirst(a, Folded(a, x, s, o), x, t, b, y, o)
\* A mark on one side only is passed over there, if marks are.
MeetTaken(s, a, x, t, b, y, o, skipsFirst, skipsMarks) ==
  LET markA == skipsMarks /\ a.buf = <<>> /\ x \in Marks
      markB == skipsMarks /\ b.buf = <<>> /\ y \in Marks
      x1 == IF markA THEN y ELSE x
  IN IF skipsFirst /\ Ignores(x, o) THEN GoOn(Passed(a), PutBack(b), FALSE)
     ELSE IF Ignores(y, o) THEN GoOn(PutBack(a), Passed(b), FALSE)
     ELSE MeetAlone(s, IF markB /\ ~markA THEN [a EXCEPT !.at = @ - a.used] ELSE a, x1,
                    t, IF markA /\ ~markB THEN [b EXCEPT !.at = @ - b.used] ELSE b,
                    IF markB THEN x1 ELSE y, o)
TakenAs(c, x, whole) == IF x = whole THEN Taken(c) ELSE [Taken(c) EXCEPT !.used = 2]
Meeting(s, a, x0, t, b, y0, o, skipsFirst, skipsMarks) ==
  LET x == WithNext(x0, s, a.at)
      y == WithNext(y0, t, b.at)
  IN MeetTaken(s, TakenAs(a, x0, x), x, t, TakenAs(b, y0, y), y, o, skipsFirst, skipsMarks)
----------------------------------------------------------------------------
\* What is left at the end, beside marks and what is ignored.
RECURSIVE EndOf(_, _, _)
EndOf(s, at, o) ==
  LET c == LongAt(s, at)
      ignores == "alphanumeric" \in o
  IN IF at >= Len(s) \/ ("diacritics" \notin o /\ ~ignores) THEN at
     ELSE IF At(s, at) < 128 /\ ~ignores THEN at
     ELSE IF ("diacritics" \in o /\ c \in Marks) \/ Ignores(c, o) THEN EndOf(s, at + Width(c), o)
     ELSE at

RECURSIVE NumberAt(_, _, _)
NumberAt(s, at, n) ==
  IF IsDigit(At(s, at)) THEN NumberAt(s, at + 1, 10 * n + At(s, at) - 48) ELSE <<n, at>>

\* The two strings from the cursors on; `result` is that of a first difference
\* that only forced ordering counts.
RECURSIVE CompareFrom(_, _, _, _, _, _, _)
CompareOn(s, t, o, result, missed, met) ==
  IF met.how = "differ" THEN <<met.sign, missed>>
  ELSE CompareFrom(s, met.a, t, met.b, o, result, missed \/ met.missed)
CompareFrom(s, a, t, b, o, result, missed) ==
  LET lower == "case" \in o /\ ("forced" \notin o \/ result # 0)
      x == Here(s, a, lower)
      y == Here(t, b, lower)
      n == NumberAt(s, a.at, 0)
      m == NumberAt(t, b.at, 0)
      forced == IF "forced" \in o /\ result = 0 THEN Sign(x - y) ELSE result
      endA == EndOf(s, a.at, o)
      endB == EndOf(t, b.at, o)
  IN IF a.at >= Len(s) \/ b.at >= Len(t)
     THEN <<IF endA < Len(s) THEN 1 ELSE IF endB < Len(t) THEN -1 ELSE result, missed>>
     ELSE IF "numbers" \in o /\ a.buf = <<>> /\ b.buf = <<>> /\ IsDigit(x) /\ IsDigit(y)
     THEN IF n[1] # m[1] THEN <<Sign(n[1] - m[1]), missed>>
          ELSE CompareFrom(s, Cursor(n[2]), t, Cursor(m[2]), o,
                           IF "forced" \in o /\ result = 0
                           THEN Sign((n[2] - a.at) - (m[2] - b.at)) ELSE result, missed)
     ELSE IF x = y
     THEN CompareFrom(s, Passed(Taken(a)), t, Passed(Taken(b)), o, result, missed)
     ELSE IF o \cap {"case", "nonliteral", "diacritics", "width", "alphanumeric"} = {}
     THEN <<Sign(x - y), missed>>
     ELSE IF x < 128 /\ y < 128 /\ o \cap {"case", "alphanumeric"} = {}
     THEN <<Sign(x - y), missed>>
     ELSE CompareOn(s, t, o, forced, missed,
                    Meeting(s, a, x, t, b, y, o, TRUE, "diacritics" \in o /\ a.at > 0))

\* What is stored as bytes is compared as bytes, up to one that is not ASCII.
RECURSIVE ComparePrefix(_, _, _, _, _)
ComparePrefix(s, t, i, o, result) ==
  LET x == s[i + 1]
      y == t[i + 1]
      Lower(u) == IF "case" \in o THEN AsciiLower(u) ELSE u
  IN IF i = Min({Len(s), Len(t)})
     THEN [ends |-> TRUE, sign |-> IF Len(s) = Len(t) THEN result ELSE Sign(Len(s) - Len(t))]
     ELSE IF x = y THEN ComparePrefix(s, t, i + 1, o, result)
     ELSE IF x >= 128 \/ y >= 128 THEN [ends |-> FALSE, at |-> i, sign |-> result]
     ELSE IF Lower(x) # Lower(y) THEN [ends |-> TRUE, sign |-> Sign(Lower(x) - Lower(y))]
     ELSE ComparePrefix(s, t, i + 1, o,
                        IF "forced" \in o /\ result = 0 THEN Sign(x - y) ELSE result)

\* CFStringCompareWithOptions, and whether a difference was missed.
Compare(s, t, o) ==
  LET bytes == s[2] /\ t[2]
      binary == o \cap {"alphanumeric", "numbers"} = {}
      opts == IF bytes /\ binary THEN o \ {"nonliteral"} ELSE o
      p == ComparePrefix(s[1], t[1], 0,
                         CASE ~bytes -> {}
                           [] bytes /\ EightBitIsAscii /\ "forced" \notin o -> o \cap {"case"}
                           [] OTHER -> o \cap {"case", "diacritics", "forced"}, 0)
      raw == LET n == Min({Len(s[1]), Len(t[1])})
                 unlike == {i \in 1..n : s[1][i] # t[1][i]}
             IN IF unlike = {} THEN Sign(Len(s[1]) - Len(t[1]))
                ELSE Sign(s[1][Min(unlike)] - t[1][Min(unlike)])
      folds == "case" \in o \/ ("diacritics" \in o /\ ~(EightBitIsAscii /\ "forced" \notin o))
  IN IF binary /\ bytes
     THEN IF ~folds THEN <<raw, FALSE>>
          ELSE IF p.ends THEN <<p.sign, FALSE>>
          ELSE CompareFrom(s[1], Cursor(p.at), t[1], Cursor(p.at), opts, p.sign, FALSE)
     ELSE IF binary /\ ~s[2] /\ ~t[2] /\ o \ {"forced"} = {} THEN <<raw, FALSE>>
     ELSE CompareFrom(s[1], Cursor(0), t[1], Cursor(0), opts, 0, FALSE)
----------------------------------------------------------------------------
\* Past what is ignored, from `at` up to `limit`.
RECURSIVE PastIgnored(_, _, _, _)
PastIgnored(s, at, limit, o) ==
  IF at < limit /\ Ignores(LongAt(s, at), o)
  THEN PastIgnored(s, at + Width(LongAt(s, at)), limit, o) ELSE at

\* A byte where strings of bytes differ: what it is folded to, and the first of
\* the buffer, of which the rest is what was there before.
ByteFold(s, i, o, old) ==
  LET u == At(s, i)
      c == IF "case" \in o THEN AsciiLower(u) ELSE u
      Headed(out) == [out |-> out, head |-> out[1]]
      OrItself(out) == Headed(IF out = <<>> THEN <<u>> ELSE out)
  IN IF u < 128 THEN Headed(<<c>>) ELSE OrItself(Fold(u, s, i, o, old).out)

\* The rest of one that is folded to more is looked for behind the other, by
\* what is folded to nothing and a buffer that has still what it had.  In the
\* second string that is at the place of the first, if `place` is not -1.
RECURSIVE RestFollows(_, _, _, _, _, _)
RestFollows(rest, s, at, place, o, head) ==
  LET Follows(f) == IF f.out # <<>> \/ rest[1] # f.head THEN <<FALSE, at>>
                    ELSE RestFollows(Tail(rest), s, at + 1, place, o, f.head)
  IN IF rest = <<>> THEN <<TRUE, at>>
     ELSE Follows(Fold(At(s, (IF place = -1 THEN at ELSE place) + 1), s, at + 1, o, head))

\* Where strings of bytes that are alike from `from` on end, or where they
\* differ; `guessed` tells whether the rest of a longer folding was looked for.
RECURSIVE AlikeBytes(_, _, _, _, _, _, _, _)
AlikeRest(s, i, t, j, from, limit, o, inFirst, rest) ==
  IF ~rest[1] THEN <<i, j, TRUE>>
  ELSE AlikeBytes(s, (IF inFirst THEN rest[2] ELSE i) + 1,
                  t, (IF inFirst THEN j ELSE rest[2]) + 1, from, limit, o, TRUE)
AlikeFolded(s, i, f, t, j, g, from, limit, o, guessed) ==
  LET n == Len(f.out)
      m == Len(g.out)
      k == Min({n, m})
  IN IF SubSeq(f.out, 1, k) # SubSeq(g.out, 1, k) THEN <<i, j, guessed>>
     ELSE IF n = m THEN AlikeBytes(s, i + 1, t, j + 1, from, limit, o, guessed)
     ELSE IF "case" \notin o THEN <<i, j, guessed>>
     ELSE AlikeRest(s, i, t, j, from, limit, o, n < m,
            IF n < m
            THEN IF i + m > limit THEN <<FALSE, i>>
                 ELSE RestFollows(SubSeq(g.out, n + 1, m), s, i, -1, o, f.head)
            ELSE IF j + n > Len(t) THEN <<FALSE, j>>
                 ELSE RestFollows(SubSeq(f.out, m + 1, n), t, j, i, o, g.head))
AlikeBytes(s, i, t, j, from, limit, o, guessed) ==
  LET anchored == "anchored" \in o /\ "backwards" \notin o IN
  IF i >= limit \/ j >= Len(t) THEN <<i, j, guessed>>
  ELSE IF s[i + 1] = t[j + 1] THEN AlikeBytes(s, i + 1, t, j + 1, from, limit, o, guessed)
  ELSE IF o \cap {"case", "nonliteral", "diacritics", "width", "alphanumeric"} = {}
  THEN <<i, j, guessed>>
  ELSE IF (anchored \/ i # from) /\ Ignores(s[i + 1], o)
  THEN AlikeBytes(s, i + 1, t, j, from, limit, o, guessed)
  ELSE IF Ignores(t[j + 1], o) THEN AlikeBytes(s, i, t, j + 1, from, limit, o, guessed)
  ELSE AlikeFolded(s, i, ByteFold(s, i, o, 0), t, j, ByteFold(t, j, o, 0), from, limit, o, guessed)

\* The same, of strings not both of which are bytes: the cursors at the end.
RECURSIVE Alike(_, _, _, _, _, _, _, _)
AlikeOn(s, t, from, limit, o, missed, met) ==
  IF met.how = "differ" THEN <<met.a, met.b, missed>>
  ELSE Alike(s, met.a, t, met.b, from, limit, o, missed \/ met.missed)
Alike(s, a, t, b, from, limit, o, missed) ==
  LET lower == "case" \in o
      x == Here(s, a, lower)
      y == Here(t, b, lower)
      anchored == "anchored" \in o /\ "backwards" \notin o
  IN IF b.at >= Len(t) THEN <<a, b, missed>>
     ELSE IF x = y THEN Alike(s, Passed(Taken(a)), t, Passed(Taken(b)), from, limit, o, missed)
     ELSE IF x < 128 /\ y < 128 /\ "alphanumeric" \notin o THEN <<a, b, missed>>
     ELSE AlikeOn(s, t, from, limit, o, missed,
                  Meeting(s, a, x, t, b, y, o, (anchored \/ a.at # from) /\ a.at < limit,
                          "diacritics" \in o /\ a.at > from))

\* Where a match that `t` is at the end of ends: marks behind it are part of it
\* if marks don't count, and spoil it if they do.  (Viramas, joiners and Hangul,
\* whose clusters are looked for, are not among the characters.)
RECURSIVE PastMarks(_, _, _)
PastMarks(s, at, limit) == IF at < limit /\ At(s, at) \in Marks THEN PastMarks(s, at + 1, limit) ELSE at
MatchEnd(s, a, start, limit, o) ==
  LET loose == "diacritics" \in o
      rest == SubSeq(a.buf, a.k + 1, Len(a.buf))
      whole == a.buf = <<>> \/ (loose /\ Roman(a.buf[1]) /\ \A i \in DOMAIN rest : rest[i] \in Marks)
      at == IF a.buf = <<>> THEN a.at ELSE a.at + a.used
      c == LongAt(s, at)
  IN IF ~whole THEN -1
     ELSE IF o \cap {"diacritics", "nonliteral"} = {} \/ at >= limit \/ c \notin Marks THEN at
     ELSE IF ~loose THEN -1
     ELSE IF c < 65536 /\ Roman(At(s, start)) THEN PastMarks(s, at + 1, limit)
     ELSE at

\* The attempt at `from`: the end of the match, -1 if there is none, -2 if
\* there is to be no other attempt; and whether it was by guess.
Complete(units, i, t, j, limit, o) == (IF i = limit THEN PastIgnored(t, j, Len(t), o) ELSE j) = Len(t)
Anchored(units, end, guessed, limit, o) ==
  LET last == PastIgnored(units, end, limit, o) IN
  IF end = -1 THEN <<-1, guessed>>
  ELSE IF ~({"anchored", "backwards"} \subseteq o) THEN <<end, guessed>>
  ELSE IF last # limit THEN <<-2, guessed>>
  ELSE <<last, guessed>>
MatchOfBytes(units, t, limit, o, p) ==
  IF Complete(units, p[1], t, p[2], limit, o) THEN Anchored(units, p[1], p[3], limit, o)
  ELSE <<-1, p[3]>>
MatchOfUnits(units, t, start, limit, o, q) ==
  IF Complete(units, q[1].at, t, q[2].at, limit, o)
  THEN Anchored(units, MatchEnd(units, q[1], start, limit, o), q[3], limit, o)
  ELSE <<-1, q[3]>>
Attempt(s, t, start, from, limit, o) ==
  LET units == SubSeq(s[1], 1, limit)
      options == {"case", "nonliteral", "diacritics", "alphanumeric", "width"}
  IN IF s[2] /\ t[2]
     THEN MatchOfBytes(units, t[1], limit, o, AlikeBytes(units, from, t[1], 0, from, limit, o, FALSE))
     ELSE IF o \cap options = {}
     THEN <<IF SubSeq(units, from + 1, from + Len(t[1])) = t[1] THEN from + Len(t[1]) ELSE -1, FALSE>>
     ELSE MatchOfUnits(units, t[1], start, limit, o,
                       Alike(units, Cursor(from), t[1], Cursor(0), from, limit, o, FALSE))

RECURSIVE Search(_, _, _, _, _, _, _)
SearchOn(s, t, start, from, to, limit, o, try) ==
  LET Guessed(next) == [next EXCEPT ![3] = @ \/ try[2]] IN
  IF try[1] >= 0 THEN <<from, try[1] - from, try[2]>>
  ELSE IF try[1] = -2 \/ from = to THEN <<-1, 0, try[2]>>
  ELSE Guessed(Search(s, t, start, IF from < to THEN from + 1 ELSE from - 1, to, limit, o))
Search(s, t, start, from, to, limit, o) ==
  SearchOn(s, t, start, from, to, limit, o, Attempt(s, t, start, from, limit, o))

\* CFStringFindWithOptions: the range found, with -1 for none.
Find(s, t, loc, len, o) ==
  LET variants == o \cap {"case", "nonliteral", "diacritics", "alphanumeric"} # {}
      n == Len(t[1])
      last == loc + len - (IF variants THEN 1 ELSE n)
      anchored == "anchored" \in o
  IN IF n = 0 \/ len = 0 \/ (n > len /\ ~variants) THEN <<-1, 0, FALSE>>
     ELSE LET backwards == "backwards" \in o
              from == IF backwards THEN last ELSE loc
              to == IF backwards THEN IF anchored /\ ~variants THEN last ELSE loc
                    ELSE IF anchored THEN loc ELSE last
          IN Search(s, t, loc, from, to, loc + len, o)

\* CFStringCreateArrayWithFindResults, of what is no empty match.
RECURSIVE FindAll(_, _, _, _, _)
FindBeside(s, t, loc, len, o, f) ==
  LET end == f[1] + f[2] IN
  IF f[1] = -1 THEN <<>>
  ELSE <<<<f[1], f[2]>> >> \o (IF "backwards" \in o THEN FindAll(s, t, loc, f[1] - loc, o)
                               ELSE FindAll(s, t, end, loc + len - end, o))
FindAll(s, t, loc, len, o) ==
  IF len = 0 THEN <<>> ELSE FindBeside(s, t, loc, len, o, Find(s, t, loc, len, o))
----------------------------------------------------------------------------
\* CFStringFindCharacterFromSet: a surrogate is looked at with its neighbour, and
\* both are passed over.
RECURSIVE FindMember(_, _, _, _, _)
FindMember(s, set, at, to, step) ==
  LET u == At(s, at)
      other == at + step
      low == IF step > 0 THEN other ELSE at
      c == Pair(At(s, low - 1), At(s, low))
      past == IF step > 0 THEN other > to ELSE other < to
  IN IF IsHigh(u) \/ IsLow(u)
     THEN IF past THEN <<-1, 0>>
          ELSE IF IsHigh(At(s, low - 1)) /\ IsLow(At(s, low)) /\ c \in set THEN <<low - 1, 2>>
          ELSE IF other = to THEN <<-1, 0>>
          ELSE FindMember(s, set, other + step, to, step)
     ELSE IF u \in set THEN <<at, 1>>
     ELSE IF at = to THEN <<-1, 0>>
     ELSE FindMember(s, set, other, to, step)
FindCharacter(s, set, loc, len, o) ==
  LET last == loc + len - 1 IN
  IF len = 0 THEN <<-1, 0>>
  ELSE IF "backwards" \in o
  THEN FindMember(s, set, last, IF "anchored" \in o THEN last ELSE loc, IF last <= loc \/ "anchored" \in o THEN 1 ELSE -1)
  ELSE FindMember(s, set, loc, IF "anchored" \in o THEN loc ELSE last, 1)

\* CFStringGetLineBounds and CFStringGetParagraphBounds: where the lines of a
\* range begin, end, and end without their separator.
Return == 13
NewLine == 10
EndsLine(u, lines) == u \in {NewLine, Return, 8233} \/ (lines /\ u \in {133, 8232})
LineBounds(s, loc, len, lines) ==
  LET split == At(s, loc) = NewLine /\ At(s, loc - 1) = Return
      before == {i \in 0 .. loc - (IF split THEN 2 ELSE 1) : EndsLine(At(s, i), lines)}
      last == loc + len - (IF len = 0 THEN 0 ELSE 1)
      on == At(s, last) = NewLine
      after == {i \in last .. Len(s) : EndsLine(At(s, i), lines)}
      contents == IF on THEN IF At(s, last - 1) = Return THEN last - 1 ELSE last
                  ELSE IF after = {} THEN Len(s) ELSE Min(after)
      size == IF ~on /\ after = {} THEN 0
              ELSE IF At(s, contents) = Return /\ At(s, contents + 1) = NewLine THEN 2 ELSE 1
  IN <<IF loc = 0 \/ before = {} THEN 0 ELSE Max(before) + 1, contents + size, contents>>

\* CFStringCreateArrayBySeparatingStrings, and CFStringCreateByCombiningStrings:
\* what is joined of bytes ends at a null byte.
Pieces(s, ranges) ==
  LET From(i) == IF i = 1 THEN 0 ELSE ranges[i - 1][1] + ranges[i - 1][2]
      To(i) == IF i > Len(ranges) THEN Len(s) ELSE ranges[i][1]
  IN [i \in 1 .. Len(ranges) + 1 |-> SubSeq(s, From(i) + 1, To(i))]
Separated(s, t) == Pieces(s[1], FindAll(s, t, 0, Len(s[1]), {}))
Combined(pieces, t, bytes) ==
  LET all == FlattenSeq([i \in DOMAIN pieces |-> IF i = 1 THEN pieces[1] ELSE t \o pieces[i]])
      nulls == {i \in DOMAIN all : all[i] = 0}
  IN IF Len(pieces) > 1 /\ bytes /\ nulls # {} THEN SubSeq(all, 1, Min(nulls) - 1) ELSE all
----------------------------------------------------------------------------
Stored(texts) == {<<s, bytes>> \in texts \X BOOLEAN : bytes => CanBeBytes(s)}
Ask(question, a) == asked' = <<question[1], asked[2]>> \o Tail(question) /\ answer' = a

\* Questions about one of the strings.
Init == answer = <<>> /\ \E s \in Stored(Texts \cup Places) : asked = <<"about", s>>
IsPlace == asked[1] = "about" /\ asked[2][1] \in Places
AskCompare ==
  /\ asked[1] = "about" /\ asked[2][1] \in Texts
  /\ \E t \in Stored(Texts), o \in Comparing : Ask(<<"compare", t, o>>, Compare(asked[2], t, o))
AskFind ==
  /\ IsPlace
  /\ \E t \in Stored(Texts), o \in Finding :
       LET n == Len(asked[2][1]) IN
       \E r \in {<<0, n>>, <<1, n - 1>>} :
         r[2] >= 0 /\ Ask(<<"find", t, o, r>>, Find(asked[2], t, r[1], r[2], o))
AskMember ==
  /\ IsPlace
  /\ \E c \in {Units(x) : x \in Alphanumeric}, o \in SUBSET {"backwards", "anchored"} :
       LET s == asked[2][1] IN
       Ask(<<"member", c, o>>, FindCharacter(s, {LongAt(c, 0)}, 0, Len(s), o))
AskLines ==
  /\ IsPlace
  /\ \E loc, len \in 0..4, lines \in BOOLEAN :
       /\ loc + len <= Len(asked[2][1])
       /\ Ask(<<"lines", loc, len, lines>>, LineBounds(asked[2][1], loc, len, lines))
AskSeparated ==
  /\ IsPlace
  /\ \E t \in Stored(Texts) : Ask(<<"separated", t>>, Separated(asked[2], t))

Next == AskCompare \/ AskFind \/ AskMember \/ AskLines \/ AskSeparated
Spec == Init /\ [][Next]_<<asked, answer>>
----------------------------------------------------------------------------
Asked(what) == asked[1] = what

\* What the options make of a text: its characters, one by one.
RECURSIVE Chars(_)
Chars(s) ==
  IF s = <<>> THEN <<>>
  ELSE <<LongAt(s, 0)>> \o Chars(SubSeq(s, Width(LongAt(s, 0)) + 1, Len(s)))
MappedParts(c, parts, o) ==
  LET split == IF "nonliteral" \in o \/ ("diacritics" \in o /\ Roman(parts[1])) THEN parts ELSE <<c>>
  IN FlattenSeq([i \in DOMAIN split |->
       IF "case" \in o /\ split[i] \in DOMAIN Folding THEN Folding[split[i]] ELSE <<split[i]>>])
Narrowed(c, o) ==
  IF "width" \in o /\ c \in WidthForms /\ c \in DOMAIN Compatibility THEN Compatibility[c][1] ELSE c
Mapped(c, o) == MappedParts(Narrowed(c, o), Decomposed(Narrowed(c, o)), o)
\* Marks of Roman letters, zeros before numbers and what is ignored left out,
\* and marks in order.
IsDiacritic(chars, i) ==
  LET bases == {k \in 1 .. i - 1 : chars[k] \notin Marks} IN
  chars[i] \in Marks /\ bases # {} /\ Roman(chars[Max(bases)])
IsLeadingZero(chars, i) ==
  /\ chars[i] = 48 /\ i < Len(chars) /\ IsDigit(chars[i + 1])
  /\ \A k \in 1 .. i - 1 : (\A j \in k .. i - 1 : IsDigit(chars[j])) => chars[k] = 48
InOrder(chars, c) ==
  LET before == {k \in DOMAIN chars : chars[k] \notin Marks \/ Class(chars[k]) <= Class(c)}
      n == IF c \in Marks THEN Max(before \cup {0}) ELSE Len(chars)
  IN SubSeq(chars, 1, n) \o <<c>> \o SubSeq(chars, n + 1, Len(chars))
KeyOf(all, o) ==
  LET loose == o \cap {"nonliteral", "diacritics"} # {}
      Kept(i) == /\ ~("diacritics" \in o /\ IsDiacritic(all, i))
                 /\ ~("numbers" \in o /\ IsLeadingZero(all, i))
                 /\ ~Ignores(all[i], o)
      Next1(key, i) == IF ~Kept(i) THEN key ELSE IF loose THEN InOrder(key, all[i]) ELSE Append(key, all[i])
  IN FoldLeft(Next1, <<>>, [i \in DOMAIN all |-> i])
KeyOfChars(chars, o) == KeyOf(FlattenSeq([i \in DOMAIN chars |-> Mapped(chars[i], o)]), o)
Key(s, o) == KeyOfChars(Chars(s), o)
\* Marks of letters beyond Greek and Cyrillic are dropped where they stand
\* alone, and kept where they are composed: that is no equality.
IsRegular(s, o) ==
  "diacritics" \in o => \A i \in DOMAIN s : s[i] \notin Marks \cup DOMAIN Decomposition \/ Roman(s[i])

CompareIsOfKeys ==
  Asked("compare") /\ ~answer[2] /\ IsRegular(asked[2][1], asked[4]) /\ IsRegular(asked[3][1], asked[4]) =>
    LET s == asked[2][1] t == asked[3][1] o == asked[4] IN
    IF "forced" \in o THEN answer[1] = 0 <=> s = t ELSE answer[1] = 0 <=> Key(s, o) = Key(t, o)
CompareIsAntisymmetric ==
  LET Opposite(other) == answer[2] \/ other[2] \/ other[1] = -answer[1]
  IN Asked("compare") => Opposite(Compare(asked[3], asked[2], asked[4]))
CompareIsOfUnits ==
  LET Agrees(other) == answer[2] \/ other[2] \/ (other[1] = 0 <=> answer[1] = 0)
  IN Asked("compare") =>
       Agrees(Compare(<<asked[2][1], FALSE>>, <<asked[3][1], FALSE>>, asked[4]))
ForcedRefines ==
  Asked("compare") /\ answer[1] # 0 /\ ~answer[2] =>
    Compare(asked[2], asked[3], asked[4] \cup {"forced"})[1] = answer[1]

\* Whether s from i to j is what is looked for: whole characters with the same key.
IsMatch(s, i, j, t, o) ==
  /\ Key(SubSeq(s, i + 1, j), o) = Key(t, o)
  /\ "nonliteral" \in o /\ j < Len(s) => LongAt(s, j) \notin Marks
  /\ i # j => \/ ~Ignores(LongAt(s, i), o) \/ At(s, i) = At(t, 0)
              \/ "anchored" \in o /\ "backwards" \notin o
FindIsOfKeys ==
  Asked("find") /\ ~answer[3] /\ IsRegular(asked[2][1], asked[4]) /\ IsRegular(asked[3][1], asked[4])
                /\ Key(asked[3][1], asked[4]) # <<>> =>
    LET s == asked[2][1] t == asked[3][1] o == asked[4]
        loc == asked[5][1]
        end == loc + asked[5][2]
        anchored == "anchored" \in o
        matches == {r \in (loc..end) \X (loc..end) :
                      /\ r[1] <= r[2] /\ IsMatch(SubSeq(s, 1, end), r[1], r[2], t, o)
                      /\ anchored => IF "backwards" \in o THEN r[2] = end ELSE r[1] = loc}
        starts == {r[1] : r \in matches}
    IN IF matches = {} THEN answer[1] = -1
       ELSE /\ answer[1] = IF "backwards" \in o THEN Max(starts) ELSE Min(starts)
            /\ <<answer[1], answer[1] + answer[2]>> \in matches
FindIsOfUnits ==
  LET Same(other) == answer[3] \/ other[3] \/ <<answer[1], answer[2]>> = <<other[1], other[2]>>
  IN Asked("find") =>
       Same(Find(<<asked[2][1], FALSE>>, <<asked[3][1], FALSE>>, asked[5][1], asked[5][2], asked[4]))
SeparatedIsUndone ==
  Asked("separated") /\ 0 \notin {asked[2][1][i] : i \in DOMAIN asked[2][1]} =>
    /\ Combined(answer, asked[3][1], asked[2][2] /\ asked[3][2]) = asked[2][1]
    /\ asked[3][1] # <<>> => \A i \in DOMAIN answer : Separated(<<answer[i], FALSE>>, <<asked[3][1], FALSE>>) = <<answer[i]>>
\* (A character of two units is never found at an anchor, CFString.c:4359-4364.)
MemberIsFound ==
  Asked("member") /\ ("anchored" \in asked[4] => Len(asked[3]) = 1) =>
    LET s == asked[2][1] o == asked[4]
        at == {i \in 0 .. Len(s) - Len(asked[3]) : SubSeq(s, i + 1, i + Len(asked[3])) = asked[3]}
        ends == IF "anchored" \notin o THEN at
                ELSE {i \in at : IF "backwards" \in o THEN i + Len(asked[3]) = Len(s) ELSE i = 0}
    IN IF ends = {} THEN answer[1] = -1
       ELSE answer = <<IF "backwards" \in o THEN Max(ends) ELSE Min(ends), Len(asked[3])>>
\* Lines tile the text: that of any place within a line is the same.
LinesTileTheText ==
  Asked("lines") =>
    LET s == asked[2][1] IN
    /\ answer[1] <= asked[3] /\ asked[3] + asked[4] <= answer[2] /\ answer[3] \in answer[1]..answer[2]
    /\ \A loc \in answer[1] .. answer[2] - 1 :
         asked[4] <= 1 => LineBounds(s, loc, 0, asked[5]) = answer
============================================================================
