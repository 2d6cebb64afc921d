-------------------------- MODULE AttributedString --------------------------
(* Attributed strings (CFAttributedString.c) and the run arrays that keep    *)
(* their attributes (CFRunArray.c): blocks of as many units as have one set  *)
(* of attributes, and the block that was found last, from where the next     *)
(* search begins.  A string is [text, runs]; attributes are a set of pairs   *)
(* of a name and a value.  No two run arrays share their blocks: nothing     *)
(* calls _CFRunArrayCreateWithGuts with blocks that exist.                   *)
EXTENDS Integers, FiniteSets, Sequences, SequencesExt

CONSTANTS
  Units, Names, Values,
  Dictionaries,   \* the sets of attributes that are given
  ReplacesItself, \* whether a string replaces a part of itself
  MaxLength, MaxCalls

VARIABLES
  strings, \* one that is edited, and another
  means,   \* for each, its units, each with its attributes
  calls

vars == <<strings, means, calls>>
----------------------------------------------------------------------------
NoRuns == [blocks |-> <<>>, room |-> 2, block |-> 1, at |-> 0, held |-> 0]
LengthOf(blocks) == FoldSeq(LAMBDA b, sum : b.n + sum, 0, blocks)
Block(n, d) == [n |-> n, d |-> d]

RECURSIVE Forward(_, _, _, _), Back(_, _, _, _)
Forward(blocks, b, at, loc) ==
  IF at + blocks[b].n <= loc THEN Forward(blocks, b + 1, at + blocks[b].n, loc) ELSE <<b, at>>
Back(blocks, b, at, loc) ==
  LET start == at - blocks[b - 1].n IN
  IF b > 2 /\ start > loc THEN Back(blocks, b - 1, start, loc) ELSE <<b - 1, start>>

\* The run array after a search for `loc`, whose block it remembers.
Find(runs, loc) ==
  LET Found(f) == [runs EXCEPT !.block = f[1], !.at = f[2]]
      From(b, at) == IF at <= loc THEN Forward(runs.blocks, b, at, loc) ELSE Back(runs.blocks, b, at, loc)
  IN Found(IF loc > runs.at \div 2 THEN From(runs.block, runs.at) ELSE From(1, 0))

RoomFor(room, wanted) ==
  LET n == IF wanted < 1 THEN 1 ELSE wanted IN
  IF room < n \/ room \div 2 > n THEN ((n + 3) \div 3) * 4 ELSE room

InsertFound(found, loc, n, d) ==
  LET many == Len(found.blocks)
      b == found.block
      first == loc = found.at
      before == Block(loc - found.at, found.blocks[b].d)
      after == Block(found.blocks[b].n - before.n, found.blocks[b].d)
  IN IF found.blocks[b].d = d THEN [found EXCEPT !.blocks[b].n = @ + n]
     ELSE IF b > 1 /\ first /\ found.blocks[b - 1].d = d
     THEN [found EXCEPT !.blocks[b - 1].n = @ + n, !.at = @ + n]
     ELSE IF first
     THEN [found EXCEPT !.blocks = SubSeq(@, 1, b - 1) \o <<Block(n, d)>> \o SubSeq(@, b, many),
                        !.room = RoomFor(@, many + 1), !.held = @ + 1]
     ELSE [found EXCEPT !.blocks = SubSeq(@, 1, b - 1) \o <<before, Block(n, d), after>>
                                     \o SubSeq(@, b + 1, many),
                        !.room = RoomFor(@, many + 2), !.held = @ + 2]
Insert(runs, loc, n, d) ==
  LET many == Len(runs.blocks) IN
  IF n = 0 THEN runs
  ELSE IF loc < LengthOf(runs.blocks) THEN InsertFound(Find(runs, loc), loc, n, d)
  ELSE IF many > 0 /\ runs.blocks[many].d = d
  THEN [runs EXCEPT !.blocks[many].n = @ + n, !.at = IF runs.block > many THEN @ + n ELSE @]
  ELSE [runs EXCEPT !.blocks = Append(@, Block(n, d)), !.room = RoomFor(@, many + 1),
                    !.held = @ + 1]

\* The blocks less n units from `skip` of block b on, and the last it is of.
RECURSIVE Cut(_, _, _, _)
Cut(blocks, b, skip, n) ==
  LET taken == IF blocks[b].n - skip < n THEN blocks[b].n - skip ELSE n
      less == [blocks EXCEPT ![b].n = @ - taken]
  IN IF taken = n THEN <<less, b>> ELSE Cut(less, b + 1, 0, n - taken)

\* m units of d next to the empty blocks first..last, if there are some, or in
\* place of one; and which are to be closed up, with one of the blocks around
\* them if those are the same.
Refilled(blocks, first, last, d, m) ==
  LET around == IF first <= last THEN {first - 1, last + 1} \cap DOMAIN blocks ELSE {}
      alike == {b \in around : m > 0 /\ blocks[b].d = d}
      wanted == m > 0 /\ alike = {}
      slips == wanted /\ first <= last
      joins == Cardinality(around) = 2 /\ ~wanted /\ blocks[first - 1].d = blocks[last + 1].d
      Joined(bs) == IF joins THEN [bs EXCEPT ![first - 1].n = @ + bs[last + 1].n] ELSE bs
  IN [blocks |-> IF slips THEN [blocks EXCEPT ![first] = Block(m, d)]
                 ELSE Joined(IF alike = {} THEN blocks ELSE [blocks EXCEPT ![Min(alike)].n = @ + m]),
      from |-> IF slips THEN first + 1 ELSE first, to |-> IF joins THEN last + 1 ELSE last,
      wanted |-> wanted /\ ~slips, more |-> IF slips THEN 1 ELSE IF joins THEN -1 ELSE 0]

\* Closed up; what was found is the block before, if the one found is gone.
Closed(found, blocks, first, empty, r) ==
  LET closes == r.from <= r.to
      back == empty # {} /\ first > 1 /\ first = found.block
  IN [blocks |-> IF closes THEN SubSeq(r.blocks, 1, r.from - 1)
                                \o SubSeq(r.blocks, r.to + 1, Len(r.blocks)) ELSE r.blocks,
      room |-> IF closes THEN RoomFor(found.room, Len(r.blocks) - (r.to - r.from + 1)) ELSE found.room,
      block |-> IF back THEN first - 1 ELSE found.block,
      at |-> IF back THEN found.at - blocks[first - 1].n ELSE found.at,
      held |-> found.held - Cardinality(empty) + r.more]

ReplaceEmptied(found, blocks, first, last, loc, d, m) ==
  LET Put(r, runs) == IF r.wanted THEN Insert(runs, loc, m, d) ELSE runs
      With(r) == Put(r, Closed(found, blocks, first, first .. last, r))
  IN With(Refilled(blocks, first, last, d, m))
ReplaceCut(found, cut, loc, d, m) ==
  LET At(b, side) == IF cut[1][b].n = 0 THEN b ELSE b + side IN
  ReplaceEmptied(found, cut[1], At(found.block, 1), IF cut[2] = 1 THEN 1 ELSE At(cut[2], -1), loc, d, m)
ReplaceFound(found, loc, n, d, m) ==
  ReplaceCut(found, Cut(found.blocks, found.block, loc - found.at, n), loc, d, m)

\* n units from loc on become m of d.  Blocks that are left empty make way for
\* it, or are closed up.
Replace(runs, loc, n, d, m) == IF n = 0 THEN runs ELSE ReplaceFound(Find(runs, loc), loc, n, d, m)

Delete(runs, loc, n) == Replace(runs, loc, n, {}, 0)
----------------------------------------------------------------------------
\* What is known of a place: its attributes, and from where to where they are
\* known to be the same.
Attributes(runs, loc) ==
  LET At(found) == [runs |-> found, d |-> found.blocks[found.block].d,
                    from |-> found.at, end |-> found.at + found.blocks[found.block].n]
  IN At(Find(runs, loc))

Replaced(s, a, n, t) == SubSeq(s, 1, a) \o t \o SubSeq(s, a + n + 1, Len(s))
ReplaceString(s, a, n, t) ==
  LET from == IF n > 0 THEN a ELSE IF a > 0 THEN a - 1 ELSE 0
      known == Attributes(s.runs, from)
      runs == IF t # <<>> /\ s.text # <<>> THEN known.runs ELSE s.runs
      d == IF s.text # <<>> THEN known.d ELSE {}
  IN [text |-> Replaced(s.text, a, n, t),
      runs |-> IF n > 0 THEN Replace(runs, a, n, d, Len(t)) ELSE Insert(runs, a, Len(t), d)]

\* From a on, each stretch of n units that has the same attributes gets what
\* Change makes of them, unless they stay the same.
RECURSIVE Changed(_, _, _, _, _)
Changed(runs, a, n, Change(_), same) ==
  IF n = 0 THEN runs
  ELSE LET known == Attributes(runs, a)
           rest == known.end - a
           length == IF rest > n THEN n ELSE rest
           new == Change(known.d)
       IN Changed(IF same /\ new = known.d THEN known.runs
                  ELSE Replace(known.runs, a, length, new, length),
                  a + length, n - length, Change, same)

Added(d, more) == {p \in d : \A q \in more : q[1] # p[1]} \cup more
SetAttributes(s, a, n, d, clear) ==
  [s EXCEPT !.runs =
     IF clear THEN Replace(@, a, n, d, n)
     ELSE IF d = {} THEN @ ELSE Changed(@, a, n, LAMBDA old : Added(old, d), FALSE)]
SetAttribute(s, a, n, name, v) ==
  [s EXCEPT !.runs = Changed(@, a, n, LAMBDA old : Added(old, {<<name, v>>}), TRUE)]
RemoveAttribute(s, a, n, name) ==
  [s EXCEPT !.runs = Changed(@, a, n, LAMBDA old : {p \in old : p[1] # name}, TRUE)]

\* The run arrays of a string into which another's runs went, and of that.
RECURSIVE Inserted(_, _, _, _, _)
Inserted(runs, other, at, a, n) ==
  IF at >= n THEN <<runs, other>>
  ELSE LET known == Attributes(other, at)
           more == Insert(runs, known.from + a, known.end - known.from, known.d)
       IN Inserted(more, known.runs, known.end, a, n)

\* The same, when they are one: what it reads has been changed.
RECURSIVE InsertedItself(_, _, _, _)
InsertedItself(runs, at, a, n) ==
  IF at >= n THEN runs
  ELSE LET known == Attributes(runs, at) IN
       InsertedItself(Insert(known.runs, known.from + a, known.end - known.from, known.d),
                      known.end, a, n)
----------------------------------------------------------------------------
Create(text, d) == [text |-> text, runs |-> Insert(NoRuns, 0, Len(text), d)]

\* With these attributes for these ranges, <<location, length, attributes>>.
CreateWithRuns(text, ranges) ==
  FoldLeft(LAMBDA s, r : [s EXCEPT !.runs = Replace(@, r[1], r[2], r[3], r[2])],
           Create(text, {}), ranges)

\* A new string of a part of s, and the run array of s after that.
RECURSIVE WithRunsOf(_, _, _, _, _)
WithRunsOf(new, runs, at, a, end) ==
  IF at >= end THEN <<new, runs>>
  ELSE LET known == Attributes(runs, at)
           to == IF known.end > end THEN end ELSE known.end
       IN WithRunsOf(SetAttributes(new, at - a, to - at, known.d, TRUE), known.runs, to, a, end)
CreateWithSubstring(s, a, n) ==
  WithRunsOf(ReplaceString([text |-> <<>>, runs |-> NoRuns], 0, 0, SubSeq(s.text, a + 1, a + n)),
             s.runs, a, a, a + n)
----------------------------------------------------------------------------
\* The longest range around loc, within from..end, that has the attributes of
\* these names that loc has.
Of(d, names) == {p \in d : p[1] \in names}
RECURSIVE RightEnd(_, _, _, _, _), LeftEnd(_, _, _, _, _)
RightEnd(runs, at, end, names, is) ==
  IF at >= end \/ Of(Attributes(runs, at).d, names) # is THEN at
  ELSE RightEnd(runs, Attributes(runs, at).end, end, names, is)
LeftEnd(runs, at, from, names, is) ==
  IF at <= from \/ Of(Attributes(runs, at - 1).d, names) # is THEN at
  ELSE LeftEnd(runs, Attributes(runs, at - 1).from, from, names, is)
LongestRange(runs, loc, from, end, names) ==
  LET known == Attributes(runs, loc)
      right == RightEnd(runs, known.end, end, names, Of(known.d, names))
      left == LeftEnd(runs, known.from, from, names, Of(known.d, names))
  IN <<IF left < from THEN from ELSE left, IF end < right THEN end ELSE right>>
LongestAttributes(runs, loc, from, end) == LongestRange(runs, loc, from, end, Names)
LongestAttribute(runs, loc, name, from, end) == LongestRange(runs, loc, from, end, {name})

\* The runs that have attributes, or all: <<from, end, attributes>>.
RECURSIVE RunsFrom(_, _, _, _)
RunsFrom(runs, at, end, all) ==
  IF at >= end THEN <<>>
  ELSE LET to == LongestAttributes(runs, at, at, end)[2]
           d == Attributes(runs, at).d
       IN (IF all \/ d # {} THEN <<<<at, to, d>>>> ELSE <<>>) \o RunsFrom(runs, to, end, all)
GetRuns(s, all) == RunsFrom(s.runs, 0, Len(s.text), all)

RECURSIVE EqualFrom(_, _, _, _)
EqualFrom(s, o, at, n) ==
  at >= n \/
    LET mine == Attributes(s, at)
        its == Attributes(o, at)
    IN /\ mine.d = its.d
       /\ EqualFrom(mine.runs, its.runs, IF mine.end < its.end THEN mine.end ELSE its.end, n)
Equal(s, o) == s.text = o.text /\ EqualFrom(s.runs, o.runs, 0, Len(s.text))
----------------------------------------------------------------------------
TextOf(mean) == [i \in DOMAIN mean |-> mean[i].u]
AttributesOf(mean) == [i \in DOMAIN mean |-> mean[i].d]
Meant(text, d) == [i \in DOMAIN text |-> [u |-> text[i], d |-> d]]

\* Every unit of the range is given what Change makes of its attributes.
AllChanged(m, r, Change(_)) ==
  [i \in DOMAIN m |-> IF i \in r[1] + 1 .. r[1] + r[2] THEN [m[i] EXCEPT !.d = Change(@)] ELSE m[i]]
Ranges(text) == {r \in (0 .. Len(text)) \X (0 .. Len(text)) : r[1] + r[2] <= Len(text)}

Init ==
  /\ calls = 0
  /\ \E n \in 0 .. 3, u \in Units, d \in Dictionaries :
       LET text == [i \in 1 .. n |-> u]
           mean == Meant(text, d)
       IN \/ /\ means = <<mean, <<>> >>
             /\ strings = <<Create(text, d), Create(<<>>, {})>>
          \/ /\ n > 0
             /\ \E r, q \in Ranges(text), e \in Dictionaries :
                  /\ strings = <<Create(<<>>, {}), CreateWithRuns(text, <<<<r[1], r[2], d>>, <<q[1], q[2], e>> >>)>>
                  /\ means = <<<<>>, AllChanged(AllChanged(Meant(text, {}), r, LAMBDA old : d),
                                                q, LAMBDA old : e)>>

Edit(new, mean) ==
  /\ Len(mean) <= MaxLength
  /\ strings' = [strings EXCEPT ![1] = new] /\ means' = [means EXCEPT ![1] = mean]

EditString ==
  \E r \in Ranges(strings[1].text), t \in {<<>>, <<CHOOSE u \in Units : TRUE>>} :
    LET m == means[1]
        d == IF m = <<>> THEN {} ELSE m[IF r[2] > 0 THEN r[1] + 1 ELSE IF r[1] > 0 THEN r[1] ELSE 1].d
    IN Edit(ReplaceString(strings[1], r[1], r[2], t), Replaced(m, r[1], r[2], Meant(t, d)))

EditAttributes ==
  \E r \in Ranges(strings[1].text), d \in Dictionaries, clear \in BOOLEAN :
    Edit(SetAttributes(strings[1], r[1], r[2], d, clear),
         AllChanged(means[1], r, LAMBDA old : IF clear THEN d ELSE Added(old, d)))
EditAttribute ==
  \E r \in Ranges(strings[1].text), name \in Names :
    \/ \E v \in Values :
         Edit(SetAttribute(strings[1], r[1], r[2], name, v),
              AllChanged(means[1], r, LAMBDA old : Added(old, {<<name, v>>})))
    \/ Edit(RemoveAttribute(strings[1], r[1], r[2], name),
            AllChanged(means[1], r, LAMBDA old : {p \in old : p[1] # name}))

EditAttributed ==
  \E r \in Ranges(strings[1].text) :
    \/ LET n == Len(strings[2].text)
           both == Inserted(strings[1].runs, strings[2].runs, 0, r[1], n)
       IN /\ Len(means[1]) - r[2] + n <= MaxLength
          /\ strings' = <<[text |-> Replaced(strings[1].text, r[1], r[2], strings[2].text),
                           runs |-> Delete(both[1], r[1] + n, r[2])],
                          [strings[2] EXCEPT !.runs = both[2]]>>
          /\ means' = [means EXCEPT ![1] = Replaced(@, r[1], r[2], means[2])]
    \/ LET s == strings[1]
           n == Len(s.text)
           runs == InsertedItself(s.runs, 0, r[1], n)
       IN /\ ReplacesItself
          /\ Edit([text |-> Replaced(s.text, r[1], r[2], s.text), runs |-> Delete(runs, r[1] + n, r[2])],
                  Replaced(means[1], r[1], r[2], means[1]))

\* A part of the first becomes the second.
CopySubstring ==
  \E r \in Ranges(strings[1].text) :
    LET made == CreateWithSubstring(strings[1], r[1], r[2]) IN
    /\ strings' = <<[strings[1] EXCEPT !.runs = made[2]], made[1]>>
    /\ means' = [means EXCEPT ![2] = SubSeq(means[1], r[1] + 1, r[1] + r[2])]

\* Asking changes where the next search begins.
Ask ==
  \E loc \in 0 .. Len(strings[1].text) - 1 :
    /\ strings' = [strings EXCEPT ![1].runs = Find(@, loc)]
    /\ UNCHANGED means

Next ==
  /\ calls < MaxCalls
  /\ calls' = calls + 1
  /\ EditString \/ EditAttributes \/ EditAttribute \/ EditAttributed \/ CopySubstring
       \/ Ask

Spec == Init /\ [][Next]_vars
----------------------------------------------------------------------------
TypeOK ==
  /\ calls \in 0 .. MaxCalls
  /\ \A s \in 1 .. 2 : strings[s].text \in Seq(Units) /\ Len(means[s]) <= MaxLength

\* Every unit of a string has the attributes that the calls gave it, whichever
\* blocks they are kept in (CFRunArray.c:218-373, CFAttributedString.c).
AttributesAreThoseGiven ==
  \A s \in 1 .. 2 :
    /\ strings[s].text = TextOf(means[s])
    /\ FoldSeq(LAMBDA b, all : [i \in 1 .. b.n |-> b.d] \o all, <<>>, strings[s].runs.blocks)
         = AttributesOf(means[s])

\* The block that is remembered begins where that says, no block is empty or
\* beyond the room there is, and each holds its attributes once
\* (CFRunArray.c:55, 243, 259, 330).
RunsAreSound ==
  \A s \in 1 .. 2 :
    LET runs == strings[s].runs IN
    /\ \A b \in DOMAIN runs.blocks : runs.blocks[b].n > 0
    /\ Len(runs.blocks) <= runs.room /\ runs.held = Len(runs.blocks)
    /\ runs.block \in 1 .. Len(runs.blocks) \/ (runs.block = 1 /\ runs.at = 0)
    /\ runs.at = LengthOf(SubSeq(runs.blocks, 1, runs.block - 1))

\* The longest range is the longest there is in the limits, of all attributes
\* and of one; the runs are all there are; and strings are equal when their
\* units and attributes are (CFAttributedString.c:52, 329, 364, 415).
RangesAreLongest ==
  LET s == strings[1]
      m == AttributesOf(means[1])
      Same(i, j, What(_)) == \A k \in i + 1 .. j : What(m[k]) = What(m[i + 1])
      IsLongest(r, loc, from, end, What(_)) ==
        /\ r[1] \in from .. loc /\ r[2] \in loc + 1 .. end /\ Same(r[1], r[2], What)
        /\ r[1] = from \/ ~Same(r[1] - 1, r[2], What)
        /\ r[2] = end \/ ~Same(r[1], r[2] + 1, What)
      found == GetRuns(s, FALSE)
  IN /\ \A from, loc \in 0 .. Len(m), end \in {Len(m) - 1, Len(m)} :
          from <= loc /\ loc < end =>
            /\ IsLongest(LongestAttributes(s.runs, loc, from, end), loc, from, end, LAMBDA d : d)
            /\ \A name \in Names :
                 IsLongest(LongestAttribute(s.runs, loc, name, from, end), loc, from, end,
                           LAMBDA d : {p \in d : p[1] = name})
     /\ \A i \in DOMAIN m :
          m[i] = {} \/ \E k \in DOMAIN found : found[k][1] < i /\ i <= found[k][2] /\ found[k][3] = m[i]
     /\ Equal(s, strings[2]) <=> means[1] = means[2]
============================================================================
