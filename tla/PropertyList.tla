---------------------------- MODULE PropertyList ----------------------------
(* Property lists as values, as XML and as the older text                    *)
(* (CFPropertyList.c, CFOldStylePList.c).  A text is a list of tokens, each  *)
(* a class and a name: tags, comments' ends, escapes, characters.            *)
EXTENDS BinaryPlist

CONSTANTS
  Values,      \* the values written; <<"loop", ..>> stands for a container it is in
  Texts,       \* texts others wrote, and what they stand for
  Paths,       \* the sets of key paths asked for; one path alone is also asked for
  Formats,     \* what readers are told to try, {} for everything
  MaxDepth     \* how deep old-style texts may nest

VARIABLES
  value,   \* the value that is written, or that the text stands for
  data,    \* its form, and the text or the objects
  done     \* what was read, and how

Leaves == "leaves"
Mutabilities == {"immutable", "containers", Leaves}
NoResult ==
  [op |-> "none", mutability |-> "immutable", formats |-> {}, paths |-> {}, v |-> None]
NoData == [format |-> "none", text |-> <<>>]
----------------------------------------------------------------------------
\* What a property list may hold; the set has the containers down to this.
RECURSIVE IsValid(_, _)
IsValid(v, format) ==
  CASE v[1] \in {"string", "data"} -> TRUE
    [] v[1] \in Numbers \cup {"bool", "date", "uid"} -> format # "openstep"
    [] v[1] \in Containers -> \A i \in DOMAIN Children(v) : IsValid(Children(v)[i], format)
    [] OTHER -> FALSE
----------------------------------------------------------------------------
\* Writing XML.
Chars(s) == [i \in DOMAIN s |-> <<"char", s[i]>>]
Ws == <<"ws", "">>
Open(tag) == <<"open", tag>>
Close(tag) == <<"close", tag>>
Empty(tag) == <<"empty", tag>>
EscapedString(s) ==
  [i \in DOMAIN s |-> IF s[i] \in {"<", ">", "&"} THEN <<"ref", s[i]>> ELSE <<"char", s[i]>>]
RECURSIVE Digits(_)
Digits(n) == (IF n >= 10 THEN Digits(n \div 10) ELSE <<>>) \o <<ToString(n % 10)>>
Signed(n) == IF n < 0 THEN <<"-">> \o Digits(-n) ELSE Digits(n)
RealText(n) ==
  (IF n < 0 THEN <<"-">> ELSE <<>>) \o Digits((IF n < 0 THEN -n ELSE n) \div 2)
     \o (IF n % 2 = 1 THEN <<".", "5">> ELSE <<>>)
\* A date is written in whole seconds.
DateText(t) == Signed(t \div 2) \o <<"Z">>
\* Three bytes are four characters of six bits; the rest is filled with '='.
Sextet(n) == "s" \o ToString(n)
RECURSIVE Base64(_)
Base64(bytes) ==
  LET b(i) == IF i <= Len(bytes) THEN bytes[i] ELSE 0
      four == <<Sextet(b(1) \div 4), Sextet((b(1) % 4) * 16 + b(2) \div 16),
                Sextet((b(2) % 16) * 4 + b(3) \div 64), Sextet(b(3) % 64)>>
  IN IF bytes = <<>> THEN <<>>
     ELSE CASE Len(bytes) = 1 -> SubSeq(four, 1, 2) \o <<"=", "=">>
            [] Len(bytes) = 2 -> SubSeq(four, 1, 3) \o <<"=">>
            [] OTHER -> four \o Base64(SubSeq(bytes, 4, Len(bytes)))
Element(tag, text) == <<Open(tag)>> \o text \o <<Close(tag), Ws>>
RECURSIVE AppendXML(_)
AppendXML(v) ==
  LET all(seq) == FoldLeft(LAMBDA t, child : t \o AppendXML(child), <<>>, seq)
      pairs == FoldLeft(LAMBDA t, k : t \o Element("key", EscapedString(k)) \o AppendXML(v[2][k]),
                        <<>>, KeysOf(v))
  IN CASE v[1] = "string" -> Element("string", EscapedString(v[2]))
       [] v[1] = "uid" ->
            Element("dict", <<Ws>> \o Element("key", Chars(<<"CF$UID">>))
                              \o Element("integer", Chars(Signed(v[2]))))
       [] v[1] \in Containers /\ Children(v) = <<>> -> <<Empty(v[1]), Ws>>
       [] v[1] = "array" -> Element("array", <<Ws>> \o all(v[2]))
       [] v[1] = "dict" -> Element("dict", <<Ws>> \o pairs)
       [] v[1] = "data" -> Element("data", <<Ws>> \o Chars(Base64(v[2])) \o <<Ws>>)
       [] v[1] = "date" -> Element("date", Chars(DateText(v[2])))
       [] v[1] \in {"float", "double"} -> Element("real", Chars(RealText(v[2])))
       [] v[1] = "int" -> Element("integer", Chars(Signed(v[2])))
       [] v[1] = "bool" -> <<Empty(IF v[2] = 1 THEN "true" ELSE "false"), Ws>>
Prologue == <<<<"pi", "xml">>, <<"piEnd", "">>, Ws, <<"doctype", "">>, <<"char", "p">>, <<"gt", "">>, Ws>>
GenerateXML(v) == Prologue \o Element("plist", <<Ws>> \o AppendXML(v))
----------------------------------------------------------------------------
\* Reading XML: where the reader is, whether there was an error, what it got.
Is(t, i, class) == i <= Len(t) /\ t[i][1] = class
SkipWhitespace(t, i) ==
  LET from == {j \in i..Len(t) : t[j] # Ws} IN IF from = {} THEN Len(t) + 1 ELSE Min(from)
Got(i, v) == [ok |-> TRUE, err |-> FALSE, at |-> i, key |-> FALSE, v |-> v]
Bad(i) == [ok |-> FALSE, err |-> TRUE, at |-> i, key |-> FALSE, v |-> None]
Nothing(i) == [ok |-> FALSE, err |-> FALSE, at |-> i, key |-> FALSE, v |-> None]
\* Past the end of a construct; an end that is the last of the text is not
\* seen, for characters after it are compared.
PastEnd(t, i, class) ==
  LET ends == {j \in i..(Len(t) - 1) : t[j][1] = class} IN IF ends = {} THEN 0 ELSE Min(ends) + 1
SkipPI(t, i) == PastEnd(t, i, "piEnd")
\* Within an element a comment may be closed by its own second hyphen.
SkipComment(t, i, within) ==
  IF within /\ Is(t, i, "hyphenEnd") /\ i < Len(t) THEN i + 1 ELSE PastEnd(t, i, "commentEnd")
RECURSIVE SkipInlineDTD(_, _)
SkipDeclaration(t, c) ==
  CASE Is(t, c, "percent") -> PastEnd(t \o <<Ws>>, c + 1, "semicolon")
    [] Is(t, c, "pi") -> SkipPI(t, c + 1)
    [] Is(t, c, "comment") -> SkipComment(t, c + 1, FALSE)
    [] Is(t, c, "declaration") -> PastEnd(t \o <<Ws>>, c + 1, "gt")
    [] OTHER -> 0
NextInDTD(t, next) == IF next = 0 THEN 0 ELSE SkipInlineDTD(t, next)
InlineDTD(t, c) == IF Is(t, c, "]") THEN c + 1 ELSE NextInDTD(t, SkipDeclaration(t, c))
SkipInlineDTD(t, i) == InlineDTD(t, SkipWhitespace(t, i))
PastGt(t, i) == IF Is(t, i, "gt") THEN i + 1 ELSE 0
PastInlineDTD(t, after) == IF after = 0 THEN 0 ELSE PastGt(t, SkipWhitespace(t, after))
SkipDTD(t, i) ==
  LET stops == {j \in i..Len(t) : t[j][1] \in {"[", "gt"}}
      stop == Min(stops)
  IN IF stops = {} THEN 0
     ELSE IF t[stop][1] = "gt" THEN stop + 1
     ELSE PastInlineDTD(t, SkipInlineDTD(t, stop + 1))
CheckForCloseTag(t, i, tag) == i <= Len(t) /\ t[i] = Close(tag)

\* The text of a string: characters, references and CDATA up to a tag.
RECURSIVE StringTag(_, _, _)
StringTag(t, i, text) ==
  CASE i <= Len(t) /\ t[i][1] \in {"char", "gt", "semicolon"} -> StringTag(t, i + 1, Append(text, t[i][2]))
    [] Is(t, i, "ws") -> StringTag(t, i + 1, Append(text, " "))
    [] Is(t, i, "ref") -> StringTag(t, i + 1, Append(text, t[i][2]))
    [] Is(t, i, "cdata") ->
         LET ends == {j \in i..Len(t) : t[j][1] = "cdataEnd"}
         IN IF ends = {} THEN Bad(i + 1)
            ELSE StringTag(t, Min(ends) + 1,
                           text \o [k \in 1..(Min(ends) - i - 1) |-> t[i + k][2]])
    [] Is(t, i, "badRef") \/ Is(t, i, "comment") \/ Is(t, i, "declaration") \/ Is(t, i, "doctype") -> Bad(i)
    [] OTHER -> Got(i, text)
Text(t, i) == StringTag(t, i, <<>>)
NumberOf(digits) == FoldLeft(LAMBDA n, d : 10 * n + (CHOOSE k \in 0..9 : ToString(k) = d), 0, digits)
AreDigits(text) == text # <<>> /\ \A i \in DOMAIN text : \E k \in 0..9 : text[i] = ToString(k)
Unsigned(text) == IF text # <<>> /\ text[1] \in {"-", "+"} THEN Tail(text) ELSE text
IsNegative(text) == text # <<>> /\ text[1] = "-"
Trimmed(text) == SelectSeq(text, LAMBDA c : c # " ")
\* Unsigned up to 64 bits, and negative down to the least of them.
IntegerTag(text) ==
  LET digits == Unsigned(Trimmed(text))
      n == NumberOf(digits)
      negative == IsNegative(Trimmed(text))
  IN IF ~AreDigits(digits) \/ n > MaxU64 \/ (negative /\ n > Max64 + 1) THEN None
     ELSE Value("int", IF negative THEN -n ELSE n, FALSE)
RealTag(text) ==
  LET body == Unsigned(text)
      half == Len(body) > 2 /\ SubSeq(body, Len(body) - 1, Len(body)) = <<".", "5">>
      whole == IF half THEN SubSeq(body, 1, Len(body) - 2) ELSE body
      n == 2 * NumberOf(whole) + (IF half THEN 1 ELSE 0)
  IN IF ~AreDigits(whole) THEN None ELSE Value("double", IF IsNegative(text) THEN -n ELSE n, FALSE)
DateTag(text) ==
  LET body == IF text = <<>> THEN <<>> ELSE Front(text)
      digits == IF IsNegative(body) THEN Tail(body) ELSE body
  IN IF text = <<>> \/ Last(text) # "Z" \/ ~AreDigits(digits) THEN None
     ELSE Value("date", 2 * (IF IsNegative(body) THEN -NumberOf(digits) ELSE NumberOf(digits)), FALSE)
\* What is not of the alphabet is passed over; every fourth character makes
\* bytes, one less for each '=' just before.
DataTag(text, leaves) ==
  LET Code(c) == IF c = "=" THEN 0 ELSE CHOOSE n \in 0..63 : c = Sextet(n)
      Coded(c) == c = "=" \/ \E n \in 0..63 : c = Sextet(n)
      end == FoldLeft(
        LAMBDA s, c :
          LET eq == IF c = "=" THEN s.eq + 1 ELSE IF c = " " THEN s.eq ELSE 0
              acc == s.acc * 64 + Code(c)
              full == (s.n + 1) % 4 = 0
          IN IF ~Coded(c) THEN [s EXCEPT !.eq = eq]
             ELSE [eq |-> eq, acc |-> IF full THEN 0 ELSE acc, n |-> s.n + 1,
                   bytes |-> IF ~full THEN s.bytes
                             ELSE s.bytes \o <<acc \div 65536>>
                                    \o (IF eq < 2 THEN <<(acc \div 256) % 256>> ELSE <<>>)
                                    \o (IF eq < 1 THEN <<acc % 256>> ELSE <<>>)],
        [eq |-> 0, acc |-> 0, n |-> 0, bytes |-> <<>>], text)
  IN Value("data", end.bytes, leaves)

\* Elements.  What is skipped is None.
Simple == {"string", "key", "data", "date", "real", "integer", "true", "false"}
RECURSIVE ParseElement(_, _, _, _, _), Content(_, _, _, _, _), ArrayTag(_, _, _, _, _, _),
          DictTag(_, _, _, _, _, _)
LeafTag(tag, text, leaves) ==
  CASE tag \in {"string", "key"} -> Value("string", text, leaves)
    [] tag = "integer" -> IntegerTag(text)
    [] tag = "real" -> RealTag(text)
    [] tag = "date" -> DateTag(text)
    [] tag = "data" -> DataTag(text, leaves)
Unskipped(r, skip) == IF skip THEN [r EXCEPT !.v = None] ELSE r
Bool(tag) == Value("bool", IF tag = "true" THEN 1 ELSE 0, FALSE)
EmptyElement(i, tag, skip, mutability) ==
  CASE tag \in Containers -> Unskipped(Got(i + 1, Value(tag, <<>>, mutability # "immutable")), skip)
    [] tag \in {"string", "key"} ->
         [Unskipped(Got(i + 1, Value("string", <<>>, mutability = Leaves)), skip) EXCEPT !.key = tag = "key"]
    [] tag \in {"true", "false"} -> Unskipped(Got(i + 1, Bool(tag)), skip)
    [] OTHER -> Bad(i + 1)
LeafElement(at, tag, leaf, skip) ==
  IF leaf = None /\ ~(skip /\ tag = "real") THEN Bad(at)
  ELSE [Unskipped(Got(at + 1, leaf), skip) EXCEPT !.key = tag = "key"]
TextElement(t, tag, text, skip, leaves) ==
  IF ~text.ok \/ ~CheckForCloseTag(t, text.at, tag) THEN Bad(text.at)
  ELSE LeafElement(text.at, tag, LeafTag(tag, text.v, leaves), skip)
\* There is one object within the outermost element.
PlistEnd(t, one, two) ==
  IF two.ok \/ two.err \/ one.err \/ ~CheckForCloseTag(t, two.at, "plist") THEN Bad(two.at)
  ELSE [one EXCEPT !.at = two.at + 1]
PlistTag(t, one, skip, paths, mutability) ==
  IF ~one.ok THEN Bad(one.at) ELSE PlistEnd(t, one, Content(t, one.at, skip, paths, mutability))
ParseElement(t, i, skip, paths, mutability) ==
  LET tag == t[i][2]
  IN CASE t[i][1] = "empty" -> EmptyElement(i, tag, skip, mutability)
       [] tag = "plist" ->
            PlistTag(t, Content(t, i + 1, skip, paths, mutability), skip, paths, mutability)
       [] tag = "array" -> ArrayTag(t, i + 1, skip, paths, mutability, <<>>)
       [] tag = "dict" -> DictTag(t, i + 1, skip, paths, mutability, <<>>)
       [] tag \in {"true", "false"} ->
            IF CheckForCloseTag(t, i + 1, tag) THEN Unskipped(Got(i + 2, Bool(tag)), skip) ELSE Bad(i + 1)
       [] tag \in Simple -> TextElement(t, tag, Text(t, i + 1), skip, mutability = Leaves)
       [] OTHER -> Bad(i)
\* The next object, past comments and instructions; a closing tag is none.
ContentAt(t, i, skip, paths, mutability) ==
  CASE t[i][1] = "close" -> Nothing(i)
    [] t[i][1] \in {"pi", "comment"} ->
         LET past == IF t[i][1] = "pi" THEN SkipPI(t, i + 1) ELSE SkipComment(t, i + 1, TRUE)
         IN IF past = 0 THEN Bad(i) ELSE Content(t, past, skip, paths, mutability)
    [] t[i][1] \in {"open", "empty"} -> ParseElement(t, i, skip, paths, mutability)
    [] OTHER -> Bad(i)
Content(t, from, skip, paths, mutability) ==
  IF from > Len(t) THEN Nothing(from)
  ELSE IF SkipWhitespace(t, from) > Len(t) THEN Bad(Len(t) + 1)
  ELSE ContentAt(t, SkipWhitespace(t, from), skip, paths, mutability)
\* Of an array, the places that are asked for are kept.
Chosen(n, paths) == paths = Whole \/ \E k \in TheseKeys(paths) : ProperIndex(k) = n
ArrayRest(t, next, skip, paths, mutability, items) ==
  IF next.ok THEN ArrayTag(t, next.at, skip, paths, mutability, Append(items, next.v))
  ELSE IF next.err \/ ~CheckForCloseTag(t, next.at, "array") THEN Bad(next.at)
  ELSE Got(next.at + 1,
           IF skip THEN None ELSE Value("array", SelectSeq(items, LAMBDA v : v # None), TRUE))
ArrayTag(t, i, skip, paths, mutability, items) ==
  ArrayRest(t, Content(t, i, skip \/ ~Chosen(Len(items), paths), NextKeys(paths), mutability),
            skip, paths, mutability, items)
\* Of a dictionary too.  The last of equal keys counts.  An error before the
\* closing tag is not noticed here.
PutAll(pairs) ==
  LET kept == SelectSeq(pairs, LAMBDA p : p[2] # None)
  IN [k \in {kept[i][1] : i \in DOMAIN kept} |->
        kept[SelectLastInSeq(kept, LAMBDA p : p[1] = k)][2]]
DictOrUID(d, mutability) ==
  IF DOMAIN d = {} THEN Value("dict", <<>>, mutability # "immutable")
  ELSE IF DOMAIN d = {<<"CF$UID">>} /\ d[<<"CF$UID">>][1] \in Numbers
    THEN LET n == d[<<"CF$UID">>]
         IN Value("uid", (IF n[1] = "int" THEN n[2] ELSE n[2] \div 2) % (Base ^ 4), FALSE)
  ELSE Value("dict", d, TRUE)
DictOf(pairs, mutability) == DictOrUID(PutAll(pairs), mutability)
DictValue(t, key, v, skip, paths, mutability, pairs) ==
  IF ~v.ok THEN Bad(v.at)
  ELSE DictTag(t, v.at, skip, paths, mutability,
               Append(pairs, <<IF skip THEN <<>> ELSE key.v[2], v.v>>))
DictRest(t, key, skip, paths, mutability, pairs) ==
  LET chosen == paths = Whole \/ (key.v # None /\ key.v[2] \in TheseKeys(paths))
  IN IF key.ok /\ ~key.key THEN Bad(key.at)
     ELSE IF key.ok
       THEN DictValue(t, key, Content(t, key.at, skip \/ ~chosen, NextKeys(paths), mutability),
                      skip, paths, mutability, pairs)
     ELSE IF CheckForCloseTag(t, key.at, "dict")
       THEN [Got(key.at + 1, IF skip THEN None ELSE DictOf(pairs, mutability)) EXCEPT !.err = key.err]
     ELSE Bad(key.at)
DictTag(t, i, skip, paths, mutability, pairs) ==
  DictRest(t, Content(t, i, skip, paths, mutability), skip, paths, mutability, pairs)
\* The first element counts; what follows it is not looked at.
RECURSIVE ParseXML(_, _, _, _)
Misc(t, i) ==
  CASE Is(t, i, "pi") -> SkipPI(t, i + 1)
    [] Is(t, i, "comment") -> SkipComment(t, i + 1, FALSE)
    [] OTHER -> SkipDTD(t, i + 1)
PastMisc(t, past, paths, mutability) == IF past = 0 THEN None ELSE ParseXML(t, past, paths, mutability)
ParseXMLAt(t, i, paths, mutability) ==
  IF i > Len(t) THEN None
  ELSE CASE t[i][1] \in {"pi", "comment", "doctype"} -> PastMisc(t, Misc(t, i), paths, mutability)
         [] t[i][1] \in {"open", "empty"} -> ParseElement(t, i, FALSE, paths, mutability).v
         [] OTHER -> None
ParseXML(t, from, paths, mutability) == ParseXMLAt(t, SkipWhitespace(t, from), paths, mutability)
----------------------------------------------------------------------------
\* The older text, in which tokens are characters, but for comments, escapes
\* and the digits of data.  A reader that fails is left where it was.
AdvanceToNonSpace(t, i) ==
  LET unended == {j \in i..Len(t) : t[j][1] = "openNote"}
      end == IF unended = {} THEN Len(t) + 1 ELSE Min(unended)
      from == {j \in i..(end - 1) : t[j][1] \notin {"ws", "note"}}
  IN IF from # {} THEN Min(from) ELSE IF unended = {} THEN end ELSE Len(t) + 1
Punctuation == {"{", "}", "(", ")", ",", "=", "\"", "'", "&", "!"}
IsValidUnquoted(token) == token[1] = "char" /\ token[2] \notin Punctuation \cup Wide
AtChar(t, i, c) == i <= Len(t) /\ t[i][1] \in {"char", "semicolon"} /\ t[i][2] = c
\* A bad escape is a null character; the error it sets is cleared at the end
\* of the string.
QuotedChar(token) ==
  CASE token[1] \in {"char", "semicolon", "escape"} -> token[2]
    [] token[1] = "badEscape" -> "null"
    [] OTHER -> " "
ParseQuoted(t, i, quote, leaves) ==
  LET ends == {j \in i..Len(t) : t[j] = <<"char", quote>>}
      end == Min(ends)
  IN IF ends = {} THEN Nothing(i)
     ELSE Got(end + 1, Value("string", [k \in 1..(end - i) |-> QuotedChar(t[i + k - 1])], leaves))
ParseUnquoted(t, i, leaves) ==
  LET stops == {j \in i..Len(t) : ~IsValidUnquoted(t[j])}
      stop == IF stops = {} THEN Len(t) + 1 ELSE Min(stops)
  IN Got(stop, Value("string", [k \in 1..(stop - i) |-> t[i + k - 1][2]], leaves))
StringAt(t, i, leaves) ==
  IF AtChar(t, i, "\"") \/ AtChar(t, i, "'") THEN ParseQuoted(t, i + 1, t[i][2], leaves)
  ELSE IF i <= Len(t) /\ IsValidUnquoted(t[i]) THEN ParseUnquoted(t, i, leaves)
  ELSE Nothing(i)
ParseOldString(t, from, leaves) == StringAt(t, AdvanceToNonSpace(t, from), leaves)
RECURSIVE OldObject(_, _, _, _), OldArray(_, _, _, _, _), OldDictContent(_, _, _, _, _)
\* What cannot be read ends the array, which is one if its end is next.
AfterItem(t, next, c, leaves, depth, items) ==
  LET all == IF next.ok THEN Append(items, next.v) ELSE items
  IN IF next.ok /\ AtChar(t, c, ",") THEN OldArray(t, c + 1, leaves, depth, all)
     ELSE IF AtChar(t, c, ")") THEN Got(c + 1, Value("array", all, TRUE))
     ELSE Nothing(c)
OldItem(t, next, leaves, depth, items) ==
  AfterItem(t, next, AdvanceToNonSpace(t, next.at), leaves, depth, items)
OldArray(t, i, leaves, depth, items) == OldItem(t, OldObject(t, i, leaves, depth + 1), leaves, depth, items)
\* A key alone is its own value.  What is no key ends the pairs.
ValueOfKey(t, key, c, leaves, depth) ==
  IF AtChar(t, c, ";") THEN [key EXCEPT !.at = c]
  ELSE IF AtChar(t, c, "=") THEN OldObject(t, c + 1, leaves, depth + 1)
  ELSE Nothing(c)
AfterPair(t, key, v, end, leaves, depth, pairs) ==
  IF ~v.ok \/ ~AtChar(t, end, ";") THEN Nothing(IF v.ok THEN end ELSE v.at)
  ELSE OldDictContent(t, end + 1, leaves, depth, Append(pairs, <<key.v[2], v.v>>))
OldPair(t, key, v, leaves, depth, pairs) ==
  AfterPair(t, key, v, AdvanceToNonSpace(t, v.at), leaves, depth, pairs)
OldKey(t, key, leaves, depth, pairs) ==
  IF ~key.ok THEN Got(key.at, Value("dict", PutAll(pairs), TRUE))
  ELSE OldPair(t, key, ValueOfKey(t, key, AdvanceToNonSpace(t, key.at), leaves, depth), leaves, depth, pairs)
OldDictContent(t, i, leaves, depth, pairs) == OldKey(t, ParseOldString(t, i, leaves), leaves, depth, pairs)
EndOfDict(t, content, end) ==
  IF content.ok /\ AtChar(t, end, "}") THEN [content EXCEPT !.at = end + 1]
  ELSE Nothing(IF content.ok THEN end ELSE content.at)
OldDict(t, content) == EndOfDict(t, content, AdvanceToNonSpace(t, content.at))
OldObjectAt(t, i, leaves, depth) ==
  IF AtChar(t, i, "{") THEN OldDict(t, OldDictContent(t, i + 1, leaves, depth, <<>>))
  ELSE IF AtChar(t, i, "(") THEN OldArray(t, i + 1, leaves, depth, <<>>)
  ELSE IF Is(t, i, "hex") THEN Got(i + 1, Value("data", t[i][2], TRUE))
  ELSE ParseOldString(t, i, leaves)
OldObject(t, from, leaves, depth) ==
  IF depth > MaxDepth THEN Nothing(from)
  ELSE OldObjectAt(t, AdvanceToNonSpace(t, from), leaves, depth)
\* A string with more behind it begins a strings file: the inside of a
\* dictionary, of which what cannot be read is passed over.  Leaves are
\* mutable if nothing but that was asked.
WholeOrStrings(t, r, leaves) ==
  LET junk == AdvanceToNonSpace(t, r.at) <= Len(t)
  IN IF ~r.ok \/ (junk /\ r.v[1] # "string") THEN None
     ELSE IF junk THEN OldDictContent(t, 1, leaves, 0, <<>>).v
     ELSE r.v
LeavesToo(mutability, formats) == mutability = Leaves /\ formats = {}
OldStyle(t, mutability, formats) ==
  IF AdvanceToNonSpace(t, 1) > Len(t) THEN Value("dict", <<>>, TRUE)
  ELSE WholeOrStrings(t, OldObject(t, 1, LeavesToo(mutability, formats), 0),
                      LeavesToo(mutability, formats))
----------------------------------------------------------------------------
\* The entry points.  Whatever may be tried is tried, in this order.
May(format, formats) == formats = {} \/ format \in formats
TriedBinary(d, mutability, formats) ==
  IF d.format = "binary" /\ May("binary", formats) THEN TryParse(d.text, mutability) ELSE None
TriedXML(d, mutability, formats, paths) ==
  IF d.format # "binary" /\ May("xml", formats) THEN ParseXML(d.text, 1, paths, mutability) ELSE None
OrOldStyle(d, mutability, formats, v) ==
  IF v = None /\ d.format # "binary" /\ May("openstep", formats)
    THEN OldStyle(d.text, mutability, formats) ELSE v
OrElse(v, other) == IF v # None THEN v ELSE other
CreateWithData(d, mutability, formats, paths) ==
  OrOldStyle(d, mutability, formats,
    OrElse(TriedBinary(d, mutability, formats), TriedXML(d, mutability, formats, paths)))
CreateFiltered(d, mutability, paths) ==
  IF d.format = "binary" THEN Filtered(d.text, mutability, paths)
  ELSE CreateWithData(d, mutability, {}, paths)
\* In a text, a key that looks like a number is looked for in arrays only.
Step(v, key) ==
  CASE v[1] = "dict" /\ ProperIndex(key) = -1 -> IF key \in DOMAIN v[2] THEN v[2][key] ELSE None
    [] v[1] = "array" -> v[2][IntValue(key) + 1]
    [] OTHER -> None
CreateSingleValue(d, whole, mutability, path) ==
  IF d.format = "binary" THEN BinarySingle(d.text, mutability, path)
  ELSE FoldLeft(Step, whole, path)
KeysAtTop(v) == IF v[1] # "dict" THEN {None} ELSE {Value("string", k, FALSE) : k \in DOMAIN v[2]}
CopyTopLevelKeys(d) ==
  IF d.format = "binary" THEN BinaryTopKeys(d.text)
  ELSE KeysAtTop(CreateWithData(d, "immutable", {}, Whole))
\* A copy of all there is; one of a UID is nothing, and so is what it is in.
RECURSIVE DeepCopy(_, _)
DeepCopy(v, mutability) ==
  LET all == [i \in DOMAIN v[2] |-> DeepCopy(v[2][i], mutability)]
  IN CASE v[1] \in Containers ->
            IF \E i \in DOMAIN all : all[i] = None THEN None
            ELSE Value(v[1], all, mutability # "immutable")
       [] v[1] \in {"string", "data"} -> Value(v[1], v[2], mutability = Leaves)
       [] v[1] = "uid" -> None
       [] OTHER -> v
CreateDeepCopy(v, mutability) == IF IsValid(v, "binary") THEN DeepCopy(v, mutability) ELSE None
----------------------------------------------------------------------------
\* Of old-style texts there are those that others wrote.
RECURSIVE OldText(_)
OldText(v) ==
  LET q == <<"char", "\"">>
      quoted(s) == <<q>> \o [i \in DOMAIN s |-> IF s[i] \in Wide THEN <<"escape", s[i]>> ELSE <<"char", s[i]>>] \o <<q>>
      pairs == FoldLeft(LAMBDA t, k : t \o quoted(k) \o <<<<"char", "=">>>> \o OldText(v[2][k])
                                        \o <<<<"semicolon", ";">>, Ws>>, <<>>, KeysOf(v))
      items == FoldLeft(LAMBDA t, item : t \o OldText(item) \o <<<<"char", ",">>, Ws>>, <<>>, v[2])
  IN CASE v[1] = "string" -> quoted(v[2])
       [] v[1] = "data" -> <<<<"hex", v[2]>>>>
       [] v[1] = "array" -> <<<<"char", "(">>>> \o items \o <<<<"char", ")">>>>
       [] v[1] = "dict" -> <<<<"char", "{">>>> \o pairs \o <<<<"char", "}">>>>

Init ==
  /\ \/ value \in Values /\ data = NoData
     \/ /\ value \in {v \in Values : IsValid(v, "openstep")}
        /\ data = [format |-> "openstep", text |-> OldText(value)]
     \/ \E pair \in Texts : value = pair[2] /\ data = [format |-> "text", text |-> pair[1]]
  /\ done = NoResult

CreateData(format) ==
  /\ value # None /\ done = NoResult /\ data.format # format
  /\ data' = IF ~IsValid(value, format) THEN NoData
             ELSE [format |-> format,
                   text |-> IF format = "xml" THEN GenerateXML(value) ELSE BinaryWrite(value)]
  /\ UNCHANGED <<value, done>>
Did(op, mutability, formats, paths, v) ==
  /\ done = NoResult
  /\ done' = [op |-> op, mutability |-> mutability, formats |-> formats, paths |-> paths, v |-> v]
  /\ UNCHANGED <<value, data>>
Read(mutability, formats) ==
  /\ data.format # "none"
  /\ Did("read", mutability, formats, Whole, CreateWithData(data, mutability, formats, Whole))
Filter(mutability, paths) ==
  /\ data.format # "none"
  /\ Did("filter", mutability, {}, paths, CreateFiltered(data, mutability, paths))
\* An index past the end of an array in a text is not looked at.
RECURSIVE InRange(_, _)
InRange(v, path) ==
  CASE path = <<>> -> TRUE
    [] path # <<>> /\ v[1] = "array" ->
         LET i == IntValue(path[1]) + 1 IN i \in DOMAIN v[2] /\ InRange(v[2][i], Tail(path))
    [] path # <<>> /\ v[1] = "dict" ->
         path[1] \in DOMAIN v[2] => InRange(v[2][path[1]], Tail(path))
    [] OTHER -> TRUE
SingleOf(whole, mutability, path) ==
  /\ data.format # "binary" => InRange(whole, path)
  /\ Did("single", mutability, {}, {path}, CreateSingleValue(data, whole, mutability, path))
Single(mutability, path) ==
  data.format # "none" /\ SingleOf(CreateWithData(data, mutability, {}, Whole), mutability, path)
TopKeys ==
  /\ data.format # "none" /\ done = NoResult
  /\ done' = [NoResult EXCEPT !.op = "keys", !.v = Value("keys", CopyTopLevelKeys(data), FALSE)]
  /\ UNCHANGED <<value, data>>
Copy(mutability) ==
  value # None /\ Did("copy", mutability, {}, Whole, CreateDeepCopy(value, mutability))
\* What was read is written again.
Keep ==
  /\ done.op \in {"read", "filter"} /\ done.v # None
  /\ value' = done.v /\ data' = NoData /\ done' = NoResult

Next ==
  \/ \E format \in {"xml", "binary"} : CreateData(format)
  \/ \E m \in Mutabilities :
       \/ \E formats \in Formats : Read(m, formats)
       \/ \E paths \in Paths : Filter(m, paths) \/ \E path \in paths : Single(m, path)
       \/ Copy(m)
  \/ TopKeys
  \/ Keep
----------------------------------------------------------------------------
Types ==
  {"none", "crash", "string", "data", "bool", "date", "uid", "array", "dict"} \cup Numbers
TypeOK ==
  /\ value[1] \in Types
  /\ data.format \in {"none", "text", "openstep", "xml", "binary"}
  /\ done.op \in {"none", "read", "filter", "single", "keys", "copy"}
  /\ done.mutability \in Mutabilities

\* What a value is whatever its mutability.  XML has whole seconds, and a UID is
\* a dictionary of a number CF$UID, as every such dictionary is a UID.
RECURSIVE Plain(_), Spelled(_), Understood(_)
Plain(v) ==
  IF v[1] \in Containers THEN <<v[1], [i \in DOMAIN v[2] |-> Plain(v[2][i])]>>
  ELSE <<Canon(v)[1], Canon(v)[2]>>
Spelled(v) ==
  CASE v[1] \in Containers -> Value(v[1], [i \in DOMAIN v[2] |-> Spelled(v[2][i])], TRUE)
    [] v[1] = "uid" -> Value("dict", <<"CF$UID">> :> Value("int", v[2], FALSE), TRUE)
    [] v[1] = "date" -> Value("date", 2 * (v[2] \div 2), FALSE)
    [] OTHER -> v
Understood(v) ==
  CASE v[1] = "dict" ->
         DictOf([i \in DOMAIN KeysOf(v) |-> <<KeysOf(v)[i], Understood(ValuesOf(v)[i])>>], Leaves)
    [] v[1] = "array" -> Value("array", [i \in DOMAIN v[2] |-> Understood(v[2][i])], TRUE)
    [] OTHER -> v
Meant == IF data.format = "xml" THEN Understood(Spelled(value)) ELSE value

\* What is read is what was written or stands in the text, in each of the three
\* forms, and nothing if none of the formats asked for is that of the data
\* (CFPropertyList.c:2520-2602).
ReadsWhatIsMeant ==
  done.op = "read" =>
    IF done.formats = {} \/ data.format \in done.formats THEN Plain(done.v) = Plain(Meant)
    ELSE data.format # "text" => done.v = None

\* What is read is as mutable as was asked; from the binary form, and a copy, no
\* more than that.  Old-style strings are not when formats were asked for too.
RECURSIVE IsAsAsked(_, _, _)
IsAsAsked(v, mutability, exactly) ==
  LET asked == \/ v[1] \in Containers /\ mutability # "immutable"
               \/ v[1] \in {"string", "data"} /\ mutability = Leaves
  IN /\ asked => v[3]
     /\ exactly => v[3] = asked
     /\ v[1] \in Containers => \A i \in DOMAIN v[2] : IsAsAsked(v[2][i], mutability, exactly)
MutableAsAsked ==
  /\ done.op \in {"read", "filter", "single"} /\ (data.format \in {"openstep", "text"} => done.formats = {})
       => IsAsAsked(done.v, done.mutability, data.format = "binary")
  /\ done.op = "copy" => IsAsAsked(done.v, done.mutability, TRUE)

\* The part of a value that paths lead to.  Those are kept apart only when all
\* keys of a level go on in the same ways.
TailsAt(key, paths) == {Tail(p) : p \in {q \in paths : q[1] = key}}
RECURSIVE Regular(_), Subset(_, _), Lookup(_, _), IsPathOf(_, _)
Regular(paths) ==
  \/ paths = {<<>>}
  \/ <<>> \notin paths /\ \E tails \in {TailsAt(k, paths) : k \in TheseKeys(paths)} :
       (\A k \in TheseKeys(paths) : TailsAt(k, paths) = tails) /\ Regular(tails)
Subset(v, paths) ==
  CASE paths = {<<>>} \/ v[1] \notin Containers -> v
    [] v[1] = "dict" ->
         Value("dict", [k \in DOMAIN v[2] \cap TheseKeys(paths) |-> Subset(v[2][k], TailsAt(k, paths))], TRUE)
    [] v[1] = "array" ->
         LET index(k) == ProperIndex(k) + 1
             keys == SelectSeq(SetToSeq(TheseKeys(paths)), LAMBDA k : index(k) \in DOMAIN v[2])
         IN Value("array", [i \in DOMAIN keys |-> Subset(v[2][index(keys[i])], TailsAt(keys[i], paths))], TRUE)
Lookup(v, path) ==
  CASE path = <<>> \/ v = None -> v
    [] v[1] = "dict" -> IF path[1] \in DOMAIN v[2] THEN Lookup(v[2][path[1]], Tail(path)) ELSE None
    [] v[1] = "array" -> IF ProperIndex(path[1]) + 1 \in DOMAIN v[2]
                           THEN Lookup(v[2][ProperIndex(path[1]) + 1], Tail(path)) ELSE None
\* Keys of dictionaries are no numbers, those of arrays are, and what is none
\* of both has none.
IsPathOf(v, path) ==
  \/ path = <<>> \/ v = None
  \/ /\ v[1] \in Containers
     /\ (v[1] = "array") = (ProperIndex(path[1]) # -1)
     /\ IsPathOf(Lookup(v, <<path[1]>>), Tail(path))

\* A part, a single value and the keys that are read are those of the whole
\* (CFPropertyList.c:2667, 2718, 2830).
PartsAreOfTheWhole ==
  /\ done.op = "filter" /\ data.format \in {"xml", "binary"} /\ Regular(done.paths)
       => Plain(done.v) = Plain(IF data.format = "xml" THEN Understood(Subset(Spelled(value), done.paths))
                                ELSE Subset(value, done.paths))
  /\ done.op = "single" =>
       \A path \in done.paths : IsPathOf(Meant, path) => Plain(done.v) = Plain(Lookup(Meant, path))
  /\ done.op = "keys" =>
       done.v[2] = IF Meant[1] = "dict" THEN {Value("string", k, FALSE) : k \in DOMAIN Meant[2]} ELSE {None}

\* A deep copy is the same, or nothing when there is a UID in it or what it is
\* of is no property list (CFPropertyList.c:3198).
RECURSIVE Has(_, _)
Has(v, type) == v[1] = type \/ (v[1] \in Containers /\ \E i \in DOMAIN v[2] : Has(v[2][i], type))
CopiesAreTheSame ==
  done.op = "copy" =>
    IF Has(value, "uid") \/ Has(value, "loop") THEN done.v = None ELSE Plain(done.v) = Plain(value)
============================================================================
