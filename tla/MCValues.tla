------------------------------ MODULE MCValues ------------------------------
(* The parts of MCObjects that are values, and not held by anybody: property *)
(* lists, bytes and bits, heaps and trees, and the parts of a URL.  They     *)
(* share the variables x1, ...                                               *)
EXTENDS Integers, Sequences, TLC

VARIABLES part, x1, x2, x3, x4, x5, x6, x7, x8, x9, x10

Rest8 == x8 = 0 /\ x9 = 0 /\ x10 = 0
Rest5 == x5 = 0 /\ x6 = 0 /\ x7 = 0 /\ Rest8
Rest4 == x4 = 0 /\ Rest5
Rest3 == x3 = 0 /\ Rest4
Rest2 == x2 = 0 /\ Rest3
Rest1 == x1 = 0 /\ Rest2
From5 == <<x5, x6, x7, x8, x9, x10>>
From4 == <<x4, x5, x6, x7, x8, x9, x10>>
From3 == <<x3, From4>>
----------------------------------------------------------------------------
\* Property lists, texts of others among them: a strings file, elements that
\* end early, nesting that is too deep, comments, a DTD and what follows.
Str(s) == <<"string", s, FALSE>>
Num(n) == <<"int", n, FALSE>>
Arr(s) == <<"array", s, FALSE>>
Dict(f) == <<"dict", f, FALSE>>
Ch(x) == <<"char", x>>
Space == <<"ws", "">>
Elem(tag, t) == <<<<"open", tag>>>> \o t \o <<<<"close", tag>>>>
\* a = b; k; and what is no key.
StringsFile == <<Ch("a"), <<"note", "">>, Ch("="), Space, Ch("'"), <<"escape", "é">>, <<"badEscape", "">>, Ch("'"), <<"semicolon", ";">>, Ch("k"), <<"semicolon", ";">>, Ch("!")>>
PlistTexts == {
  <<StringsFile, Dict([x \in {<<"a">>, <<"k">>} |-> IF x = <<"a">> THEN Str(<<"é", "null">>) ELSE Str(<<"k">>)])>>,
  <<<<Ch("("), Ch("{"), Ch("a"), Ch("="), Ch("b"), Ch(")")>>, Arr(<<>>)>>,
  <<<<Ch("("), Ch("("), Ch("("), Ch("("), Ch(")"), Ch(")"), Ch(")"), Ch(")")>>, <<"none", 0, FALSE>> >>,
  <<<<Space, <<"note", "">>, <<"openNote", "">>, Ch("a")>>, Dict(<<>>)>>,
  <<<<<<"hex", <<1>>>>, Ch("a")>>, <<"none", 0, FALSE>> >>,
  <<<<<<"comment", "">>, <<"hyphenEnd", "">>, <<"commentEnd", "">>, <<"doctype", "">>, Ch("p"), <<"[", "[">>,
      <<"percent", "%">>, Ch("e"), <<"semicolon", ";">>, <<"declaration", "">>, <<"gt", ">">>, <<"]", "]">>, <<"gt", ">">> >>
    \o Elem("dict", Elem("key", <<<<"cdata", "">>, Ch("a"), <<"cdataEnd", "">> >>) \o <<<<"comment", "">>, <<"hyphenEnd", "">> >>
                \o Elem("real", <<Ch("1"), Ch("."), Ch("5")>>) \o Elem("key", <<Ch("a")>>) \o Elem("integer", <<Ch("-"), Ch("2")>>))
    \o <<<<"open", "junk">> >>, Dict([x \in {<<"a">>} |-> Num(-2)])>>,
  <<Elem("integer", <<Ch("6"), Ch("5"), Ch("5"), Ch("3"), Ch("6")>>), <<"none", 0, FALSE>> >>,
  <<Elem("dict", Elem("key", <<Ch("a")>>)), <<"none", 0, FALSE>> >> }
Uid == Dict([x \in {<<"CF$UID">>} |-> Num(3)])
PlistValues == {
  Str(<<"a", "&", "<", "é">>), Str(<<>>), <<"date", 5, FALSE>>, <<"data", <<1, 2, 3, 200>>, FALSE>>, Uid,
  Arr(<<Num(-3), <<"uid", 200, FALSE>>, <<"bool", 1, FALSE>>, <<"double", 5, FALSE>>, <<"float", -6, FALSE>> >>),
  Arr(<<Num(65535), Num(32768), Num(255), Num(3)>>),
  Arr(<<Num(32767), Str(<<"a">>), Str(<<"b">>)>>),
  Arr(<<Arr(<<>>), Dict(<<>>), Arr(<<>>), Arr(<<Str(<<"a">>)>>)>>),
  Dict([x \in {<<"a">>, <<"b">>} |-> IF x = <<"a">> THEN Dict([y \in {<<"a">>, <<"c">>} |-> Str(y)]) ELSE Arr(<<Str(<<"a">>), Num(1)>>)]),
  Arr(<<<<"loop", 0, FALSE>>, Num(1)>>),
  Arr(<<Dict([y \in {<<"a">>} |-> <<"data", <<7>>, FALSE>>]), Dict([y \in {<<"a">>} |-> <<"data", <<7>>, FALSE>>])>>)
}
Plists == INSTANCE PropertyList WITH
  Base <- 4, Few <- 2, Deep <- 0, Wide <- {"é"}, Values <- PlistValues, Texts <- PlistTexts,
  Paths <- {{<<<<"a">> >>}, {<<<<"a">>, <<"a">> >>, <<<<"b">>, <<"a">> >>}, {<<<<"b">>, <<"1">> >>},
            {<<<<"0">>, <<"a">> >>}, {<<<<"0">> >>}},
  Formats <- {{}, {"xml"}, {"binary"}, {"openstep"}}, MaxDepth <- 2,
  value <- x1, data <- x2, done <- x3
----------------------------------------------------------------------------
Upto(S, n) == UNION {[1 .. k -> S] : k \in 0 .. n}
\* Bytes and bits, with 4, 8 and 3 for 2^20, 2^32 and 2^29.
Buffers == INSTANCE Bytes WITH
  Values <- {1}, Least <- 2, Low <- 4, High <- 8, Chunk <- 3, ClearFrom <- 6,
  Capacities <- {1, 3, 4}, Bucket <- 2, Round <- 4, Leaves <- FALSE, Overlaps <- FALSE,
  Haystacks <- Upto(1 .. 2, 5) \cup {<<1, 2, 1, 1, 2, 1, 2, 1>>}, Needles <- Upto(1 .. 2, 3),
  MaxLength <- 7, MaxCalls <- 2, kind <- x1, store <- x2, mean <- x3, calls <- x4
\* Heaps and trees.
Branches == INSTANCE Trees WITH
  Items <- {<<1, 1>>, <<1, 2>>, <<2, 1>>, <<3, 1>>}, Nodes <- 1 .. 3, Infos <- 1 .. 2,
  MaxCount <- 6, MaxCalls <- 4, kind <- x1, store <- x2, mean <- x3, calls <- x4
\* The parts of a URL: an address as a host, a colon that is no scheme's, a
\* semicolon, an escape that is no character's, and what has to be escaped.
Locators == INSTANCE URLComponents WITH
  Strings <- {"h://u:p@g:80/a/b?q=1#f", "//[a:b]:8", "h:a:b", "a/b:c?x?y#", "h://@g:08?#",
              "h:/a%20b;c%C3%A9", "//a@b@c", "h:%4"},
  Plain <- {"", "[a:b]", "é%20a:/b:?#@"}, Escaped <- {"a:b", "//%C3%A9"}, Ports <- {"80"},
  Queries <- {<<>>, <<<<"", "(nil)">>>>, <<<<"", "">>, <<"(nil)", "(nil)">>>>, <<<<"=", "%">>>>,
              <<<<"a", "b=c">>, <<"&", "(nil)">>, <<"(nil)", "é">>>>},
  MaxCalls <- 2, parts <- x1, mean <- x2, calls <- x3
----------------------------------------------------------------------------
MoreInit ==
  \/ part = "plists" /\ Plists!Init /\ Rest4
  \/ part = "buffers" /\ Buffers!Init /\ Rest5
  \/ part = "trees" /\ Branches!Init /\ Rest5
  \/ part = "locators" /\ Locators!Init /\ Rest4
MoreNext ==
  \/ part = "plists" /\ Plists!Next /\ UNCHANGED From4
  \/ part = "buffers" /\ Buffers!Next /\ UNCHANGED From5
  \/ part = "trees" /\ Branches!Next /\ UNCHANGED From5
  \/ part = "locators" /\ Locators!Next /\ UNCHANGED From4
============================================================================
