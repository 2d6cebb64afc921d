---------------------------- MODULE URLComponents ----------------------------
(* The parts of a URL, each of which is taken from the string when it is     *)
(* first asked for, or set (CFURLComponents.c), and the parser and the       *)
(* percent escapes under them (CFURLComponents_URIParser.c).  Characters are *)
(* those of the strings that are given; offsets begin at 0, as in the code.  *)
EXTENDS Integers, FiniteSets, Sequences, FiniteSetsExt, SequencesExt

CONSTANTS
  Strings,       \* those parts are made of in the beginning
  Plain, Escaped,\* what parts are set to, as it is meant and with escapes
  Ports,         \* what the port is set to, as it is printed
  Queries,       \* names with their values
  MaxCalls

VARIABLES parts, mean, calls

vars == <<parts, mean, calls>>

Nil == "(nil)"
Names == {"scheme", "user", "password", "host", "port", "path", "query", "fragment"}
\* Past the end there is nothing.
Span(s, from, end) == SubSeq(s, from + 1, IF end < Len(s) THEN end ELSE Len(s))
At(s, i) == Span(s, i, i + 1)
First(s, from, chars) ==
  LET hits == {i \in from .. Len(s) - 1 : At(s, i) \in chars} IN
  IF hits = {} THEN Len(s) ELSE Min(hits)
----------------------------------------------------------------------------
\* The table of what is allowed where: nothing of the first line anywhere.
Nowhere == {" ", "%", "^", "[", "]", "é"}
Delimiters == {":", "/", "?", "#", "@"}
Digits == {"0", "1", "2", "3", "4", "5", "6", "7", "8", "9"}
Letters == {"a", "b", "c", "d", "f", "g", "h", "p", "q", "u", "x", "A", "B", "C", "D"}
HexDigits == Digits \cup {"a", "b", "c", "d", "e", "f", "A", "B", "C", "D", "E", "F"}
Allowed(ch, name) ==
  CASE name = "scheme" -> ch \in Letters \cup Digits \cup {"+", "-", "."}
    [] name = "port" -> ch \in Digits
    [] name \in {"user", "password", "host"} -> ch \notin Nowhere \cup Delimiters
    [] name = "path" -> ch \notin Nowhere \cup {"?", "#"}
    [] OTHER -> ch \notin Nowhere \cup {"#"}

\* Of an escape only that two digits follow is checked; a host has colons.
ValidateComponent(s, name, escapes) ==
  \A i \in 0 .. Len(s) - 1 :
    LET Hex(k) == k < Len(s) /\ At(s, k) \in HexDigits IN
    \/ Allowed(At(s, i), name)
    \/ name = "host" /\ At(s, i) = ":"
    \/ escapes /\ At(s, i) = "%" /\ Hex(i + 1) /\ Hex(i + 2)

IsLiteral(host) == Len(host) >= 2 /\ At(host, 0) = "[" /\ At(host, Len(host) - 1) = "]"
Inside(host) == IF IsLiteral(host) THEN Span(host, 1, Len(host) - 1) ELSE host
----------------------------------------------------------------------------
\* The bytes of a character, as two digits each, and back.
Codes == {<<" ", "20">>, <<"%", "25">>, <<"^", "5E">>, <<"[", "5B">>, <<"]", "5D">>, <<":", "3A">>,
          <<"/", "2F">>, <<"?", "3F">>, <<"#", "23">>, <<"@", "40">>, <<";", "3B">>, <<"&", "26">>,
          <<"=", "3D">>, <<"a", "61">>}
EscapeOf(ch) ==
  IF ch = "é" THEN "%C3%A9" ELSE "%" \o (CHOOSE c \in Codes : c[1] = ch)[2]

\* All but the characters at the offsets kept are escaped.
AddPercentEncoding(s, kept) ==
  FoldLeft(LAMBDA out, i : out \o (IF i \in kept THEN At(s, i) ELSE EscapeOf(At(s, i))),
           "", [i \in 1 .. Len(s) |-> i - 1])
AllowedIn(s, name) == {i \in 0 .. Len(s) - 1 : Allowed(At(s, i), name)}
\* The colon is escaped up to the first slash of a path, the semicolon in all of
\* it; the brackets of an address and its colons are kept.
EncodedPart(s, name) ==
  AddPercentEncoding(s, AllowedIn(s, name))
EncodedAddress(s) ==
  AddPercentEncoding(s, AllowedIn(s, "host") \cup {i \in 0 .. Len(s) - 1 : At(s, i) = ":"})
EncodedPath(s, slash) ==
  AddPercentEncoding(s, {i \in AllowedIn(s, "path") : At(s, i) # ";" /\ (At(s, i) = ":" => i > slash)})
Encoded(s, name) ==
  CASE name = "path" -> EncodedPath(s, First(s, 0, {"/"}))
    [] name = "host" /\ IsLiteral(s) -> "[" \o EncodedAddress(Inside(s)) \o "]"
    [] OTHER -> EncodedPart(s, name)

\* Nil if an escape is none, or the bytes are not those of a string.
RECURSIVE Decode(_, _)
DecodedChar(s, i, code) ==
  LET known == {c \in Codes : c[2] = code}
  IN IF At(s, i) # "%" THEN At(s, i)
     ELSE IF code = "C3" THEN IF Span(s, i + 3, i + 6) = "%A9" THEN "é" ELSE Nil
     ELSE IF i + 2 < Len(s) /\ known # {} THEN (CHOOSE c \in known : TRUE)[1] ELSE Nil
Before(ch, rest) == IF ch = Nil \/ rest = Nil THEN Nil ELSE ch \o rest
DecodeFrom(s, i, code) ==
  Before(DecodedChar(s, i, code),
         Decode(s, IF At(s, i) # "%" THEN i + 1 ELSE IF code = "C3" THEN i + 6 ELSE i + 3))
Decode(s, i) == IF i >= Len(s) THEN "" ELSE DecodeFrom(s, i, Span(s, i + 1, i + 3))
RemovePercentEncoding(s) == Decode(s, 0)
----------------------------------------------------------------------------
\* Where the parts of a string begin, of those that there are.
AuthorityAt(s, from, end, sign, colon, host, stop) ==
  (IF sign < end THEN {<<"user", from>>} ELSE {})
    \cup (IF sign < end /\ colon < sign THEN {<<"password", colon + 1>>} ELSE {})
    \cup {<<"host", host>>}
    \cup (IF stop < end /\ At(s, stop) = ":" THEN {<<"port", stop + 1>>} ELSE {})
ParseHost(s, from, end, sign, host) ==
  AuthorityAt(s, from, end, sign, First(s, from, {":"}), host,
              Min({end, IF At(s, host) = "[" THEN First(s, host, {"]"}) + 1 ELSE First(s, host, {":"})}))
ParseUser(s, from, end, sign) == ParseHost(s, from, end, sign, IF sign < end THEN sign + 1 ELSE from)
ParseAuthority(s, from, end) == ParseUser(s, from, end, First(s, from, {"@"}))

ReferenceAt(s, scheme, authority, path, query, hash) ==
  [at |-> scheme \cup authority \cup {<<"path", path>>}
            \cup (IF At(s, query) = "?" THEN {<<"query", query + 1>>} ELSE {})
            \cup (IF hash < Len(s) THEN {<<"fragment", hash + 1>>} ELSE {}),
   param |-> First(s, path, {";"}) < query, end |-> Len(s)]
ParseFragment(s, scheme, authority, path, query) ==
  ReferenceAt(s, scheme, authority, path, query, First(s, query, {"#"}))
ParsePath(s, scheme, authority, path) ==
  ParseFragment(s, scheme, authority, path, First(s, path, {"?", "#"}))
ParseAuthorityTo(s, scheme, start, path) ==
  ParsePath(s, scheme, IF Span(s, start, start + 2) = "//" THEN ParseAuthority(s, start + 2, path) ELSE {}, path)
ParseAfterScheme(s, scheme, start) ==
  ParseAuthorityTo(s, scheme, start,
    IF Span(s, start, start + 2) = "//" THEN First(s, start + 2, {"/", "?", "#"}) ELSE start)
ParseSchemeTo(s, colon) ==
  IF At(s, colon) = ":" /\ colon > 0 THEN ParseAfterScheme(s, {<<"scheme", 0>>}, colon + 1)
  ELSE ParseAfterScheme(s, {}, 0)
ParseURIReference(s) ==
  ParseSchemeTo(s, CHOOSE i \in 0 .. Len(s) : /\ i < Len(s) => ~Allowed(At(s, i), "scheme")
                                              /\ \A k \in 0 .. i - 1 : Allowed(At(s, k), "scheme"))

Has(info, name) == \E x \in info.at : x[1] = name
Offset(info, name) == (CHOOSE x \in info.at : x[1] = name)[2]

\* Each range ends before what separates it from the part that follows.
GetSchemeRange(info) ==
  <<0, IF Has(info, "user") THEN Offset(info, "user") - 3
       ELSE IF Has(info, "host") THEN Offset(info, "host") - 3
       ELSE Offset(info, "path") - 1>>
GetUserRange(info) ==
  <<Offset(info, "user"), (IF Has(info, "password") THEN Offset(info, "password")
                           ELSE Offset(info, "host")) - 1>>
GetPasswordRange(info) == <<Offset(info, "password"), Offset(info, "host") - 1>>
GetHostRange(info) ==
  <<Offset(info, "host"), IF Has(info, "port") THEN Offset(info, "port") - 1 ELSE Offset(info, "path")>>
GetPortRange(info) == <<Offset(info, "port"), Offset(info, "path")>>
GetPathRange(info) ==
  <<Offset(info, "path"), IF Has(info, "query") THEN Offset(info, "query") - 1
                          ELSE IF Has(info, "fragment") THEN Offset(info, "fragment") - 1
                          ELSE info.end>>
GetQueryRange(info) ==
  <<Offset(info, "query"), IF Has(info, "fragment") THEN Offset(info, "fragment") - 1 ELSE info.end>>
GetFragmentRange(info) == <<Offset(info, "fragment"), info.end>>
NotFound == <<-1, -1>>
GetRange(info, name) ==
  IF ~Has(info, name) THEN NotFound
  ELSE CASE name = "scheme" -> GetSchemeRange(info)
         [] name = "user" -> GetUserRange(info)
         [] name = "password" -> GetPasswordRange(info)
         [] name = "host" -> GetHostRange(info)
         [] name = "port" -> GetPortRange(info)
         [] name = "path" -> GetPathRange(info)
         [] name = "query" -> GetQueryRange(info)
         [] OTHER -> GetFragmentRange(info)
InRange(s, range) == IF range = NotFound THEN Nil ELSE Span(s, range[1], range[2])

Part(s, info, name) == InRange(s, GetRange(info, name))
PartIsValid(part, name) ==
  part # Nil => ValidateComponent(IF name = "host" THEN Inside(part) ELSE part, name, name # "port")
PartsAreValid(s, info) == \A name \in Names \ {"scheme"} : PartIsValid(Part(s, info, name), name)
URLStringIsValid(s) == PartsAreValid(s, ParseURIReference(s))
----------------------------------------------------------------------------
\* A port as it is printed, after it was read: without leading zeros, and none
\* at all if it was empty.
RECURSIVE Number(_)
Number(s) == IF Len(s) > 1 /\ At(s, 0) = "0" THEN Number(Span(s, 1, Len(s))) ELSE s
PortTaken(part) == IF part \in {"", Nil} THEN Nil ELSE Number(part)
PartTaken(part, name) == IF name = "port" THEN PortTaken(part) ELSE part
TakenFrom(s, name) == PartTaken(Part(s, ParseURIReference(s), name), name)

\* What is asked for is taken from the string, once.
Got(c, name) ==
  IF c.valid[name] THEN c
  ELSE [c EXCEPT !.valid[name] = TRUE, !.value[name] = TakenFrom(c.string, name)]
OrEmpty(value, name) == IF name = "path" /\ value = Nil THEN "" ELSE value
CopyPercentEncoded(c, name) == OrEmpty(Got(c, name).value[name], name)
AsMeant(value, name) ==
  IF value = Nil \/ name \in {"scheme", "port"} THEN value ELSE RemovePercentEncoding(value)
CopyPart(c, name) == OrEmpty(AsMeant(Got(c, name).value[name], name), name)

Put(c, name, value) == [c EXCEPT !.valid[name] = TRUE, !.value[name] = value]
SetPart(c, name, s) == Put(c, name, IF s = Nil THEN Nil ELSE Encoded(s, name))
SetScheme(c, s) ==
  IF s = Nil \/ (s # "" /\ At(s, 0) \in Letters /\ ValidateComponent(s, "scheme", FALSE))
  THEN Put(c, "scheme", s) ELSE c
SetPercentEncoded(c, name, s) ==
  IF s = Nil \/ ValidateComponent(IF name = "host" THEN Inside(s) ELSE s, name, TRUE)
  THEN Put(c, name, s) ELSE c

Create == [string |-> Nil, valid |-> [n \in Names |-> TRUE], value |-> [n \in Names |-> Nil]]
\* A path with a semicolon is at once decoded, and encoded again.
WithPathEncoded(c, path) ==
  SetPart([c EXCEPT !.valid["path"] = TRUE, !.value["path"] = path], "path", OrEmpty(AsMeant(path, "path"), "path"))
CreateOf(s, info) ==
  LET new == [string |-> s, valid |-> [n \in Names |-> FALSE], value |-> [n \in Names |-> Nil]] IN
  IF info.param THEN WithPathEncoded(new, Part(s, info, "path")) ELSE new
CreateWithString(s) == CreateOf(s, ParseURIReference(s))

\* Everything is taken from the string before it is put together.
Filled(c) == FoldSet(LAMBDA name, acc : Got(acc, name), c, Names)
Around(before, part, after) == IF part = Nil THEN "" ELSE before \o part \o after
StringOf(v, path) ==
  LET authority == \E n \in {"user", "password", "host", "port"} : v[n] # Nil
  IN IF (authority /\ path # "" /\ At(path, 0) # "/") \/ (~authority /\ Span(path, 0, 2) = "//") THEN Nil
     ELSE Around("", v["scheme"], ":") \o (IF authority THEN "//" ELSE "")
            \o Around("", v["user"], "") \o Around(":", v["password"], "")
            \o (IF v["user"] # Nil \/ v["password"] # Nil THEN "@" ELSE "")
            \o Around("", v["host"], "") \o Around(":", v["port"], "") \o path
            \o Around("?", v["query"], "") \o Around("#", v["fragment"], "")
StringOfValues(v) == StringOf(v, OrEmpty(v["path"], "path"))
CopyString(c) == StringOfValues(Filled(c).value)

\* As long as nothing was asked for or set the string is the one that was given.
RangesIn(info) == [n \in Names |-> GetRange(info, n)]
RangesOf(c) ==
  RangesIn(ParseURIReference(IF \E n \in Names : c.valid[n] THEN CopyString(c) ELSE c.string))

\* Names and values are apart at the first equals sign.
RECURSIVE ItemsOf(_)
ItemUpTo(query, end, equals) ==
  LET from == IF equals < end THEN equals ELSE end
  IN <<RemovePercentEncoding(Span(query, 0, from)),
       IF equals < end THEN RemovePercentEncoding(Span(query, equals + 1, end)) ELSE Nil>>
ItemsUpTo(query, end) ==
  <<ItemUpTo(query, end, First(query, 0, {"="}))>>
    \o (IF end = Len(query) THEN <<>> ELSE ItemsOf(Span(query, end + 1, Len(query))))
ItemsOf(query) == ItemsUpTo(query, First(query, 0, {"&"}))
ItemsIn(query) == IF query \in {"", Nil} THEN <<>> ELSE ItemsOf(query)
CopyQueryItems(c) == ItemsIn(CopyPercentEncoded(c, "query"))
SetQueryItems(c, items) ==
  LET InItem(s) == {i \in AllowedIn(s, "query") : At(s, i) \notin {"&", "="}}
      One(item) == (IF item[1] = Nil THEN "" ELSE AddPercentEncoding(item[1], InItem(item[1])))
                     \o (IF item[2] = Nil THEN "" ELSE "=" \o AddPercentEncoding(item[2], InItem(item[2])))
      Joined(out, i) == out \o (IF i = 1 THEN "" ELSE "&") \o One(items[i])
  IN SetPercentEncoded(c, "query", FoldLeft(Joined, "", [i \in DOMAIN items |-> i]))
----------------------------------------------------------------------------
Init ==
  /\ calls = 0
  /\ parts \in {Create} \cup {CreateWithString(s) : s \in {t \in Strings : URLStringIsValid(t)}}
  /\ mean = [n \in Names |-> CopyPart(parts, n)]

SetTo(name, new, plain) == parts' = new /\ mean' = [mean EXCEPT ![name] = plain]
Next ==
  /\ calls < MaxCalls /\ calls' = calls + 1
  /\ \/ \E name \in Names : parts' = Got(parts, name) /\ UNCHANGED mean
     \/ parts' = Filled(parts) /\ UNCHANGED mean
     \/ \E name \in Names \ {"scheme", "port"}, s \in Plain \cup {Nil} :
          SetTo(name, SetPart(parts, name, s), IF name = "path" /\ s = Nil THEN "" ELSE s)
     \/ \E name \in Names \ {"scheme", "port"}, s \in Escaped :
          LET new == SetPercentEncoded(parts, name, s) IN
          SetTo(name, new, IF new = parts THEN mean[name]
                           ELSE IF name = "path" /\ RemovePercentEncoding(s) = Nil THEN ""
                           ELSE RemovePercentEncoding(s))
     \/ \E s \in {"c", "1c", "c:", Nil} :
          SetTo("scheme", SetScheme(parts, s), IF s \in {"c", Nil} THEN s ELSE mean["scheme"])
     \/ \E s \in Ports \cup {Nil} : SetTo("port", Put(parts, "port", s), s)
     \/ \E items \in Queries :
          /\ parts' = SetQueryItems(parts, items)
          /\ mean' = [mean EXCEPT !["query"] = RemovePercentEncoding(parts'.value["query"])]

Spec == Init /\ [][Next]_vars
----------------------------------------------------------------------------
TypeOK ==
  /\ calls \in 0 .. MaxCalls
  /\ parts.valid \in [Names -> BOOLEAN]
  /\ \A n \in Names : ~parts.valid[n] => parts.string # Nil /\ parts.value[n] = Nil

\* Every part is what it was set to, or what the string has there, whatever was
\* asked for before and however it had to be escaped (CFURLComponents.c:36-44).
PartsAreThoseSet == \A n \in Names : CopyPart(parts, n) = mean[n]

\* Set with escapes, or left without its scheme, a path may begin as if it had
\* one, and a host end as if a port followed.
Colon(part, n) ==
  /\ part # Nil /\ First(part, 0, {":"}) < First(part, 0, {"/"})
  /\ part # Encoded(OrEmpty(AsMeant(part, n), n), n)
Misread(v) ==
  \/ Colon(v["path"], "path") /\ \A n \in {"scheme", "user", "password", "host", "port"} : v[n] = Nil
  \/ Colon(v["host"], "host") /\ ~IsLiteral(v["host"])
IsMisread(c) == Misread(Filled(c).value)

\* The string that is put together is legal and has the parts, none of which
\* runs into another; only an authority has a host, though it may be empty, and
\* a password a user (CFURLComponents.c:355-361).
IsPart(n, part) ==
  LET empty == mean[n] = Nil /\ part = ""
  IN \/ part = mean[n]
     \/ n = "host" /\ empty /\ \E o \in {"user", "password", "port"} : mean[o] # Nil
     \/ n = "user" /\ empty /\ mean["password"] # Nil
HasTheParts(s) ==
  s # Nil /\ ~IsMisread(parts) =>
    URLStringIsValid(s) /\ \A n \in Names : IsPart(n, CopyPart(CreateWithString(s), n))
StringHasTheParts == HasTheParts(CopyString(parts))

\* Where a part is said to be in the string, it is; of an empty port or one with
\* leading zeros that holds only after the parts were asked for.
IsSaid(part, said) == part = said \/ (part = "" /\ said = Nil)
RangesAreOf(s, ranges) ==
  LET asGiven == (\A n \in Names : ~parts.valid[n]) /\ s # parts.string
  IN s # Nil /\ ~asGiven /\ ~IsMisread(parts) =>
       \A n \in Names : IsSaid(InRange(s, ranges[n]), CopyPercentEncoded(parts, n))
RangesAreOfTheString == RangesAreOf(CopyString(parts), RangesOf(parts))

\* A string that was not changed is put together as it was, but for its port,
\* and a semicolon in its path (CFURLComponents.c:178).
UnchangedStringIsKept ==
  calls = 0 /\ parts.string # Nil =>
    LET info == ParseURIReference(parts.string)
        port == InRange(parts.string, GetRange(info, "port"))
    IN ~info.param /\ (port = Nil \/ (port # "" /\ port = Number(port))) => CopyString(parts) = parts.string

\* The items that were set are those that are found, whatever they are made of.
QueryItemsAreThoseSet ==
  calls = 0 =>
    \A items \in Queries :
      LET found == CopyQueryItems(SetQueryItems(parts, items))
          AsFound(item) == <<IF item[1] = Nil THEN "" ELSE item[1], item[2]>>
      IN found = [i \in DOMAIN items |-> AsFound(items[i])]
           \/ (found = <<>> /\ items = <<<<"", Nil>>>>)
=============================================================================
