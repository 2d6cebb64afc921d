--------------------------------- MODULE URL ---------------------------------
(* URLs (CFURL.c): a string, its base, and the ranges the parser found in    *)
(* it, from which every accessor reads and which every change of a path      *)
(* relies on.  Positions count from 0 and a range is <<location, length>>,   *)
(* as in the code.  The character ^ stands for a letter that is not ASCII    *)
(* and takes two bytes, and | for NUL.                                       *)
EXTENDS Integers, FiniteSets, FiniteSetsExt, Sequences, SequencesExt

CONSTANTS
  Absolutes,  \* the strings of the URLs there are first
  Relatives,  \* the strings that are made relative to a URL
  Pieces,     \* the path components that are appended
  Extensions, \* the path extensions that are appended
  Paths,      \* POSIX paths
  Drives,     \* Windows paths
  MaxSize,    \* bound: the length of a string
  MaxCalls    \* bound: the number of calls

VARIABLES url, calls

Null == "NULL"
Nul == "|"
At(s, i) == SubSeq(s, i + 1, i + 1)
From(s, i) == SubSeq(s, i + 1, Len(s))
UpTo(s, i) == SubSeq(s, 1, Min({i, Len(s)}))
Part(s, range) == SubSeq(s, range[1] + 1, range[1] + range[2])
Replaced(s, range, new) ==
  SubSeq(s, 1, range[1]) \o new \o From(s, range[1] + range[2])
Begins(s, p) == Len(p) <= Len(s) /\ SubSeq(s, 1, Len(p)) = p
Ends(s, c) == s # "" /\ At(s, Len(s) - 1) = c
Chars(s) == {At(s, i) : i \in 0 .. Len(s) - 1}

Letters == Chars("abcdefghijklmnopqrstuvwxyzABCDEFGHIJKLMNOPQRSTUVWXYZ")
Digits == Chars("0123456789")
Hex == Digits \cup Chars("abcdefABCDEF")
SchemeChars == Letters \cup Digits \cup Chars("+-.")
LegalChars == SchemeChars \cup Chars("!$&'()*,/:;=?@_~")
PathChars == LegalChars \ {";", "?"}

\* The first of the characters from `from` to `to`, or `to`.
Find(s, chars, from, to) ==
  Min({i \in from .. to - 1 : At(s, i) \in chars} \cup {to})
FindBack(s, c, from, to) ==
  Max({i \in from .. to - 1 : At(s, i) = c} \cup {from - 1})
----------------------------------------------------------------------------
\* Percent escapes, of the bytes of a character.
Escape(c) ==
  CASE c = " " -> "%20" [] c = "#" -> "%23" [] c = "%" -> "%25" [] c = "/" -> "%2F"
    [] c = ";" -> "%3B" [] c = "?" -> "%3F" [] c = "@" -> "%40" [] c = "[" -> "%5B"
    [] c = "]" -> "%5D" [] c = "^" -> "%C3%A9" [] c = "." -> "%2E" [] c = Nul -> "%00" [] OTHER -> c
Escapable == Chars(" #%/;?@[]^.") \cup {Nul}
RECURSIVE Escaped(_, _)
Escaped(s, keeps) ==
  IF s = "" THEN ""
  ELSE (IF At(s, 0) \in keeps THEN At(s, 0) ELSE Escape(At(s, 0))) \o Escaped(From(s, 1), keeps)
AddingPercentEscapes(s, also) == Escaped(s, LegalChars \ also)

\* All escapes are replaced, unless one is cut short or is no character.
RECURSIVE Unescaped(_)
Unescaped(s) ==
  IF s = "" THEN ""
  ELSE LET codes == {code \in Escapable : Begins(s, Escape(code))}
           c == IF At(s, 0) = "%" THEN CHOOSE code \in codes : TRUE ELSE At(s, 0)
           n == IF At(s, 0) = "%" THEN Len(Escape(c)) ELSE 1
           rest == Unescaped(From(s, n))
       IN IF rest = Null \/ (At(s, 0) = "%" /\ codes = {}) THEN Null ELSE c \o rest
----------------------------------------------------------------------------
Order == <<"scheme", "user", "password", "host", "port", "path", "parameters", "query",
           "fragment">>
Components == {Order[i] : i \in DOMAIN Order}
NetLocation == {"user", "password", "host", "port"}
Specifier == {"parameters", "query", "fragment"}
None == <<-1, 0>>
Range_(has, from, to) == IF has THEN <<from, to - from>> ELSE None
Has(u, set) == \E c \in set : u.ranges[c] # None

\* The last component of a path is empty, "." or "..".
EndsInDirectory(path) ==
  \/ Ends(path, "/") \/ path \in {".", ".."}
  \/ Ends(path, ".") /\ At(path, Len(path) - 2) = "/"
  \/ Len(path) > 2 /\ Ends(path, ".") /\ At(path, Len(path) - 2) = "." /\ At(path, Len(path) - 3) = "/"

\* The components, by RFC 1808: the fragment, the scheme, the net location, the
\* query, the parameters; what is left is the path.
Hierarchy(s, hash, scheme, net, end, query, semicolon, baseIsDirectory) ==
  LET path == semicolon # end \/ net["host"] # None
  IN [ranges |-> [c \in Components |->
        CASE c = "scheme" -> scheme
          [] c \in NetLocation -> net[c]
          [] c = "path" -> Range_(path, end, semicolon)
          [] c = "parameters" -> Range_(semicolon < query, semicolon + 1, query)
          [] c = "query" -> Range_(query < hash, query + 1, hash)
          [] c = "fragment" -> Range_(hash < Len(s), hash + 1, Len(s))],
      decomposable |-> TRUE,
      directory |-> path /\ IF semicolon # end THEN EndsInDirectory(Part(s, <<end, semicolon - end>>))
                            ELSE baseIsDirectory,
      plain |-> path /\ semicolon # end
                /\ \A i \in end .. semicolon - 1 : At(s, i) # "%"]
ParseQuery(s, hash, scheme, net, end, query, baseIsDirectory) ==
  Hierarchy(s, hash, scheme, net, end, query, Find(s, {";"}, end, query), baseIsDirectory)
\* The colon of a port is in no address in brackets.
PortColon(s, host, end) ==
  LET Bracketed(i) == \E j \in host .. i : At(s, j) = "[" /\ \A k \in j .. i : At(s, k) # "]"
  IN Min({i \in host .. end - 1 : At(s, i) = ":" /\ ~ Bracketed(i)} \cup {end})
HostRanges(from, at, end, password, host, port) ==
  [c \in NetLocation |->
     CASE c = "user" -> Range_(at < end, from, password)
       [] c = "password" -> Range_(password < at /\ at < end, password + 1, at)
       [] c = "host" -> Range_(end > from, host, port)
       [] c = "port" -> Range_(end > from /\ port < end, port + 1, end)]
ParseHost(s, from, at, end) ==
  LET host == IF at < end THEN at + 1 ELSE from
  IN HostRanges(from, at, end, Find(s, {":"}, from, at), host, PortColon(s, host, end))
ParseLocation(s, hash, scheme, from, end, baseIsDirectory) ==
  ParseQuery(s, hash, scheme, ParseHost(s, from, IF end > from THEN Find(s, {"@"}, from, end) ELSE end, end),
             end, Find(s, {"?"}, end, hash), baseIsDirectory)
ParseScheme(s, hash, colon, baseIsDirectory) ==
  LET scheme == colon < hash /\ At(s, colon) = ":"
      from == IF scheme THEN colon + 1 ELSE 0
      slashes == from + 2 <= hash /\ Part(s, <<from, 2>>) = "//"
  IN IF scheme /\ (from = hash \/ At(s, from) # "/")
     THEN [ranges |-> [c \in Components |-> Range_(c = "scheme", 0, colon)],
           decomposable |-> FALSE, directory |-> FALSE, plain |-> FALSE]
     ELSE ParseLocation(s, hash, Range_(scheme, 0, colon), from + 2,
                        IF slashes THEN Find(s, {"/", "?"}, from + 2, hash) ELSE from, baseIsDirectory)
ParseBefore(s, hash, baseIsDirectory) ==
  ParseScheme(s, hash, Min({i \in 0 .. hash - 1 : At(s, i) \notin SchemeChars} \cup {hash}), baseIsDirectory)
Parse(s, baseIsDirectory) == ParseBefore(s, Find(s, {"#"}, 0, Len(s)), baseIsDirectory)

\* A URL whose path is "plain" needs no unescaping; one is "canonical" that was
\* made from a file path.
NoBase == [string |-> Null]
URL(s, base, p, canonical) ==
  [string |-> s, base |-> base, ranges |-> p.ranges, decomposable |-> p.decomposable,
   directory |-> p.directory, plain |-> p.plain, canonical |-> canonical]
HasBase(u) == u.base # NoBase
HasDirectoryPath(u) ==
  IF ~HasBase(u) \/ Has(u, NetLocation \cup {"path"}) THEN u.directory ELSE u.base.directory

\* What follows a letter and scheme characters up to a colon has no base.
IsAbsolute(s) ==
  /\ s # "" /\ At(s, 0) \in Letters
  /\ \E i \in 0 .. Len(s) - 1 : At(s, i) = ":" /\ \A j \in 0 .. i - 1 : At(s, j) \in SchemeChars

\* What the string of a URL is without the characters that no URL may have.
ShouldEscape(s, c, i) ==
  LET ch == At(s, i)
  IN CASE ch \in LegalChars -> c \in {"user", "password"} /\ ch \in {"/", "?", "@"}
       [] ch = "%" /\ i + 2 < Len(s) -> ~({At(s, i + 1), At(s, i + 2)} \subseteq Hex)
       [] c = "host" /\ ch = "[" -> i # 0
       [] c = "host" /\ ch = "]" -> i # Len(s) - 1
       [] OTHER -> TRUE
Corrected(s, c) ==
  FoldLeft(LAMBDA out, i :
             out \o IF ShouldEscape(s, c, i) THEN Escape(At(s, i)) ELSE At(s, i),
           "", [i \in 1 .. Len(s) |-> i - 1])
Copied(u, c) ==
  IF u.ranges[c] = None THEN Null ELSE Corrected(Part(u.string, u.ranges[c]), c)
GetString(u) ==
  LET s == u.string
      opaque == u.ranges["scheme"][2] + 1
      Step(done, c) ==
        LET r == u.ranges[c]
        IN IF r = None THEN done
           ELSE <<done[1] \o SubSeq(s, done[2] + 1, r[1]) \o Corrected(Part(s, r), c),
                  r[1] + r[2]>>
      all == FoldLeft(Step, <<"", 0>>, Tail(Order))
  IN IF u.decomposable THEN all[1] \o From(s, all[2])
     ELSE SubSeq(s, 1, opaque) \o Corrected(From(s, opaque), "none")
IsLegal(s) ==
  /\ \A i \in 0 .. Len(s) - 1 :
       \/ At(s, i) \in LegalChars \cup {"[", "]", "#"}
       \/ At(s, i) = "%" /\ i + 2 < Len(s) /\ {At(s, i + 1), At(s, i + 2)} \subseteq Hex
  /\ Cardinality({i \in 0 .. Len(s) - 1 : At(s, i) = "#"}) <= 1
----------------------------------------------------------------------------
\* A path without its "." and "<component>/.."; and, if that is asked for,
\* without the ".." that are left in front.  A relative path of which nothing
\* would be left gets a character too many, NUL.
RECURSIVE Compacted(_, _, _)
Compacted(p, i, strip) ==
  LET end == Len(p)
      dot == i < end /\ At(p, i) = "."
      here == dot /\ i + 1 < end /\ At(p, i + 1) = "/"
      up == dot /\ i + 1 < end /\ At(p, i + 1) = "." /\ (i + 2 = end \/ At(p, i + 2) = "/")
      last == FindBack(p, "/", 0, i - 1) + 1
      genuine == up /\ i >= 2 /\ last # i /\ ~(i - last = 3 /\ Part(p, <<last, 2>>) = "..")
  IN CASE i >= end -> p
       [] dot /\ i + 1 = end -> IF i = 0 THEN p ELSE SubSeq(p, 1, i)
       [] here -> IF i = 0 /\ end = 2 THEN p
                  ELSE Compacted(Replaced(p, <<i, 2>>, ""), i, strip)
       [] genuine /\ i + 2 # end -> Compacted(Replaced(p, <<last, i + 3 - last>>, ""), last, strip)
       [] genuine -> IF last # 0 THEN SubSeq(p, 1, last) ELSE "./" \o Nul
       [] up /\ i < 2 /\ strip ->
            CASE i + 3 = end -> p
              [] i + 2 = end -> SubSeq(p, 1, i - 1)
              [] OTHER -> Compacted(Replaced(p, <<i, 3>>, ""), i, strip)
       [] OTHER -> Compacted(p, Find(p, {"/"}, i, end) + 1, strip)
WithoutTrailing(p) == IF Len(p) > 1 /\ Ends(p, "/") THEN SubSeq(p, 1, Len(p) - 1) ELSE p

NetLocationOf(u) ==
  LET there == {u.ranges[c] : c \in NetLocation} \ {None}
      from == Min({r[1] : r \in there})
  IN IF there = {} THEN None ELSE <<from, Max({r[1] + r[2] : r \in there}) - from>>
\* A component with what stands before it.
Marked(u, c, mark) ==
  IF u.ranges[c] = None THEN "" ELSE mark \o Part(u.string, u.ranges[c])
SpecifierOf(u) ==
  IF ~Has(u, Specifier) THEN ""
  ELSE From(u.string, Min({u.ranges[c][1] : c \in {c \in Specifier : u.ranges[c] # None}}) - 1)

\* A path against that of the base.
ResolvedPath_All(path, base) == Compacted(base \o "/" \o path, 0, FALSE)
ResolvedPath(path, base) ==
  CASE base = "" -> (IF At(path, 0) = "/" THEN "" ELSE "/") \o path
    [] At(path, 0) = "/" -> path
    [] OTHER -> Compacted(SubSeq(base, 1, FindBack(base, "/", 0, Len(base)) + 1) \o path, 0, FALSE)
Resolved(u, base) ==
  LET path == IF u.ranges["path"] = None THEN "" ELSE Part(u.string, u.ranges["path"])
      basePath == IF base.ranges["path"] = None THEN "" ELSE Part(base.string, base.ranges["path"])
      net == NetLocationOf(base)
      scheme == IF base.ranges["scheme"] = None THEN ""
                ELSE Part(base.string, base.ranges["scheme"]) \o ":"
  IN IF Has(u, NetLocation) THEN scheme \o u.string
     ELSE scheme \o "//" \o (IF net = None THEN "" ELSE Part(base.string, net)) \o
          CASE Has(u, {"path"}) ->
                 ResolvedPath(path, basePath) \o From(u.string, u.ranges["path"][1] + Len(path))
            [] ~Has(u, Specifier \cup {"path"}) -> basePath \o SpecifierOf(base)
            [] OTHER ->
                 basePath \o
                 IF Has(u, {"parameters"}) THEN SpecifierOf(u)
                 ELSE Marked(base, "parameters", ";")
                      \o Marked(IF Has(u, {"query"}) THEN u ELSE base, "query", "?")
                      \o Marked(u, "fragment", "#")

Parsed(s) == URL(s, NoBase, Parse(s, FALSE), FALSE)
Absolute(u) == IF HasBase(u) THEN Parsed(Resolved(u, u.base)) ELSE u
Create(s, base) ==
  IF base = NoBase \/ IsAbsolute(s) THEN Parsed(s)
  ELSE URL(s, Absolute(base), Parse(s, HasDirectoryPath(base)), FALSE)
----------------------------------------------------------------------------
\* What a URL does not have it has of its base, as far as nothing before it is
\* its own.
Inherited(u, c) ==
  LET before == CASE c \in NetLocation -> NetLocation \cup {"scheme"}
                  [] c = "parameters" -> NetLocation \cup {"scheme", "path"}
                  [] c = "query" -> NetLocation \cup {"scheme", "path", "parameters"}
                  [] OTHER -> {"scheme"}
  IN IF u.ranges[c] # None \/ ~HasBase(u) \/ Has(u, before) \/ ~u.decomposable
     THEN Copied(u, c) ELSE Copied(u.base, c)
IsFileURL(u) == Copied(IF HasBase(u) THEN u.base ELSE u, "scheme") = "file"

\* What follows the path: of the string, of the sanitized one at the same place,
\* or of that one parsed anew.
Differs(u, set) == \E c \in set : u.ranges[c] # None /\ Copied(u, c) # Part(u.string, u.ranges[c])
SpecifierAt(u, sanitized, first) ==
  LET at == u.ranges[first][1] - 1
  IN CASE ~Differs(u, Specifier) -> From(u.string, at)
       [] ~Differs(u, Components \ Specifier) -> From(sanitized, at)
       [] OTHER -> From(sanitized, Parse(sanitized, FALSE).ranges[first][1] - 1)
FirstSpecifier(u) ==
  CHOOSE c \in Specifier : u.ranges[c] # None
    /\ \A d \in Specifier : u.ranges[d] # None => u.ranges[c][1] <= u.ranges[d][1]
ResourceSpecifier(u) ==
  CASE ~u.decomposable -> From(GetString(u), u.ranges["scheme"][2] + 1)
    [] ~Has(u, Specifier) -> Null
    [] OTHER -> SpecifierAt(u, GetString(u), FirstSpecifier(u))

\* The range of some components, which are next to each other, and that range
\* with the separators on both sides; or where they would be inserted.
Place(c) == CHOOSE i \in DOMAIN Order : Order[i] = c
EndOf(r) == r[1] + r[2]
RangeOf(u, set) ==
  LET there == {u.ranges[c] : c \in set} \ {None}
      Near(i) == IF i \in DOMAIN Order THEN u.ranges[Order[i]] ELSE None
      before == {Near(i) : i \in 1 .. Min({Place(c) : c \in set}) - 1} \ {None}
      after == {Near(i) : i \in Max({Place(c) : c \in set}) + 1 .. Len(Order)} \ {None}
      from == Min({r[1] : r \in there})
      to == Max({EndOf(r) : r \in there})
      outer == IF before = {} THEN 0 ELSE Max({EndOf(r) : r \in before})
      scheme == u.ranges["scheme"]
      insertion ==
        CASE before = {} -> 0
          [] before = {scheme} ->
               scheme[2] + IF u.ranges["path"][1] = scheme[2] + 1 THEN 1 ELSE 3
          [] OTHER -> outer
  IN IF there = {} THEN [range |-> None, with |-> <<insertion, 0>>]
     ELSE [range |-> <<from, to - from>>,
           with |-> <<outer, (IF after = {} THEN to ELSE Min({r[1] : r \in after})) - outer>>]
----------------------------------------------------------------------------
\* The components of a URL, and a string of components: a port is a number, or
\* -1, and "//" stands after the scheme, whether there is a host or not.
RECURSIVE Number(_, _)
Number(s, n) ==
  IF s = "" THEN n
  ELSE Number(From(s, 1), 10 * n + CHOOSE d \in 0 .. 9 : ToString(d) = At(s, 0))
PortNumber(u) ==
  LET port == Part(u.string, u.ranges["port"])
  IN IF u.ranges["port"] = None \/ port = "" \/ ~(Chars(port) \subseteq Digits) THEN -1
     ELSE Number(port, 0)
Decomposed(u) ==
  [c \in Components |->
     CASE c = "scheme" /\ HasBase(u) -> Null
       [] c = "port" -> IF PortNumber(u) = -1 THEN Null ELSE ToString(PortNumber(u))
       [] OTHER -> Copied(u, c)]
Composed(d) ==
  LET Before(c, mark) == IF d[c] = Null THEN "" ELSE mark \o d[c]
      After(c, mark) == IF d[c] = Null THEN "" ELSE d[c] \o mark
      first == \E c \in NetLocation \cup {"scheme"} : d[c] # Null
      user == IF d["user"] = Null THEN "" ELSE d["user"] \o Before("password", ":") \o "@"
  IN After("scheme", "://") \o user \o After("host", "") \o Before("port", ":")
     \o (IF first /\ d["path"] # "" /\ (d["path"] = Null \/ At(d["path"], 0) # "/") THEN "/" ELSE "")
     \o After("path", "") \o Before("parameters", ";") \o Before("query", "?")
     \o Before("fragment", "#")
----------------------------------------------------------------------------
\* The last component of the path, without a slash at its end.
LastRange(u) ==
  LET r == u.ranges["path"]
      end == IF r[2] > 1 /\ At(u.string, EndOf(r) - 1) = "/" THEN EndOf(r) - 1 ELSE EndOf(r)
      from == FindBack(u.string, "/", r[1], end) + 1
  IN IF r[2] <= 0 \/ Part(u.string, r) = "/" THEN r ELSE <<from, end - from>>
NameAt(u, name) == IF name = "" \/ u.plain \/ name = "/" THEN name ELSE Unescaped(name)
LastComponent(u) == NameAt(u, Part(u.string, LastRange(u)))

\* What follows the last dot, if that is neither first nor last and no space
\* comes after it; an extension that is appended may have a dot itself.
InvalidInExtension == {" ", "/"}
Dot(name) == FindBack(name, ".", 0, Len(name))
HasExtension(name) ==
  Dot(name) >= 1 /\ Dot(name) < Len(name) - 1
  /\ Chars(From(name, Dot(name) + 1)) \cap InvalidInExtension = {}
ExtensionOf(name) == IF HasExtension(name) THEN From(name, Dot(name) + 1) ELSE Null
IsValidToAppend(e) ==
  /\ e # "" /\ Dot(e) # Len(e) - 1 /\ "/" \notin Chars(e)
  /\ Chars(From(e, Dot(e) + 1)) \cap InvalidInExtension = {}
PathExtension(u) == IF LastComponent(u) = Null THEN Null ELSE ExtensionOf(LastComponent(u))

\* A file path with escapes, as that of a directory or not.
FileEscaped(path, directory) ==
  LET s == Escaped(path, PathChars)
      kept == Max({1} \cup {i + 1 : i \in {i \in 0 .. Len(s) - 1 : At(s, i) # "/"}})
  IN IF directory THEN s \o (IF Ends(path, "/") THEN "" ELSE "/") ELSE UpTo(s, kept)
EscapedFor(u, s, also) ==
  IF IsFileURL(u) THEN FileEscaped(s, FALSE) ELSE AddingPercentEscapes(s, also)

Joining(u, r, new, directory) ==
  LET slash == IF Ends(Part(u.string, r), "/") \/ At(new, 0) = "/" THEN "" ELSE "/"
  IN Replaced(u.string, <<EndOf(r), 0>>, slash \o new \o IF directory THEN "/" ELSE "")
Appending(u, piece, directory) ==
  Create(Joining(u, u.ranges["path"], EscapedFor(u, piece, {";", "?"}), directory), u.base)
\* "../" is appended to a path that ends in ".", ".." or is nothing but "/".
LongerPath(path) == (IF path # "" /\ ~Ends(path, "/") THEN path \o "/" ELSE path) \o "../"
WithoutDot(longer, n) ==
  IF n > 4 /\ At(longer, n - 5) = "."
  THEN IF n > 7 /\ At(longer, n - 6) = "/" THEN Replaced(longer, <<n - 6, 2>>, "")
       ELSE IF n = 5 THEN Replaced(longer, <<0, 2>>, "") ELSE longer
  ELSE longer
UpperPath(longer) == WithoutDot(longer, Len(longer))
WithoutLast(u, r, last, path, name) ==
  LET named == name \notin {"", ".", "..", "/"}
  IN IF last[1] = r[1] /\ named THEN Replaced(Replaced(u.string, r, "."), <<1, 0>>, "/")
     ELSE Replaced(u.string, r, IF named THEN SubSeq(path, 1, last[1] - r[1]) ELSE UpperPath(LongerPath(path)))
DeletingAt(u, last) ==
  Create(WithoutLast(u, u.ranges["path"], last, Part(u.string, u.ranges["path"]), Part(u.string, last)), u.base)
DeletingLast(u) == DeletingAt(u, LastRange(u))
AppendingExtension(u, e) ==
  Create(Replaced(u.string, <<EndOf(LastRange(u)), 0>>, "." \o EscapedFor(u, e, {";", "?", "/"})),
         u.base)
\* Here the component is looked at with its escapes.
DeletingExtension(u) ==
  LET name == Part(u.string, LastRange(u))
  IN IF ~HasExtension(name) THEN u
     ELSE Create(Replaced(u.string, <<LastRange(u)[1] + Dot(name), Len(name) - Dot(name)>>, ""),
                 u.base)
----------------------------------------------------------------------------
\* URLs of file paths, which nothing parses: "file://" before an absolute path.
PathURL(path, s, base, directory, plain, canonical) ==
  LET absolute == Begins(s, "file:")
      ranges == [c \in Components |->
                   IF c = "scheme" /\ absolute THEN <<0, 4>>
                   ELSE IF c = "path" THEN (IF absolute THEN <<7, Len(s) - 7>> ELSE <<0, Len(s)>>)
                   ELSE None]
  IN URL(s, IF absolute THEN NoBase ELSE Absolute(base),
         [ranges |-> ranges, decomposable |-> TRUE, directory |-> directory, plain |-> plain],
         canonical)
FromPath(path, directory, base) ==
  LET absolute == At(path, 0) = "/"
      s == FileEscaped(path, directory)
  IN PathURL(path, (IF absolute THEN "file://" ELSE "") \o s, base, directory,
             absolute /\ "%" \notin Chars(s), absolute)

\* The parts between the separators.
RECURSIVE Split(_, _)
Split(s, c) ==
  LET i == Find(s, {c}, 0, Len(s))
  IN IF i = Len(s) THEN <<s>> ELSE <<SubSeq(s, 1, i)>> \o Split(From(s, i + 1), c)
Joined(parts, c) ==
  FoldLeft(LAMBDA s, part : s \o c \o part, parts[1], Tail(parts))
IsDrive(s) == Len(s) >= 2 /\ At(s, 0) \in Letters /\ At(s, 1) \in {":", "|"}
FromWindowsPath(path, directory, base) ==
  LET parts == Split(path, "\\")
      escaped == [i \in DOMAIN parts |->
                    IF i = 1 /\ IsDrive(parts[1]) /\ Len(parts[1]) = 2 /\ At(parts[1], 1) = ":"
                    THEN parts[1] ELSE FileEscaped(parts[i], FALSE)]
      all == escaped \o IF directory /\ Last(parts) # "" THEN <<"">> ELSE <<>>
      s == Joined(IF IsDrive(path) THEN <<"file://">> \o all ELSE all, "/")
  IN PathURL(path, s, base, directory, FALSE, FALSE)

\* File paths of URLs.
WithoutSlash(path) == IF path = Null THEN Null ELSE WithoutTrailing(path)
POSIXPath(path) == WithoutSlash(Unescaped(path))
\* A drive is the second component.
FromDrive(parts, second) ==
  IF ~(Len(parts) > 1 /\ parts[1] = "" /\ second # Null /\ Len(second) = 2 /\ At(second, 1) \in {":", "|"})
    THEN parts
  ELSE IF At(second, 1) = ":" THEN Tail(parts)
  ELSE <<At(second, 0) \o ":">> \o Tail(Tail(parts))
WindowsParts(parts) == Unescaped(Joined(FromDrive(parts, Unescaped(parts[2])), "\\"))
WithoutEmptyLast(parts) == IF Last(parts) = "" THEN Front(parts) ELSE parts
WindowsPath(path) == WindowsParts(WithoutEmptyLast(Split(path, "/")))
FilePath(u, windows) ==
  IF ~windows /\ u.plain THEN Part(u.string, u.ranges["path"])
  ELSE IF u.ranges["path"] = None THEN Null
  ELSE IF windows THEN WindowsPath(Copied(u, "path")) ELSE POSIXPath(Copied(u, "path"))
AsDirectory(path, directory) == IF directory THEN WithoutSlash(path) ELSE path
RelativePath(u, windows) == AsDirectory(FilePath(u, windows), HasDirectoryPath(u))
\* The last component of a base that is no directory is left out.
ResolvedPaths(path, base, directory) ==
  LET kept == IF directory THEN base \o (IF Ends(base, "/") THEN "" ELSE "/")
              ELSE UpTo(base, Max({1, FindBack(base, "/", 0, Len(base)) + 1}))
  IN WithoutTrailing(Compacted(kept \o path, 0, FALSE))
AgainstBase(u, path, base) ==
  IF path = Null THEN base
  ELSE IF base # Null /\ ~Begins(path, "/")
       THEN ResolvedPaths(path, base, HasDirectoryPath(u.base)) ELSE path
ResolvedFilePath(u) ==
  AgainstBase(u, RelativePath(u, FALSE), IF HasBase(u) THEN RelativePath(u.base, FALSE) ELSE Null)
CopyFileSystemPath(u) ==
  IF u.canonical /\ ~HasBase(u) THEN WithoutTrailing(Unescaped(From(u.string, 7)))
  ELSE RelativePath(u, FALSE)
----------------------------------------------------------------------------
\* In compatibility mode the scheme of the base may be repeated, ".." in front
\* go away, and what only has a specifier leaves the path as it is.
Compact(whole, path) ==
  IF path = None THEN whole ELSE Replaced(whole, path, Compacted(Part(whole, path), 0, TRUE))
WithPathCompacted(whole) == Parsed(Compact(whole, Parse(whole, FALSE).ranges["path"]))
AgainstScheme(s, own, base) ==
  LET same == own # None /\ base.ranges["scheme"] # None
              /\ Part(s, own) = Part(base.string, base.ranges["scheme"])
      rest == IF same THEN From(s, own[2] + 1) ELSE s
  IN CASE s # "" /\ At(s, 0) \in {"?", ";", "#"} -> base.string \o s
       [] own # None /\ ~same -> s
       [] OTHER -> Resolved(URL(rest, NoBase, Parse(rest, HasDirectoryPath(base)), FALSE), base)
AbsoluteCompatible(s, base) ==
  WithPathCompacted(AgainstScheme(s, Parse(s, FALSE).ranges["scheme"], base))
----------------------------------------------------------------------------
Text(u, c) == IF u.ranges[c] = None THEN Null ELSE Part(u.string, u.ranges[c])
Rooted(path) == path # Null /\ Begins(path, "/")
Hierarchical(u) == u.decomposable /\ Has(u, {"host"}) /\ Rooted(Text(u, "path"))

Init ==
  /\ calls = 0
  /\ url \in {Parsed(s) : s \in Absolutes}
            \cup {FromPath(p, d, NoBase) : p \in {p \in Paths : Begins(p, "/")}, d \in BOOLEAN}
            \cup {FromWindowsPath(p, d, NoBase) : p \in {p \in Drives : IsDrive(p)}, d \in BOOLEAN}
Becomes(new) ==
  /\ calls < MaxCalls /\ Len(new.string) <= MaxSize
  /\ url' = new /\ calls' = calls + 1

\* A string or a path is made relative to the URL.
CreateRelative ==
  \/ \E s \in Relatives : Becomes(Create(s, url))
  \/ \E p \in Paths, d \in BOOLEAN : ~Begins(p, "/") /\ Becomes(FromPath(p, d, url))
  \/ \E s \in Relatives : Hierarchical(url) /\ Becomes(AbsoluteCompatible(s, url))
CopyAbsolute == Becomes(Absolute(url))
AppendComponent ==
  \E p \in Pieces, d \in BOOLEAN : Has(url, {"path"}) /\ Becomes(Appending(url, p, d))
DeleteComponent == Has(url, {"path"}) /\ Becomes(DeletingLast(url))
AppendExtension ==
  \E e \in Extensions :
    IsValidToAppend(e) /\ Has(url, {"path"}) /\ Becomes(AppendingExtension(url, e))
DeleteExtension == Has(url, {"path"}) /\ Becomes(DeletingExtension(url))
\* RFC 2396 has the parameters in the path, which there must be.
Recompose ==
  /\ url.decomposable /\ (Has(url, {"parameters"}) => Has(url, {"path"}))
  /\ Becomes(Create(Composed(Decomposed(url)), url.base))

Next ==
  \/ CreateRelative \/ CopyAbsolute \/ AppendComponent \/ DeleteComponent
  \/ AppendExtension \/ DeleteExtension \/ Recompose
----------------------------------------------------------------------------
Texts(u) == [c \in Components |-> Text(u, c)]

\* No character is lost or read twice: the components with what stands between
\* them are the string.  A parser that took a colon of an address in brackets
\* for that of the port would not give it back.
ComponentsAreTheString ==
  LET bare == Begins(url.string, Marked(url, "scheme", "")
                                 \o (IF Has(url, {"scheme"}) THEN ":" ELSE "") \o "//")
  IN url.decomposable =>
       url.string =
         (IF Has(url, {"scheme"}) THEN Text(url, "scheme") \o ":" ELSE "")
         \o (IF bare THEN "//" ELSE "")
         \o Marked(url, "user", "") \o Marked(url, "password", ":")
         \o (IF Has(url, {"user"}) THEN "@" ELSE "")
         \o Marked(url, "host", "") \o Marked(url, "port", ":") \o Marked(url, "path", "")
         \o Marked(url, "parameters", ";") \o Marked(url, "query", "?")
         \o Marked(url, "fragment", "#")

\* What is hard coded for the URL of a file path is what the parser would find,
\* so that escapes and separators keep their meaning (2176-2230); only the path
\* "/", "." and ".." may be said to be no directory.
FileURLsAreAsParsed ==
  LET p == Parse(url.string, FALSE)
      path == Text(url, "path")
  IN /\ url.ranges = p.ranges /\ url.decomposable = p.decomposable
     /\ path # Null /\ path # "" => (url.directory => p.directory)
     /\ url.canonical /\ path # "/" /\ ~Ends(path, ".") => url.directory = p.directory

\* The string that is given out is legal, has the same components, and is the
\* same when it is made a URL again (1792-1846).
SpecifierIn(s, again) ==
  IF ~url.decomposable THEN From(s, Len(Text(url, "scheme")) + 1)
  ELSE IF SpecifierOf(again) = "" THEN Null ELSE SpecifierOf(again)
IsSanitized(s, again) ==
  /\ IsLegal(s) /\ GetString(again) = s
  /\ \A c \in Components : Text(again, c) = Copied(url, c)
  /\ ResourceSpecifier(url) = SpecifierIn(s, again)
StringIsSound(s) == IsSanitized(s, Parsed(s))
SanitizedStringIsSound == StringIsSound(GetString(url))

\* The segments of an absolute path, resolved as RFC 1808 says: "." goes, ".."
\* takes the segment before it; what is left of them in front stays or goes.
Segments(parts, strip) ==
  LET Step(done, i) ==
        LET part == parts[i]
            last == i = Len(parts)
            kept == IF last THEN <<"">> ELSE <<>>
        IN CASE part = "." -> done \o kept
             [] part = ".." /\ Len(done) > 1 /\ Last(done) # ".." -> Front(done) \o kept
             [] part = ".." /\ strip -> done \o kept
             [] OTHER -> Append(done, part)
  IN FoldLeft(Step, <<>>, [i \in DOMAIN parts |-> i])
RFC1808(u) ==
  LET own == Text(u, "path")
      base == Text(u.base, "path")
      parts == IF Rooted(own) THEN Split(own, "/")
               ELSE Front(Split(base, "/")) \o Split(own, "/")
  IN IF own = Null THEN base ELSE IF Rooted(own) THEN own ELSE Joined(Segments(parts, FALSE), "/")

\* A URL made absolute has the path that RFC 1808 says, and what its accessors
\* said before: nothing comes from the base that it had itself, nothing that it
\* has not is lost.
ResolutionIsThatOfSegments ==
  HasBase(url) /\ Hierarchical(url.base) /\ url.decomposable /\ ~Has(url, {"scheme"})
  /\ ~Begins(url.string, "//") =>
    LET whole == Absolute(url)
    IN /\ Text(whole, "path") = RFC1808(url)
       /\ \A c \in NetLocation \cup {"scheme", "parameters", "query"} :
            Copied(whole, c) = Inherited(url, c)
       /\ url.string # "" => Copied(whole, "fragment") = Copied(url, "fragment")
       /\ HasDirectoryPath(whole) = HasDirectoryPath(url)
CompatibleTo(s, u, segments) ==
  HasBase(u) /\ Has(u, {"path"}) /\ ~Has(u, NetLocation) /\ Last(segments) # ".."
  /\ (ToSet(segments) \subseteq {"", ".."} => ".." \notin ToSet(segments)) =>
    Text(AbsoluteCompatible(s, url), "path") = Joined(Segments(segments, TRUE), "/")
CompatibleWith(s, u) == CompatibleTo(s, u, Split(Text(Absolute(u), "path"), "/"))
CompatibleResolution == Hierarchical(url) => \A s \in Relatives : CompatibleWith(s, Create(s, url))

\* An appended component is the last one, is not taken for anything else, and
\* is gone when the last one is deleted; so is an extension.
Named(u) == Has(u, {"path"}) /\ Text(u, "path") # "" /\ LastComponent(u) \notin {Null, "/"}
WithSlash(path) == path \o IF Ends(path, "/") THEN "" ELSE "/"
IsWithoutLast(u) ==
  /\ Texts(u) = [Texts(url) EXCEPT !["path"] = WithSlash(Text(url, "path"))]
  /\ u.base = url.base
IsAppended(p, d, more) ==
  /\ LastComponent(more) = p /\ (d => HasDirectoryPath(more))
  /\ IsWithoutLast(DeletingLast(more))
AppendingIsUndone ==
  Hierarchical(url) =>
    \A p \in Pieces, d \in BOOLEAN :
      p \notin {".", ".."} /\ "/" \notin Chars(p) => IsAppended(p, d, Appending(url, p, d))
IsExtended(e, more) ==
  /\ PathExtension(more) = e
  /\ " " \notin Chars(e) => DeletingExtension(more).string = url.string
ExtensionsAreUndone ==
  Hierarchical(url) /\ Named(url) =>
    \A e \in Extensions :
      IsValidToAppend(e) /\ Dot(e) = -1 /\ LastComponent(url) # "" =>
        IsExtended(e, AppendingExtension(url, e))

\* Components that are taken apart and put together are the same.
RecomposedIsTheSame ==
  LET again == Create(Composed(Decomposed(url)), url.base)
  IN /\ url.decomposable /\ (Has(url, NetLocation) => Has(url, {"scheme"}))
     /\ (Has(url, {"scheme", "parameters"}) => Has(url, {"path"}))
     /\ (Has(url, {"port"}) => Text(url, "port") = ToString(PortNumber(url)))
     =>
       \A c \in Components : Text(again, c) = Copied(url, c)

\* The component that is put where the range says it would be, is there.
InsertionsAreInPlace ==
  Hierarchical(url) =>
    \A c \in Specifier :
      LET mark == CASE c = "parameters" -> ";x" [] c = "query" -> "?x" [] OTHER -> "#x"
          place == RangeOf(url, {c}).with
      IN ~Has(url, {c}) =>
           Texts(Parsed(Replaced(url.string, place, mark))) = [Texts(url) EXCEPT ![c] = "x"]

\* A file path comes back without the slashes at its end, by either way, and
\* paths resolve as URLs do.
IsOfPath(p, u) ==
  /\ CopyFileSystemPath(u) =
       UpTo(p, Max({1} \cup {i + 1 : i \in {i \in 0 .. Len(p) - 1 : At(p, i) # "/"}}))
  /\ HasBase(u) /\ Hierarchical(u.base) /\ Unescaped(Text(u.base, "path")) # Null
     /\ ~Ends(Text(u.base, "path"), ".")
     => ResolvedFilePath(u) = RelativePath(Absolute(u), FALSE)
FilePathsAgree ==
  /\ url.canonical => CopyFileSystemPath(url) = RelativePath(url, FALSE)
  /\ \A p \in Paths, d \in BOOLEAN : IsOfPath(p, FromPath(p, d, url))
  /\ \A p \in Drives, d \in BOOLEAN :
       RelativePath(FromWindowsPath(p, d, url), TRUE) =
         IF Ends(p, "\\") THEN SubSeq(p, 1, Len(p) - 1) ELSE p

TypeOK ==
  /\ DOMAIN url.ranges = Components
  /\ \A c \in Components :
       url.ranges[c] = None \/ (url.ranges[c][1] >= 0 /\ EndOf(url.ranges[c]) <= Len(url.string))
============================================================================
