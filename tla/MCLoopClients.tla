--------------------------- MODULE MCLoopClients ---------------------------
(* What a run loop and its clients keep of each other, in one run: the      *)
(* registry of the threads' loops, the sources of a loop, its observers, the *)
(* requests to a message port, whose answers a loop hears, and a socket,     *)
(* whose source one or two loops perform, and streams that share sources;    *)
(* and texts: character sets, the storage of strings, what is found in them  *)
(* and strings with attributes, which share the variables y1, ....           *)
(* Each behaviour is of one part; the others stay in their initial state.    *)
EXTENDS RunLoopRegistry, Sequences, TLC

CONSTANTS t1, t2, r1, m1, m2, common, s0, s1, p1, o1, o2, a1, a2,
  st1, st2, legacy

\* A version 0 and a version 1 source; an observer that repeats and one that
\* does not, and goes before it.
OneOwner == r1 :> t1
PortsOf == s0 :> None @@ s1 :> p1
RepeatsOf == o1 :> TRUE @@ o2 :> FALSE
OrderOf == o1 :> 1 @@ o2 :> 0

\* Other destructors ask for the loop in the first pass, before its slot.
BelowFirst == {<<1, "below">>}

CONSTANTS Threads, Loops, Modes, Owner, PortOf, Repeats, Order

VARIABLES
  part, y1, y2, y3, y4, y5, y6,
  modes, commonModes, commonItems, sources, observers, portMap, valid, portless,
  runLoops, runLoop, rlCount, firing, status, stack, calls, scheduled, fired,
  late, takenOut,
  remoteValid, conv, replies, requests, hears, sent, answers, served, orphans, timely,
  types, oriented, client, socketValid, disabled, connected, setCount, inLists,
  readSignalled, writeSignalled, errorCode, queue, signalled, fds, wakes, manager,
  performs, open, writable, arrived, ended, arrivals, socketCalls, armed, delivered,
  connects,
  streamStatus, haveClosed, when, what, source, runLoopsAndModes, ownModes, list,
  signalledSources, pending, calling, queued, jobs, deliveries, streamCalls

textVars == <<y1, y2, y3, y4, y5, y6>>
itemVars ==
  <<modes, commonModes, commonItems, sources, observers, portMap, valid, portless,
    runLoops, runLoop, rlCount, firing, status, stack, calls, scheduled, fired, late,
    takenOut>>
requestVars ==
  <<remoteValid, conv, replies, requests, hears, sent, answers, served, orphans, timely>>
registryVars == vars
socketVars ==
  <<types, oriented, client, socketValid, disabled, connected, setCount, inLists,
    readSignalled, writeSignalled, errorCode, queue, signalled, fds, wakes, manager,
    performs, open, writable, arrived, ended, arrivals, socketCalls, armed, delivered,
    connects>>
streamVars ==
  <<streamStatus, haveClosed, when, what, source, runLoopsAndModes, ownModes, list,
    signalledSources, pending, calling, queued, jobs, deliveries, streamCalls>>
clientVars == <<itemVars, requestVars, registryVars, socketVars, streamVars>>
all == <<part, clientVars, textVars>>
----------------------------------------------------------------------------
S == INSTANCE RunLoopItems WITH
       Common <- common, Default <- m1, Sources <- {s0, s1}, Observers <- {},
       Forgetful <- {}, MaxCalls <- 5, MaxDepth <- 3
O == INSTANCE RunLoopItems WITH
       Common <- common, Default <- m1, Sources <- {}, Observers <- {o1, o2},
       Forgetful <- {}, MaxCalls <- 4, MaxDepth <- 5
R == INSTANCE MessageRequest WITH
       MaxConv <- 2, MaxRequests <- 3, MaxDepth <- 2, valid <- remoteValid

\* A stream, a socket that listens, one that is only heard, and one that connects.
SocketTypes ==
  {{"read", "accept"}, {"accept"}, {"read"}, {"read", "connect", "write"}}
K(performers, messages) == INSTANCE Socket WITH
       Performers <- performers, TypeSets <- SocketTypes,
       Reenabled <- {{}, {"read", "write"}},
       MaxWakes <- 1, MaxMessages <- messages, MaxModes <- 1, MaxCalls <- 2,
       valid <- socketValid, sent <- arrivals, calls <- socketCalls

T == INSTANCE Stream WITH
       Streams <- {st1, st2}, Modes <- {m1, m2, legacy}, Legacy <- legacy,
       MaxCalls <- 5, MaxDepth <- 2,
       status <- streamStatus, signalled <- signalledSources, stack <- deliveries,
       calls <- streamCalls

----------------------------------------------------------------------------
Blank5 == y5 = 0 /\ y6 = 0
Blank3 == y3 = 0 /\ y4 = 0 /\ Blank5
Beyond4 == <<y5, y6>>
Beyond2 == <<y3, y4, Beyond4>>
----------------------------------------------------------------------------
\* Character sets with annexes, and of one plane that are inverted.
ShortStrings == {<<1>>, <<3, 0>>}
Planes == INSTANCE CharacterSet WITH
  PlaneSize <- 4, MaxPlane <- 2, PageSize <- 2, MaxPages <- 1, StringMax <- 4,
  Predefined <- {1, 2, 5},
  Ranges <- {<<0, 2>>, <<1, 1>>, <<1, 2>>, <<2, 2>>, <<0, 4>>, <<0, 3>>, <<4, 2>>, <<5, 2>>,
             <<4, 4>>},
  Strings <- ShortStrings \cup {<<6>>, <<6, 7, 4>>}, Turns <- FALSE, Exceptional <- FALSE,
  set <- y1, members <- y2
Plane == INSTANCE CharacterSet WITH
  PlaneSize <- 4, MaxPlane <- 0, PageSize <- 2, MaxPages <- 1, StringMax <- 4,
  Predefined <- {1, 2},
  Ranges <- {<<0, 2>>, <<1, 1>>, <<1, 2>>, <<2, 2>>, <<0, 4>>, <<0, 3>>},
  Strings <- ShortStrings, Turns <- TRUE, Exceptional <- FALSE,
  set <- y1, members <- y2
----------------------------------------------------------------------------
\* Strings of ASCII, of what one byte is enough for, and of surrogate pairs,
\* some of which are mapped to longer or shorter characters.
LowerMap == (<<2>> :> <<1>>) @@ (<<20, 22>> :> <<20, 21, 1>>)
UpperMap == (<<1>> :> <<2>>) @@ (<<12>> :> <<2, 2>>) @@ (<<20, 21>> :> <<20, 22>>) @@ (<<10>> :> <<11>>)
TitleMap == (<<1>> :> <<2>>) @@ (<<12>> :> <<2, 1>>) @@ (<<20, 21>> :> <<11>>)
Mutable == INSTANCE MutableString WITH
  Ascii <- 1..4, EightBit <- 1..10, Leads <- {20}, Trails <- {21, 22}, White <- {3},
  Lower <- LowerMap, Upper <- UpperMap, Title <- TitleMap,
  Cased <- {<<1>>, <<2>>, <<10>>, <<12>>, <<20, 21>>}, Ignorable <- {<<4>>},
  MaxPascal <- 3, DefaultMin <- 4, Chunk <- 1,
  Starts <- {<<3, 1, 3, 4>>, <<12, 20, 21>>, <<2, 10>>}, Strings <- {<<3>>, <<1, 10, 22>>},
  MaxLengths <- {0, 3}, Externals <- {3, 8},
  UnicodeBytes <- FALSE, MaxLength <- 8, MaxCalls <- 2,
  str <- y1, text <- y2, copy <- y3, calls <- y4
----------------------------------------------------------------------------
\* a A e E 0 1 -, the letters with an acute, which is a mark, as is the cedilla;
\* sharp s; ga, which is ka and a voiced mark; a wide A; a letter of two units.
CharDecomposition == (233 :> <<101, 769>>) @@ (201 :> <<69, 769>>) @@ (12364 :> <<12363, 12441>>)
CharFolding ==
  (65 :> <<97>>) @@ (69 :> <<101>>) @@ (201 :> <<233>>) @@ (66560 :> <<66600>>)
  @@ (65313 :> <<65345>>) @@ (223 :> <<115, 115>>)
CharClasses == (769 :> 230) @@ (807 :> 202) @@ (12441 :> 8)
CharCompatibility == 65313 :> <<65>>
CharMarks == {769, 807, 12441}
Letters == {97, 65, 101, 69, 233, 201, 49, 115, 223, 48, 12363, 12364, 65313, 65345, 66600} \cup CharMarks
Short ==
  {<<>>, <<97>>, <<65>>, <<233>>, <<69, 769>>, <<101, 807>>, <<233, 807>>, <<101, 769, 807>>, <<12364>>,
   <<12363, 12441>>, <<65313>>, <<45>>, <<45, 97>>, <<55297, 56360>>, <<48, 49>>, <<49>>, <<223>>,
   <<115, 115>>, <<97, 233>>}
Long ==
  {<<97, 65, 97>>, <<233, 97>>, <<101, 769, 807>>, <<69, 769, 101>>, <<45, 97, 45>>, <<12364, 97>>,
   <<65313, 97>>, <<97, 13, 10, 97>>, <<10, 10, 97>>, <<97, 55297, 56360>>, <<97, 8232, 97>>,
   <<97, 97, 97, 97>>, <<201, 101>>}
Matching == INSTANCE StringMatching WITH
  Decomposition <- CharDecomposition, Compatibility <- CharCompatibility, Folding <- CharFolding,
  Marks <- CharMarks, Classes <- CharClasses, WidthForms <- {65313, 65345},
  Alphanumeric <- Letters, EightBitIsAscii <- FALSE,
  Texts <- Short, Places <- Long,
  Comparing <- {{}, {"case"}, {"nonliteral"}, {"diacritics"}, {"numbers"}, {"alphanumeric"}, {"forced"},
                {"case", "diacritics"}, {"case", "width", "nonliteral"}, {"case", "forced"}},
  Finding <- {{}, {"case"}, {"nonliteral"}, {"diacritics"}, {"anchored"}, {"case", "backwards"},
              {"nonliteral", "backwards"}, {"diacritics", "anchored", "backwards"},
              {"alphanumeric", "anchored", "backwards"}, {"case", "width"}},
  asked <- y1, answer <- y2
----------------------------------------------------------------------------
Attributed == INSTANCE AttributedString WITH
  Units <- {1}, Names <- {1, 2}, Values <- {1}, Dictionaries <- {{}, {<<1, 1>>}, {<<2, 1>>}},
  ReplacesItself <- FALSE, MaxLength <- 4, MaxCalls <- 3,
  strings <- y1, means <- y2, calls <- y3
----------------------------------------------------------------------------
TextsInit ==
  \/ part = "planes" /\ Planes!Init /\ Blank3
  \/ part = "plane" /\ Plane!Init /\ Blank3
  \/ part = "mutable" /\ Mutable!Init /\ Blank5
  \/ part = "matching" /\ Matching!Init /\ Blank3
  \/ part = "attributed" /\ Attributed!Init /\ y4 = 0 /\ Blank5
TextsNext ==
  \/ part = "planes" /\ Planes!Next /\ UNCHANGED Beyond2
  \/ part = "plane" /\ Plane!Next /\ UNCHANGED Beyond2
  \/ part = "mutable" /\ Mutable!Next /\ UNCHANGED Beyond4
  \/ part = "matching" /\ Matching!Next /\ UNCHANGED Beyond2
  \/ part = "attributed" /\ Attributed!Next /\ UNCHANGED <<y4, Beyond4>>
----------------------------------------------------------------------------
ClientsInit ==
  /\ \/ /\ part \in {"sources", "observers", "requests", "registry", "socket", "socketOfTwo",
                     "streams"}
        /\ y1 = 0 /\ y2 = 0 /\ Blank3
     \/ TextsInit
  /\ IF part = "observers" THEN O!Init ELSE S!Init
  /\ R!Init /\ Init /\ T!Init
  /\ IF part = "socketOfTwo" THEN K({t1, t2}, 1)!Init
     ELSE K({t1}, 2)!Init /\ (part # "socket" => oriented /\ types = {"read"})

ClientsNext ==
  \/ part = "sources" /\ S!Next /\ UNCHANGED <<part, textVars, requestVars, registryVars, socketVars, streamVars>>
  \/ part = "observers" /\ O!Next /\ UNCHANGED <<part, textVars, requestVars, registryVars, socketVars, streamVars>>
  \/ part = "requests" /\ R!Next /\ UNCHANGED <<part, textVars, itemVars, registryVars, socketVars, streamVars>>
  \/ part = "registry" /\ Next /\ UNCHANGED <<part, textVars, itemVars, requestVars, socketVars, streamVars>>
  \/ part = "socket" /\ K({t1}, 2)!Next
     /\ UNCHANGED <<part, textVars, itemVars, requestVars, registryVars, streamVars>>
  \/ part = "socketOfTwo" /\ K({t1, t2}, 1)!Next
     /\ UNCHANGED <<part, textVars, itemVars, requestVars, registryVars, streamVars>>
  \/ part = "streams" /\ T!Next
     /\ UNCHANGED <<part, textVars, itemVars, requestVars, registryVars, socketVars>>
  \/ TextsNext /\ UNCHANGED <<part, clientVars>>

ClientsSpec == ClientsInit /\ [][ClientsNext]_all
----------------------------------------------------------------------------
\* The modes of a loop, the items in them and what these know of the loop agree,
\* whatever was added, removed and invalidated at once, and schedule and cancel
\* callouts balance (CFRunLoop.c:3237, 3288, 1700).
ItemsAgreeWithModes ==
  CASE part = "sources" ->
         /\ S!ItemsAssumption /\ S!TypeOK
         /\ S!BackReferencesAreExact /\ S!InvalidItemsLeave
         /\ S!CommonItemsAreEverywhere /\ S!PortsFindTheirSource
         /\ S!FreedLoopsAreForgotten /\ S!CalloutsBalance
    [] part = "observers" ->
         /\ O!ItemsAssumption /\ O!TypeOK
         /\ O!BackReferencesAreExact /\ O!InvalidItemsLeave
         /\ O!CommonItemsAreEverywhere /\ O!FreedLoopsAreForgotten
    [] OTHER -> TRUE

\* An observer is not called within itself, nor again if it does not repeat
\* (CFRunLoop.c:1861).
ObserversAreNotReentered ==
  [][part = "observers" => O!ObserverIsEnteredOnce]_all

\* While a request waits its run loop hears the reply port, the keys that are
\* kept are those of requests, and a reply handled in time is returned
\* (CFMessagePort.c:914, 952, 977).
RepliesFindTheirRequest ==
  part = "requests" =>
    /\ R!RequestAssumption /\ R!TypeOK
    /\ R!WaitersCanHear /\ R!KeysArePending /\ R!TimelyReplyIsReturned


\* The events of streams reach their clients, whatever sources they share and
\* whoever delivers them (CFStream.c:668, 1385).
StreamsAreServed ==
  part = "streams" =>
    /\ T!StreamAssumption /\ T!TypeOK
    /\ T!EventsAreSignalled /\ T!PendingHaveBlocks
    /\ T!SharedSourcesAgree /\ T!ModesAreKnown

\* A character set has the members its calls gave it, in whichever of its
\* forms it is, and sets compare as their members do (CFCharacterSet.c); a
\* string has the text its calls leave, however it is stored (CFString.c:799);
\* strings compare as what the options make of them does, are found where that
\* is, and are split so that they can be put together (CFString.c:2553, 2909);
\* the units of a string have the attributes they were given (CFRunArray.c).
TextAgrees ==
  /\ part = "planes" => Planes!TypeOK /\ Planes!MembersAgree /\ Planes!ComparisonsAreSound
  /\ part = "plane" => Plane!TypeOK /\ Plane!MembersAgree
  /\ part = "mutable" =>
       Mutable!TypeOK /\ Mutable!TextIsWhatTheCallsSay /\ Mutable!StorageIsSound /\ Mutable!HashesAgree
  /\ part = "matching" =>
       /\ Matching!CompareIsOfKeys /\ Matching!CompareIsAntisymmetric /\ Matching!CompareIsOfUnits
       /\ Matching!ForcedRefines /\ Matching!FindIsOfKeys /\ Matching!FindIsOfUnits
       /\ Matching!SeparatedIsUndone /\ Matching!MemberIsFound /\ Matching!LinesTileTheText
  /\ part = "attributed" =>
       /\ Attributed!TypeOK /\ Attributed!AttributesAreThoseGiven /\ Attributed!RunsAreSound
       /\ Attributed!RangesAreLongest
============================================================================
