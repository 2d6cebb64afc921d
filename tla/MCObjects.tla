----------------------------- MODULE MCObjects -----------------------------
(* Objects and their counts, and what holds them: the arrays of timers, hash *)
(* tables, arrays, sorted lists and storages; URLs and plug-ins; requests to *)
(* a message port, which end; and the values of MCValues; in one run.  Each  *)
(* behaviour is of one part; the others stay in their initial state, or      *)
(* share the variables x1, ....                                              *)
EXTENDS ReferenceCount, MCValues

CONSTANT firstOwner

VARIABLES
  bField, bTable, bDying, bDead, bFreed, bLock, bOwed, bPc, bSeen, bWithin, bOwned, bRefs,
  array, fireTSR, tolerance

countVars == vars
count64Vars ==
  <<bField, bTable, bDying, bDead, bFreed, bLock, bOwed, bPc, bSeen, bWithin, bOwned,
    bRefs>>
arrayVars == <<array, fireTSR, tolerance>>
valueVars == <<x1, x2, x3, x4, x5, x6, x7, x8, x9, x10>>
others == <<part, countVars, count64Vars, arrayVars>>
all == <<part, countVars, count64Vars, arrayVars, valueVars>>
----------------------------------------------------------------------------
\* 64-bit builds, where the count is all in the word.
B == INSTANCE ReferenceCount WITH
       Is64 <- TRUE, field <- bField, table <- bTable, dying <- bDying, dead <- bDead,
       freed <- bFreed, lock <- bLock, owed <- bOwed, pc <- bPc, seen <- bSeen,
       within <- bWithin, owned <- bOwned, refs <- bRefs
A == INSTANCE MCTimerArray WITH
       LongMax <- 2, ManyTimers <- 3, Timers <- 1..4, Times <- 0..2,
       Tolerances <- {0, 4}

R == INSTANCE MessageRequest WITH
       MaxConv <- 1, MaxRequests <- 2, MaxDepth <- 2,
       valid <- x1, conv <- x2, replies <- x3, requests <- x4, hears <- x5, sent <- x6,
       answers <- x7, served <- x8, orphans <- x9, timely <- x10

\* A dictionary, a bag that probes twice, and a set that grows fast.
HashKinds ==
  {[keys |-> TRUE, counts |-> FALSE, fast |-> FALSE, style |-> "linear"],
   [keys |-> FALSE, counts |-> TRUE, fast |-> FALSE, style |-> "double"],
   [keys |-> FALSE, counts |-> FALSE, fast |-> TRUE, style |-> "exponential"]}
Hash == INSTANCE BasicHash WITH
  Classes <- 1..4, NumValues <- 1, HashOf <- <<0, 7, 14, 3, 9>>,
  Sizes <- <<0, 3, 7, 13, 23>>, Capacities <- <<0, 3, 6, 11, 19>>, Roots <- <<0, 2, 3, 2, 5>>,
  Kinds <- HashKinds, DeletedLimit <- 4, PurgeFrom <- 13,
  ShrinkBy <- [fast \in BOOLEAN |-> IF fast THEN 3 ELSE 1], Requests <- {2, 7}, MaxCount <- 2,
  kind <- x1, table <- x2, entries <- x3, held <- x4
Array == INSTANCE Deque WITH
  Items <- {1, 2}, Wiggle <- 2, MinCapacity <- 4, MaxLength <- 5, MaxNew <- 2,
  store <- x1, count <- x2, values <- x3, held <- x4
Sort == INSTANCE SortFunctions WITH
  Keys <- {0, 1}, Counts <- {5, 7, 8}, Cores <- {1, 2, 4}, Unit <- 2,
  list <- x1, cores <- x2, buffer <- x3, tmps <- x4, phase <- x5, todo <- x6

\* Storages of one node and of three levels, whose subranges share nodes.
Low == INSTANCE Storage WITH
  MaxLeaf <- 2, Lengths <- {5}, MaxLength <- 6, MaxCalls <- 3, MaxStamp <- 3,
  SharesBranches <- FALSE,
  heap <- x1, cache <- x2, values <- x3, copied <- x4, read <- x5, spoilt <- x6, calls <- x7
High == INSTANCE Storage WITH
  MaxLeaf <- 2, Lengths <- {10}, MaxLength <- 11, MaxCalls <- 2, MaxStamp <- 3,
  SharesBranches <- TRUE,
  heap <- x1, cache <- x2, values <- x3, copied <- x4, read <- x5, spoilt <- x6, calls <- x7

Urls == INSTANCE URL WITH
  Absolutes <- {"h:a", "h://u:p@g:8/a;c?d#e", "h://[a:b]:8/x", "h://g/a b/..", "file:///a.x"},
  Relatives <- {"../x", "./?q", "h:x/../y"}, Pieces <- {"a;^"}, Extensions <- {"t;g"},
  Paths <- {"../y", "/%20"}, Drives <- {"C:\\a b"}, MaxSize <- 20, MaxCalls <- 2,
  url <- x1, calls <- x2

\* A plug-in of two factories, beside a bundle whose code is missing; and two
\* bundles of one identifier, one of which registers when it is loaded.
PlugIns == INSTANCE PlugIn WITH
  Bundles <- 1..2, Unique <- {1}, Identifier <- <<1, 1>>, Version <- <<1, 2>>,
  Static <- <<<<[id |-> 1, types |-> <<1>>], [id |-> 2, types |-> <<1>>]>>, <<>> >>,
  Registers <- <<<<>>, <<>> >>, Dynamic <- {}, Relents <- {}, Linked <- {}, Missing <- {2},
  IDs <- 1..3, Types <- {1}, MaxFactories <- 3, MaxInstances <- 1, TypesBefore <- TRUE,
  UnloadsInUse <- FALSE, Reregisters <- FALSE, RemovesLate <- FALSE,
  w <- x1, instances <- x2
Registering == INSTANCE PlugIn WITH
  Bundles <- 1..2, Unique <- {}, Identifier <- <<1, 1>>, Version <- <<1, 2>>,
  Static <- <<<<[id |-> 1, types |-> <<1>>]>>, <<>> >>,
  Registers <- <<<<>>, <<[id |-> 2, types |-> <<1>>]>> >>,
  Dynamic <- {2}, Relents <- {2}, Linked <- {1}, Missing <- {},
  IDs <- 1..2, Types <- {1}, MaxFactories <- 2, MaxInstances <- 2, TypesBefore <- TRUE,
  UnloadsInUse <- FALSE, Reregisters <- FALSE, RemovesLate <- FALSE,
  w <- x1, instances <- x2
----------------------------------------------------------------------------
ValuesInit ==
  \/ part = "requests" /\ R!Init
  \/ part = "hash" /\ Hash!Init /\ Rest5
  \/ part = "array" /\ Array!Init /\ Rest5
  \/ part = "sort" /\ Sort!Init /\ x7 = 0 /\ Rest8
  \/ part = "low" /\ Low!Init /\ Rest8
  \/ part = "high" /\ High!Init /\ Rest8
  \/ part = "url" /\ Urls!Init /\ Rest3
  \/ part = "plugIns" /\ PlugIns!Init /\ Rest3
  \/ part = "registering" /\ Registering!Init /\ Rest3
  \/ MoreInit
ValuesNext ==
  \/ part = "requests" /\ R!Next
  \/ part = "hash" /\ Hash!Next /\ UNCHANGED <<x5, x6, x7, x8, x9, x10>>
  \/ part = "array" /\ Array!Next /\ UNCHANGED <<x5, x6, x7, x8, x9, x10>>
  \/ part = "sort" /\ Sort!Next /\ UNCHANGED <<x7, x8, x9, x10>>
  \/ part = "low" /\ Low!Next /\ UNCHANGED <<x8, x9, x10>>
  \/ part = "high" /\ High!Next /\ UNCHANGED <<x8, x9, x10>>
  \/ part = "url" /\ Urls!Next /\ UNCHANGED From3
  \/ part = "plugIns" /\ PlugIns!Next /\ UNCHANGED From3
  \/ part = "registering" /\ Registering!Next /\ UNCHANGED From3
  \/ MoreNext

ObjectsInit ==
  /\ Init /\ owned[firstOwner] = 1
  /\ B!Init /\ bOwned[firstOwner] = 1
  /\ A!Init
  /\ \/ part = "timerArray" /\ Rest1
     \/ /\ \A t \in 1..4 : tolerance[t] = 0
        /\ \/ part \in {"count", "count64"} /\ Rest1
           \/ ValuesInit

ObjectsNext ==
  \/ part = "count" /\ Next /\ UNCHANGED <<part, count64Vars, arrayVars, valueVars>>
  \/ part = "count64" /\ B!Next /\ UNCHANGED <<part, countVars, arrayVars, valueVars>>
  \/ part = "timerArray" /\ A!Next /\ UNCHANGED <<part, countVars, count64Vars, valueVars>>
  \/ ValuesNext /\ UNCHANGED <<part, countVars, count64Vars, arrayVars>>

\* Every thread that has a request runs, and time passes.
ObjectsSpec ==
  /\ ObjectsInit /\ [][ObjectsNext]_all
  /\ \A t \in Threads :
       /\ WF_all(part = "requests" /\ R!Thread(t) /\ UNCHANGED others)
       /\ WF_all(part = "requests" /\ R!Expire(t) /\ UNCHANGED others)
----------------------------------------------------------------------------
\* In 64-bit builds too the count is exact until it is that of a constant object,
\* and the object is finalized and given back once (CFRuntime.c:1504, 1589-1632);
\* the types of the parts.
WideCountsAgree ==
  /\ B!CountIsExact /\ B!ObjectsEndOnce
  /\ TypeOK /\ B!TypeOK /\ (part = "requests" => R!TypeOK)

\* Whatever a hash table, an array or a storage went through, it has what the
\* calls say: a dictionary is a function, a bag counts, an array and a storage
\* are sequences, and what they hold is retained once for each place; data and
\* bit vectors, heaps and trees are what was put there (CFBasicHash.c, CFArray.c,
\* CFStorage.c, CFData.c, CFBitVector.c, CFBinaryHeap.c, CFTree.c).  The search
\* for a timer's place and the scan for the next deadlines give what they are for
\* (CFRunLoop.c:2071, 2125); the tasks of a parallel sort leave a stable sort of
\* the list (CFSortFunctions.c).
CollectionsAreAbstract ==
  /\ part = "timerArray" => A!InsertionIndexIsAfterEarlier /\ A!DeadlinesAreLeast
  /\ part = "sort" => Sort!TypeOK /\ Sort!SortedInTheEnd
  /\ part = "hash" =>
       Hash!TypeOK /\ Hash!TableIsTheCollection /\ Hash!RetainsAreOfBuckets
       /\ Hash!EqualWhenRecreated
  /\ part = "array" => Array!TypeOK /\ Array!ArrayIsTheSequence /\ Array!SearchFindsThePlace
  /\ part = "low" => Low!TypeOK /\ Low!TreesAreTheSequences /\ Low!NodesAreSound
  /\ part = "high" => High!SoundUntilSpoilt
  /\ part = "buffers" =>
       /\ Buffers!TypeOK /\ Buffers!BytesAreThoseGiven /\ Buffers!FoundWhereTheyAre
       /\ Buffers!BitsAreThoseGiven
  /\ part = "trees" => Branches!TypeOK /\ Branches!HeapIsTheBag /\ Branches!TreeIsTheForest

\* The parts the parser finds in a URL are its string; its legal string, its
\* resolution against a base, what is appended and deleted, and the way from a
\* file path and back keep every part what it was (CFURL.c).  So do the parts
\* that are set one by one and put together (CFURLComponents.c).
UrlsAgree ==
  /\ part = "locators" =>
       /\ Locators!TypeOK /\ Locators!PartsAreThoseSet /\ Locators!StringHasTheParts
       /\ Locators!RangesAreOfTheString /\ Locators!UnchangedStringIsKept
       /\ Locators!QueryItemsAreThoseSet
  /\ part = "url" =>
    /\ Urls!TypeOK /\ Urls!ComponentsAreTheString /\ Urls!FileURLsAreAsParsed
    /\ Urls!SanitizedStringIsSound
    /\ Urls!ResolutionIsThatOfSegments /\ Urls!CompatibleResolution
    /\ Urls!AppendingIsUndone /\ Urls!ExtensionsAreUndone
    /\ Urls!RecomposedIsTheSame /\ Urls!InsertionsAreInPlace /\ Urls!FilePathsAgree


\* What is written and read, copied or taken in part stays what it was: property
\* lists in their three forms (CFPropertyList.c, CFBinaryPList.c,
\* CFOldStylePList.c).
ValuesAgree ==
  part = "plists" =>
    /\ Plists!TypeOK /\ Plists!ReadsWhatIsMeant /\ Plists!MutableAsAsked
    /\ Plists!PartsAreOfTheWhole /\ Plists!CopiesAreTheSame

\* Every request returns, whatever becomes of its reply (CFMessagePort.c:949).
RequestsEnd ==
  \A t \in Threads :
    (part = "requests" /\ x4[t] # <<>>) ~> (part = "requests" /\ x4[t] = <<>>)
============================================================================
