---------------------------- MODULE Preferences ----------------------------
(* CFPreferences.c, CFApplicationPreferences.c, CFXMLPreferencesDomain.c:    *)
(* the threads of one process, and another process that replaces the files.  *)
(*                                                                           *)
(* A domain is named by an application (or a suite, or all of them), a user  *)
(* and a host; the cache maps its name to the object that has its            *)
(* dictionary.  An application has a search list of domains, and the         *)
(* dictionary made of them, its representation.  A thread hands on pointers  *)
(* to domains that nothing retains: they are freed under it if another one   *)
(* purges the caches then, which is left out.  A file is replaced in one     *)
(* step.                                                                     *)
EXTENDS Integers, Sequences, FiniteSets, SequencesExt

CONSTANTS
  Threads, Apps, Suites, AnyApp,   \* AnyApp: kCFPreferencesAnyApplication
  Located,                      \* the domains that have a place in the file system
  Keys, Values, Null, None,     \* Null: no value; None: no object, no thread
  Objects,                      \* numbers, from 1
  Calls,                        \* the calls that the threads make
  MaxCalls, MaxForeign, MaxCopies

Names == (Apps \cup Suites \cup {AnyApp}) \X {"user", "any"} \X {"this", "any"}

VARIABLES
  file,        \* the dictionary in each domain's file
  cacheExists, cache,           \* domainCache
  obj,         \* the domains: name, dict if it is loaded, dirty keys
  prefs,       \* __CFStandardUserPreferences: search list, representation
  appLock, cacheLock, busy,     \* who has the locks; busy: a domain's _lock
  frame,       \* the call that each thread is in
  calls, foreign,
  latest, clobbered, pending, outdated, leftOver   \* history

vars == <<file, cacheExists, cache, obj, prefs, appLock, cacheLock, busy, frame, calls,
          foreign, latest, clobbered, pending, outdated, leftOver>>

Empty == [k \in Keys |-> Null]
Free == [name |-> None, loaded |-> FALSE, dict |-> Empty, dirty |-> {}]
NoPrefs == [made |-> FALSE, search |-> <<>>, known |-> FALSE, rep |-> Empty]
Idle == [op |-> "none", pc |-> "idle", app |-> None, key |-> None, value |-> Null,
         goal |-> "idle", todo |-> <<>>, found |-> <<>>, domain |-> None, seen |-> Empty,
         left |-> {}]

Init ==
  /\ file \in [Located -> [Keys -> Values \cup {Null}]]
  /\ cacheExists = FALSE /\ cache = [d \in Names |-> None]
  /\ obj = [o \in Objects |-> Free] /\ prefs = [a \in Apps |-> NoPrefs]
  /\ appLock = None /\ cacheLock = None /\ busy = [o \in Objects |-> None]
  /\ frame = [t \in Threads |-> Idle] /\ calls = 0 /\ foreign = 0
  /\ latest = file /\ clobbered = {} /\ pending = {} /\ outdated = [a \in Apps |-> {}]
  /\ leftOver = {}

At(t, pc) == frame[t].pc = pc
Goto(t, pc) == frame' = [frame EXCEPT ![t].pc = pc]
Done(t) == frame' = [frame EXCEPT ![t] = Idle]
Begin(t, op, f) ==
  /\ op \in Calls /\ At(t, "idle") /\ calls < MaxCalls /\ calls' = calls + 1
  /\ frame' = [frame EXCEPT ![t] = [f EXCEPT !.op = op]]
  /\ UNCHANGED <<file, cacheExists, cache, obj, prefs, appLock, cacheLock, busy, foreign,
                 latest, clobbered, pending, outdated, leftOver>>

history == <<latest, clobbered, pending, outdated, leftOver>>
locks == <<appLock, cacheLock, busy>>
----------------------------------------------------------------------------
\* A domain is looked for in the cache, made without the lock and stored after
\* a second look.  A domain without a place is NULL; if the cache was purged in
\* between, the domain is not stored.
Resolved(f, o) ==
  [f EXCEPT !.todo = Tail(f.todo), !.found = Append(f.found, o),
            !.pc = IF Len(f.todo) = 1 THEN f.goal ELSE "lookup"]

Lookup(t) ==
  /\ At(t, "lookup") /\ cacheLock = None /\ cacheExists' = TRUE
  /\ LET d == Head(frame[t].todo) IN
     frame' = [frame EXCEPT ![t] =
       IF cache[d] # None \/ d \notin Located THEN Resolved(@, cache[d])
                                              ELSE [@ EXCEPT !.pc = "insert"]]
  /\ UNCHANGED <<file, cache, obj, prefs, locks, calls, foreign, history>>

Unused == CHOOSE o \in Objects :
            obj[o] = Free /\ \A p \in Objects : obj[p] = Free => o <= p

Insert_Blindly(t) ==
  /\ At(t, "insert") /\ cacheLock = None
  /\ LET d == Head(frame[t].todo) IN
     /\ LET o == Unused IN
          /\ obj' = [obj EXCEPT ![o].name = d]
          /\ cache' = IF cacheExists THEN [cache EXCEPT ![d] = o] ELSE cache
          /\ frame' = [frame EXCEPT ![t] = Resolved(@, o)]
  /\ UNCHANGED <<file, cacheExists, prefs, locks, calls, foreign, history>>

Insert(t) ==
  /\ At(t, "insert") /\ cacheLock = None
  /\ LET d == Head(frame[t].todo) IN
     \/ /\ cache[d] # None
        /\ frame' = [frame EXCEPT ![t] = Resolved(@, cache[d])]
        /\ UNCHANGED <<cache, obj>>
     \/ /\ cache[d] = None
        /\ LET o == Unused IN
             /\ obj' = [obj EXCEPT ![o].name = d]
             /\ cache' = IF cacheExists THEN [cache EXCEPT ![d] = o] ELSE cache
             /\ frame' = [frame EXCEPT ![t] = Resolved(@, o)]
  /\ UNCHANGED <<file, cacheExists, prefs, locks, calls, foreign, history>>

Resolve(names, goal) == [Idle EXCEPT !.pc = "lookup", !.goal = goal, !.todo = names]
Found(t) == frame[t].found[1]
----------------------------------------------------------------------------
\* The calls for one domain.
CopyValue(t) ==
  \E d \in Located : Begin(t, "copy", Resolve(<<d>>, "fetch"))

SetValue(t) ==
  \E d \in Located, k \in Keys, v \in Values \cup {Null} :
    Begin(t, "set", [Resolve(<<d>>, "write") EXCEPT !.key = k, !.value = v])

Synchronize(t) ==
  \E d \in Located : Begin(t, "sync", Resolve(<<d>>, "changed"))

Loaded(o) == [obj[o] EXCEPT !.loaded = TRUE,
                            !.dict = IF obj[o].loaded THEN @ ELSE file[obj[o].name]]

Fetch(t) ==
  /\ At(t, "fetch") /\ Done(t)
  /\ LET o == Found(t) IN
     IF o = None THEN UNCHANGED obj
                 ELSE busy[o] = None /\ obj' = [obj EXCEPT ![o] = Loaded(o)]
  /\ UNCHANGED <<file, cacheExists, cache, prefs, locks, calls, foreign, history>>

\* A value that is there already leaves the domain clean.
Written(o, k, v) ==
  LET loaded == Loaded(o) IN
  IF loaded.dict[k] = v THEN loaded
  ELSE [loaded EXCEPT !.dict[k] = v, !.dirty = @ \cup {k}]

\* What a thread writes to domain o, and the history of it.
DomainSet(o, k, v) ==
  /\ busy[o] = None
  /\ obj' = [obj EXCEPT ![o] = Written(o, k, v)]
  /\ LET d == obj[o].name  changed == Loaded(o).dict[k] # v IN
     /\ pending' = IF changed /\ cache[d] = o
                   THEN {p \in pending : <<p[1], p[2]>> # <<d, k>>} \cup {<<d, k, v>>}
                   ELSE pending
     /\ outdated' = IF changed THEN [a \in Apps |-> outdated[a] \cup {o}] ELSE outdated

Write(t) ==
  /\ At(t, "write")
  /\ IF Found(t) = None
     THEN Done(t) /\ UNCHANGED <<obj, pending, outdated>>
     ELSE Goto(t, "changed") /\ DomainSet(Found(t), frame[t].key, frame[t].value)
  /\ UNCHANGED <<file, cacheExists, cache, prefs, locks, calls, foreign, latest,
                 clobbered, leftOver>>

\* The representations that the domain is part of are dropped.  CFPreferences-
\* Synchronize does so before it synchronizes.
Dropped(p) == [p EXCEPT !.known = FALSE, !.rep = Empty]
Changed(t) ==
  /\ At(t, "changed") /\ appLock = None
  /\ LET o == Found(t) IN
     /\ prefs' = [a \in Apps |->
          IF prefs[a].made /\ o \in Range(prefs[a].search) THEN Dropped(prefs[a])
                                                           ELSE prefs[a]]
     /\ frame' = [frame EXCEPT ![t] =
          IF @.op = "set" \/ o = None THEN Idle
          ELSE [@ EXCEPT !.pc = "load", !.domain = o]]
  /\ UNCHANGED <<file, cacheExists, cache, obj, locks, calls, foreign, history>>
----------------------------------------------------------------------------
\* A domain without changes is dropped from memory.  One with changes is read
\* again, has them put on top, and is written.  The quick way replaces the file;
\* the slow way reads it again and starts over if it is not what was written.
SyncEnds(f) ==
  IF f.op \in {"appSync", "flush", "purge"}
  THEN [f EXCEPT !.pc = IF f.left = {} THEN "synced" ELSE "load", !.domain = None]
  ELSE Idle

Merged(o) ==
  [k \in Keys |-> IF k \in obj[o].dirty THEN obj[o].dict[k] ELSE file[obj[o].name][k]]

Load(t) ==
  /\ At(t, "load")
  /\ \E o \in IF frame[t].domain = None THEN frame[t].left ELSE {frame[t].domain} :
     /\ busy[o] \in {None, t}
     /\ IF obj[o].dirty = {}
        THEN /\ obj' = [obj EXCEPT ![o].loaded = FALSE, ![o].dict = Empty]
             /\ frame' = [frame EXCEPT ![t] = SyncEnds([@ EXCEPT !.left = @ \ {o}])]
             /\ UNCHANGED busy
        ELSE /\ obj' = [obj EXCEPT ![o].dict = Merged(o)]
             /\ frame' = [frame EXCEPT ![t].pc = "save", ![t].domain = o,
                                       ![t].left = @ \ {o}, ![t].seen = file[obj[o].name]]
             /\ busy' = [busy EXCEPT ![o] = t]
  /\ UNCHANGED <<file, cacheExists, cache, prefs, appLock, cacheLock, calls, foreign,
                 history>>

Succeeds(t, o) ==
  /\ obj' = [obj EXCEPT ![o].dirty = {}]
  /\ pending' = {p \in pending : cache[p[1]] # o}
  /\ busy' = [busy EXCEPT ![o] = None]
  /\ frame' = [frame EXCEPT ![t] = SyncEnds(@)]

Save(t) ==
  /\ At(t, "save")
  /\ LET o == frame[t].domain  d == obj[o].name IN
     \/ \E quick \in {TRUE, obj[o].dict = Empty} :
          /\ file' = [file EXCEPT ![d] = obj[o].dict]
          /\ latest' = [latest EXCEPT ![d] =
               [k \in Keys |-> IF k \in obj[o].dirty THEN obj[o].dict[k] ELSE @[k]]]
          /\ clobbered' = IF file[d] # frame[t].seen THEN clobbered \cup {d}
                                                     ELSE clobbered
          /\ IF quick THEN Succeeds(t, o)
                      ELSE Goto(t, "check") /\ UNCHANGED <<obj, pending, busy>>
     \/ /\ busy' = [busy EXCEPT ![o] = None]       \* it could not be written
        /\ frame' = [frame EXCEPT ![t] = SyncEnds(@)]
        /\ UNCHANGED <<file, obj, latest, clobbered, pending>>
  /\ UNCHANGED <<cacheExists, cache, prefs, appLock, cacheLock, calls, foreign, outdated,
                 leftOver>>

Check(t) ==
  /\ At(t, "check")
  /\ LET o == frame[t].domain IN
     IF file[obj[o].name] = obj[o].dict THEN Succeeds(t, o)
     ELSE Goto(t, "load") /\ UNCHANGED <<obj, pending, busy>>
  /\ UNCHANGED <<file, cacheExists, cache, prefs, appLock, cacheLock, calls, foreign,
                 latest, clobbered, outdated, leftOver>>

\* The other process changes a key of a file.
ForeignWrite ==
  /\ foreign < MaxForeign /\ foreign' = foreign + 1
  /\ \E d \in Located, k \in Keys, v \in Values \cup {Null} :
       /\ file[d][k] # v
       /\ file' = [file EXCEPT ![d][k] = v] /\ latest' = [latest EXCEPT ![d][k] = v]
  /\ UNCHANGED <<cacheExists, cache, obj, prefs, locks, frame, calls, clobbered, pending,
                 outdated, leftOver>>
----------------------------------------------------------------------------
\* The preferences of an application are made and put in the table, and their
\* search list is set later, without the lock.
StandardNames(a) ==
  SelectSeq(<<<<a, "user", "this">>, <<a, "user", "any">>,
              <<AnyApp, "user", "this">>, <<AnyApp, "user", "any">>,
              <<a, "any", "this">>, <<a, "any", "any">>,
              <<AnyApp, "any", "this">>, <<AnyApp, "any", "any">>>>,
            LAMBDA d : d \in Located)

AppCall(t) ==
  \E a \in Apps :
    \/ \E op \in {"appCopy", "addSuite", "removeSuite"} :
         Begin(t, op, [Idle EXCEPT !.pc = "standard", !.app = a])
    \/ \E k \in Keys, v \in Values \cup {Null} :
         Begin(t, "appSet",
               [Idle EXCEPT !.pc = "standard", !.app = a, !.key = k, !.value = v])

AfterStandard(f) ==
  CASE f.op = "appCopy" -> [f EXCEPT !.pc = "read"]
    [] f.op = "appSet"  -> [f EXCEPT !.pc = "lock", !.found = <<>>]
    [] OTHER            -> [f EXCEPT !.pc = "suite", !.found = <<>>]

StandardPreferences(t) ==
  /\ At(t, "standard") /\ appLock = None
  /\ LET a == frame[t].app IN
     IF prefs[a].made
     THEN frame' = [frame EXCEPT ![t] = AfterStandard(@)] /\ UNCHANGED prefs
     ELSE /\ prefs' = [prefs EXCEPT ![a].made = TRUE]
          /\ frame' = [frame EXCEPT ![t].pc = "lookup", ![t].goal = "list",
                                    ![t].todo = StandardNames(a)]
  /\ UNCHANGED <<file, cacheExists, cache, obj, locks, calls, foreign, history>>

SetSearchList(t) ==
  /\ At(t, "list") /\ appLock = None
  /\ prefs' = [prefs EXCEPT ![frame[t].app] =
                 [Dropped(@) EXCEPT !.search = frame[t].found]]
  /\ frame' = [frame EXCEPT ![t] = AfterStandard(@)]
  /\ UNCHANGED <<file, cacheExists, cache, obj, locks, calls, foreign, history>>

\* The dictionaries of the search list, the first one on top.
Representation(a, o) ==
  [k \in Keys |->
     LET having == {i \in DOMAIN prefs[a].search : o[prefs[a].search[i]].dict[k] # Null}
         first == CHOOSE i \in having : \A j \in having : i <= j
     IN  IF having = {} THEN Null ELSE o[prefs[a].search[first]].dict[k]]

Read(t) ==
  /\ At(t, "read") /\ appLock = None /\ Done(t)
  /\ LET a == frame[t].app  listed == Range(prefs[a].search) IN
     IF prefs[a].known THEN UNCHANGED <<obj, prefs, outdated>>
     ELSE /\ \A o \in listed : busy[o] = None
          /\ obj' = [o \in Objects |-> IF o \in listed THEN Loaded(o) ELSE obj[o]]
          /\ prefs' = [prefs EXCEPT ![a].known = TRUE,
                                    ![a].rep = Representation(a, obj')]
          /\ outdated' = [outdated EXCEPT ![a] = {}]
  /\ UNCHANGED <<file, cacheExists, cache, locks, calls, foreign, latest, clobbered,
                 pending, leftOver>>

\* A value of an application is set in its domain for this user, any host, and
\* the application's own representation is dropped, with the lock held.
TakeLock(t) ==
  /\ At(t, "lock") /\ appLock = None /\ appLock' = t
  /\ frame' = [frame EXCEPT ![t].pc = "lookup", ![t].goal = "appWrite",
                            ![t].todo = <<<<frame[t].app, "user", "any">>>>]
  /\ UNCHANGED <<file, cacheExists, cache, obj, prefs, cacheLock, busy, calls, foreign,
                 history>>

AppWrite(t) ==
  /\ At(t, "appWrite") /\ appLock' = None /\ Done(t)
  /\ LET a == frame[t].app  o == Found(t) IN
     IF o = None THEN UNCHANGED <<obj, prefs, pending, outdated>>
     ELSE /\ DomainSet(o, frame[t].key, frame[t].value)
          /\ prefs' = IF o \in Range(prefs[a].search)
                      THEN [prefs EXCEPT ![a] = Dropped(@)] ELSE prefs
  /\ UNCHANGED <<file, cacheExists, cache, cacheLock, busy, calls, foreign, latest,
                 clobbered, leftOver>>
----------------------------------------------------------------------------
\* Suites.  One thread adds and removes them, when the list has been set: an
\* index that is found is used after the lock is let go.
SuiteNames(s) ==
  <<<<s, "user", "any">>, <<s, "user", "this">>, <<s, "any", "any">>, <<s, "any", "this">>>>

BeginSuite(t) ==
  /\ At(t, "suite") /\ prefs[frame[t].app].search # <<>>
  /\ \A u \in Threads \ {t} : frame[u].op \notin {"addSuite", "removeSuite"}
  /\ \E s \in Suites :
       frame' = [frame EXCEPT ![t].pc = "lookup", ![t].goal = frame[t].op,
         ![t].todo = SuiteNames(s) \o
           <<<<frame[t].app, "user", "any">>, <<frame[t].app, "any", "any">>,
             <<AnyApp, "user", "any">>, <<AnyApp, "user", "this">>>>]
  /\ UNCHANGED <<file, cacheExists, cache, obj, prefs, locks, calls, foreign, history>>

IndexOf(list, o) ==
  IF o = None \/ o \notin Range(list) THEN 0
  ELSE CHOOSE i \in DOMAIN list : list[i] = o /\ \A j \in 1..(i - 1) : list[j] # o
InsertedAfter(list, i, o) == IF o = None THEN list ELSE InsertAt(list, i + 1, o)

\* The first of the three that is in the list; else its end.
AnyUserPlace(list, app, any, this) ==
  LET places == SelectSeq(<<IndexOf(list, app), IndexOf(list, any), IndexOf(list, this)>>,
                          LAMBDA i : i > 0)
  IN  IF places = <<>> THEN Len(list) ELSE places[1]

AddSuite(t) ==
  /\ At(t, "addSuite") /\ appLock = None /\ Done(t)
  /\ LET a == frame[t].app  f == frame[t].found
         user == IndexOf(prefs[a].search, f[5])
         list == InsertedAfter(InsertedAfter(prefs[a].search, user, f[1]), user, f[2])
         any == AnyUserPlace(list, f[6], f[7], f[8])
     IN  /\ \A o \in Objects :
              Cardinality({i \in DOMAIN list : list[i] = o}) <= MaxCopies
         /\ prefs' = [prefs EXCEPT ![a] = [Dropped(@) EXCEPT
              !.search = InsertedAfter(InsertedAfter(list, any, f[3]), any, f[4])]]
  /\ UNCHANGED <<file, cacheExists, cache, obj, locks, calls, foreign, history>>

\* The range that is searched: from the place of the last one found, and short
\* by that place each time.
Without(list, o) ==
  LET without[l \in Seq(Objects), from \in Nat, length \in Int] ==
        LET at == {i \in DOMAIN l : i > from /\ i <= from + length /\ l[i] = o}
            i == CHOOSE j \in at : \A k \in at : j <= k
        IN  IF at = {} THEN l ELSE without[RemoveAt(l, i), i - 1, length - i]
  IN  without[list, 0, Len(list)]

RemoveSuite(t) ==
  /\ At(t, "removeSuite") /\ appLock = None /\ Done(t)
  /\ LET a == frame[t].app
         suite == SelectSeq(SubSeq(frame[t].found, 1, 4), LAMBDA o : o # None)
         list == FoldLeft(Without, prefs[a].search, suite)
     IN  /\ prefs' = [prefs EXCEPT ![a] = [Dropped(@) EXCEPT !.search = list]]
         /\ leftOver' = leftOver \cup (Range(suite) \cap Range(list))
  /\ UNCHANGED <<file, cacheExists, cache, obj, locks, calls, foreign, latest, clobbered,
                 pending, outdated>>
----------------------------------------------------------------------------
\* Every domain in the cache is synchronized, with the cache's lock.
AppSynchronize(t) ==
  \E a \in Apps : Begin(t, "appSync", [Idle EXCEPT !.pc = "syncAll", !.app = a])

FlushCaches(t) ==
  \E a \in Apps :
    Begin(t, IF prefs[a].made THEN "flush" ELSE "purge",
          [Idle EXCEPT !.pc = "syncAll", !.app = a])

SyncAll(t) ==
  /\ At(t, "syncAll") /\ cacheLock = None /\ cacheLock' = t
  /\ IF frame[t].op = "purge" THEN UNCHANGED appLock ELSE appLock = None /\ appLock' = t
  /\ frame' = [frame EXCEPT ![t] =
       SyncEnds([@ EXCEPT !.left = IF cacheExists THEN Range(cache) \ {None} ELSE {}])]
  /\ UNCHANGED <<file, cacheExists, cache, obj, prefs, busy, calls, foreign, history>>

\* FlushCaches gives the application's preferences up, when nobody uses them,
\* then synchronizes once more and purges.
Synced(t) ==
  /\ At(t, "synced") /\ cacheLock' = None
  /\ appLock' = IF appLock = t THEN None ELSE appLock
  /\ LET a == frame[t].app IN
     \/ /\ frame[t].op = "appSync" /\ Done(t)
        /\ prefs' = [prefs EXCEPT ![a] = Dropped(@)]
     \/ /\ frame[t].op = "flush"
        /\ \A u \in Threads \ {t} : frame[u].app = None
        /\ prefs' = [prefs EXCEPT ![a] = NoPrefs]
        /\ frame' = [frame EXCEPT ![t].op = "purge", ![t].pc = "syncAll"]
     \/ /\ frame[t].op = "purge" /\ Goto(t, "purge") /\ UNCHANGED prefs
  /\ UNCHANGED <<file, cacheExists, cache, obj, busy, calls, foreign, history>>

Purge(t) ==
  /\ At(t, "purge") /\ cacheLock = None /\ cacheExists' = FALSE /\ Done(t)
  /\ \A u \in Threads \ {t} : frame[u].found = <<>> /\ frame[u].domain = None
  /\ cache' = [d \in Names |-> None]
  /\ obj' = [o \in Objects |->
       IF \E a \in Apps : o \in Range(prefs[a].search) THEN obj[o] ELSE Free]
  /\ pending' = {}
  /\ UNCHANGED <<file, prefs, locks, calls, foreign, latest, clobbered, outdated, leftOver>>
----------------------------------------------------------------------------
Next ==
  \/ \E t \in Threads :
       \/ CopyValue(t) \/ SetValue(t) \/ Synchronize(t) \/ AppCall(t)
       \/ AppSynchronize(t) \/ FlushCaches(t)
       \/ Lookup(t) \/ Insert(t) \/ Fetch(t) \/ Write(t) \/ Changed(t)
       \/ Load(t) \/ Save(t) \/ Check(t)
       \/ StandardPreferences(t) \/ SetSearchList(t) \/ Read(t) \/ TakeLock(t)
       \/ AppWrite(t) \/ BeginSuite(t) \/ AddSuite(t) \/ RemoveSuite(t)
       \/ SyncAll(t) \/ Synced(t) \/ Purge(t)
  \/ ForeignWrite

Spec == Init /\ [][Next]_vars
----------------------------------------------------------------------------
\* A value that was set in the cached domain of its name, and is not written
\* yet, is there and will be: no other object takes the domain's place
\* (CFPreferences.c:517).  Only a purge gives it up.
NoSetIsLost ==
  \A p \in pending :
    LET o == cache[p[1]] IN
    o # None /\ obj[o].loaded /\ obj[o].dict[p[2]] = p[3] /\ p[2] \in obj[o].dirty

\* What another process wrote is overwritten only by keys that were set here, or
\* if it wrote between this process's reading and its writing
\* (CFXMLPreferencesDomain.c:497-511).
OthersKeysAreKept == \A d \in Located \ clobbered : file[d] = latest[d]

\* The representation of an application is that of what was set, once the call
\* that set it has told so (CFApplicationPreferences.c:207).
RepresentationsFollow ==
  \A a \in Apps : prefs[a].known =>
    outdated[a] \cap Range(prefs[a].search) \subseteq
      {Found(t) : t \in {u \in Threads : At(u, "changed")}}

\* The domains of a search list are in the order of the table above the code:
\* suites are below the application and above all applications, for this user
\* and then for any (CFApplicationPreferences.c:378); a removed suite is gone.
Rank(d) == <<IF d[2] = "user" THEN 0 ELSE 3,
             CASE d[1] \in Apps -> 0 [] d[1] \in Suites -> 1 [] OTHER -> 2>>
ListsAreInOrder ==
  \A a \in Apps : \A i, j \in DOMAIN prefs[a].search :
    LET rank(n) == LET r == Rank(obj[prefs[a].search[n]].name) IN r[1] + r[2]
    IN  i < j => rank(i) <= rank(j)
RemovedSuitesAreGone == leftOver = {}

PreferencesOK ==
  /\ NoSetIsLost /\ OthersKeysAreKept /\ RepresentationsFollow
  /\ ListsAreInOrder /\ RemovedSuitesAreGone
============================================================================
