-------------------------------- MODULE PlugIn --------------------------------
(* Bundles, their code, and plug-ins (CFBundle.c, CFPlugIn.c and the files   *)
(* beside them): the tables of bundles, code that is loaded, scheduled for   *)
(* unloading and unloaded, and factories, which have types, instances and    *)
(* the address of a function that may be in unloaded code.  One thread makes *)
(* the calls; the functions of a plug-in are called back within them.        *)
EXTENDS Integers, Sequences, SequencesExt, FiniteSets, FiniteSetsExt

CONSTANTS
  Bundles,     \* the bundles there may be, each at a URL of its own
  Unique,      \* those made with _CFBundleCreateUnique, which no table has
  Identifier,  \* bundle -> its identifier
  Version,     \* bundle -> its version
  Static,      \* bundle -> the factories its Info.plist has, each with its types
  Registers,   \* bundle -> the factories its dynamic registration adds, likewise
  Dynamic,     \* the bundles that have a dynamic registration
  Relents,     \* those whose registration asks for loading on demand
  Linked,      \* bundles whose code is there from the start
  Missing,     \* bundles whose code cannot be loaded
  IDs, Types,  \* the names of factories and of types
  MaxFactories, MaxInstances, \* bounds
  TypesBefore,   \* whether there was a type of plug-ins before
  UnloadsInUse,  \* whether code is unloaded that has instances
  Reregisters,   \* whether a name is given to a second factory
  RemovesLate    \* whether instances are removed by the name of what is not there

VARIABLES
  w,          \* bundles, factories and the tables that have them
  instances   \* what there is of each factory, of CFPlugInInstance or by its name

None == 0
NewBundle ==
  [made |-> FALSE, freed |-> FALSE, count |-> 0, loaded |-> FALSE, opens |-> 0,
   isPlugIn |-> FALSE, onDemand |-> FALSE, registering |-> FALSE, registered |-> FALSE,
   needs |-> FALSE, instances |-> 0, factories |-> <<>>]
Init ==
  /\ w = [bundles |-> [b \in Bundles |-> NewBundle], toUnload |-> {}, all |-> {},
          byId |-> [i \in {Identifier[b] : b \in Bundles} |-> <<>>],
          factories |-> <<>>, byFactory |-> [i \in IDs |-> None],
          byType |-> [t \in Types |-> <<>>], hadTypes |-> TypesBefore, held |-> None, stuck |-> FALSE]
  /\ instances = <<>>

Made(b) == w.bundles[b].made /\ ~w.bundles[b].freed
Without(seq, x) == IF Contains(seq, x) THEN RemoveAt(seq, SelectInSeq(seq, LAMBDA y : y = x)) ELSE seq
\* A factory whose lock is held by this very thread is waited for forever.
Locked(v, f) == [v EXCEPT !.stuck = @ \/ v.held = f]
----------------------------------------------------------------------------
Flush(v, b) ==
  FoldLeft(LAMBDA u, f : [Locked(u, f) EXCEPT !.factories[f].func = FALSE],
           v, v.bundles[b].factories)
UnloadOne(v, b) ==
  IF ~v.bundles[b].loaded THEN v
  ELSE [Flush([v EXCEPT !.toUnload = @ \ {b}], b) EXCEPT
          !.bundles[b].loaded = FALSE, !.bundles[b].opens = @ - 1]
UnloadScheduled(v) ==
  FoldLeft(UnloadOne, v, SetToSeq(v.toUnload))
Unload(v, b) == UnloadOne(UnloadScheduled(v), b)
Schedule(v, b) == [v EXCEPT !.toUnload = @ \cup {b}]
Unschedule(v, b) == [v EXCEPT !.toUnload = @ \ {b}]

\* A bundle goes with its last reference; its factories have retained it.
ReleaseBundle(v, b) ==
  LET less == [v EXCEPT !.bundles[b].count = @ - 1]
  IN IF less.bundles[b].count # 0 THEN less
     ELSE [Unload(less, b) EXCEPT !.bundles[b].isPlugIn = FALSE, !.bundles[b].freed = TRUE]
----------------------------------------------------------------------------
\* Factories.
Find(v, id) ==
  LET f == v.byFactory[id]
  IN IF f # None /\ v.factories[f].enabled THEN f ELSE None
RemoveType(v, f, t) ==
  [Locked(v, f) EXCEPT !.factories[f].types = Without(@, t), !.byType[t] = Without(@, f)]
FreeFactory(v, f) ==
  LET p == v.factories[f].plugIn
      out == IF v.hadTypes THEN [v EXCEPT !.byFactory[v.factories[f].id] = None] ELSE v
      left == IF p = None THEN out
              ELSE ReleaseBundle([out EXCEPT !.bundles[p].factories =
                                    IF v.bundles[p].isPlugIn THEN Without(@, f) ELSE @], p)
      none == FoldLeft(LAMBDA u, t : RemoveType(u, f, t), left, Reverse(v.factories[f].types))
  IN [none EXCEPT !.factories[f].freed = TRUE]
ReleaseFactory(v, f) ==
  LET less == [v EXCEPT !.factories[f].count = @ - 1]
  IN IF less.factories[f].count = 0 THEN FreeFactory(less, f) ELSE less
Disable(v, f) == ReleaseFactory([Locked(v, f) EXCEPT !.factories[f].enabled = FALSE], f)
NewFactory(v, id, p) ==
  LET f == Len(v.factories) + 1
      there == [v EXCEPT !.byFactory[id] = f,
                  !.factories = Append(@, [id |-> id, enabled |-> TRUE, plugIn |-> p,
                                           func |-> p = None, types |-> <<>>, count |-> 1,
                                           freed |-> FALSE])]
  IN IF p = None THEN there
     ELSE [there EXCEPT !.bundles[p].count = @ + 1,
             !.bundles[p].factories = IF v.bundles[p].isPlugIn THEN Append(@, f) ELSE @]
AddType(v, f, t) ==
  [Locked(v, f) EXCEPT !.factories[f].types = Append(@, t), !.byType[t] = Append(@, f),
                       !.hadTypes = TRUE]
RegisterType(v, id, t) == IF Find(v, id) = None THEN v ELSE AddType(v, Find(v, id), t)
RegisterAll(v, b, list) ==
  LET made == FoldLeft(LAMBDA u, r : NewFactory(u, r.id, b), v, list)
  IN FoldLeft(LAMBDA u, r : FoldLeft(LAMBDA x, t : RegisterType(x, r.id, t), u, r.types),
              made, list)
----------------------------------------------------------------------------
\* Loading.  What was scheduled for unloading goes first.
SetLoadOnDemandFlag(v, b, flag) == [v EXCEPT !.bundles[b].onDemand = flag]
AfterRegistering(v, b) ==
  IF v.bundles[b].onDemand /\ v.bundles[b].instances = 0 THEN Unload(v, b) ELSE v
Asked(v, b) == IF b \in Relents THEN SetLoadOnDemandFlag(v, b, TRUE) ELSE v
RegisteredBy(v, b) ==
  [Asked(RegisterAll(v, b, Registers[b]), b) EXCEPT !.bundles[b].registering = FALSE]
PlugInLoaded(v, b) ==
  LET s == v.bundles[b]
  IN IF ~s.isPlugIn \/ s.registering \/ ~s.loaded \/ ~s.needs THEN v
     ELSE AfterRegistering(
            RegisteredBy([v EXCEPT !.bundles[b].needs = FALSE, !.bundles[b].onDemand = FALSE,
                                   !.bundles[b].registering = TRUE], b), b)
\* A handle is taken for code that is there already.
CheckLoaded(v, b) ==
  IF v.bundles[b].loaded \/ (v.bundles[b].opens = 0 /\ b \notin Linked) THEN v
  ELSE [v EXCEPT !.bundles[b].loaded = TRUE, !.bundles[b].opens = @ + 1]
Opened(v, b) ==
  IF b \in Missing THEN v
  ELSE PlugInLoaded([v EXCEPT !.bundles[b].loaded = TRUE, !.bundles[b].opens = @ + 1], b)
LoadUnlessKnown(known, b) ==
  IF known.bundles[b].loaded THEN Unschedule(known, b) ELSE Opened(UnloadScheduled(known), b)
Load(v, b) == LoadUnlessKnown(CheckLoaded(v, b), b)
SetLoadOnDemand(v, b, flag) ==
  LET set == SetLoadOnDemandFlag(v, b, flag)
      s == v.bundles[b]
  IN IF ~s.isPlugIn THEN v
     ELSE IF flag THEN (IF ~s.registering /\ s.instances = 0 THEN Unload(set, b) ELSE set)
     ELSE Load(set, b)
StaticRegistered(v, b) ==
  IF b \notin Dynamic THEN v ELSE PlugInLoaded([v EXCEPT !.bundles[b].needs = TRUE], b)
InitPlugIn(v, b) ==
  LET plug == [v EXCEPT !.bundles[b].isPlugIn = TRUE, !.bundles[b].onDemand = TRUE,
                        !.bundles[b].registered = TRUE]
  IN IF (Static[b] = <<>> /\ b \notin Dynamic) \/ v.bundles[b].registered THEN v
     ELSE StaticRegistered(RegisterAll(plug, b, Static[b]), b)
----------------------------------------------------------------------------
\* The tables: those of one identifier in descending order of their versions,
\* the last that was made first.
AddToTables(v, b) ==
  LET list == v.byId[Identifier[b]]
      at == Min({i \in DOMAIN list : Version[b] >= Version[list[i]]} \cup {Len(list) + 1})
  IN IF b \in Unique THEN v
     ELSE [v EXCEPT !.all = @ \cup {b}, !.byId[Identifier[b]] = InsertAt(@, at, b),
                    !.bundles[b].count = @ + 1]
GetFromTables(v, id) ==
  LET list == v.byId[id]
      loaded == {i \in DOMAIN list : v.bundles[list[i]].loaded}
  IN IF list = <<>> THEN None ELSE IF loaded = {} THEN list[1] ELSE list[Min(loaded)]
CreateBundle(v, b, loaded) ==
  LET made == [v EXCEPT !.bundles[b].made = TRUE, !.bundles[b].count = 1]
      there == AddToTables(made, b)
      known == CheckLoaded(there, b)
  IN InitPlugIn(IF loaded THEN known ELSE there, b)

Fits(v) == Len(v.factories) <= MaxFactories
Create(b) == ~w.bundles[b].made /\ w' = CreateBundle(w, b, FALSE) /\ UNCHANGED instances
\* Every image there is gets its bundle.
EnsureUpToDate ==
  /\ \E b \in Linked \ Unique : ~w.bundles[b].made
  /\ w' = FoldLeft(LAMBDA v, b : CreateBundle(v, b, TRUE), w,
                   SetToSeq({b \in Linked \ Unique : ~w.bundles[b].made}))
  /\ UNCHANGED instances
\* The creator of a unique bundle gives it back.
GiveBack(b) ==
  /\ Made(b) /\ b \in Unique
  /\ w.bundles[b].count > Cardinality({f \in DOMAIN w.factories :
                              w.factories[f].plugIn = b /\ ~w.factories[f].freed})
                            + w.bundles[b].instances
  /\ w' = ReleaseBundle(w, b) /\ UNCHANGED instances
LoadExecutable(b) == Made(b) /\ w' = Load(w, b) /\ UNCHANGED instances
UnloadExecutable(b) ==
  /\ Made(b) /\ (UnloadsInUse \/ w.bundles[b].instances = 0)
  /\ w' = Unload(w, b) /\ UNCHANGED instances
LoadOnDemand(b) ==
  \E flag \in BOOLEAN : Made(b) /\ w' = SetLoadOnDemand(w, b, flag) /\ UNCHANGED instances
----------------------------------------------------------------------------
\* An instance retains its factory, and with it the plug-in, which counts it.
AddInstance(v, f) ==
  LET p == v.factories[f].plugIn
      s == v.bundles[p]
      kept == [v EXCEPT !.factories[f].count = @ + 1]
      wanted == IF s.instances = 0 /\ s.onDemand THEN Unschedule(kept, p) ELSE kept
  IN IF p = None \/ ~s.isPlugIn THEN kept
     ELSE [wanted EXCEPT !.bundles[p].instances = @ + 1, !.bundles[p].count = @ + 1]
RemoveInstance(v, f) ==
  LET p == v.factories[f].plugIn
      less == [v EXCEPT !.bundles[p].instances = @ - 1]
      last == less.bundles[p].instances = 0 /\ less.bundles[p].onDemand
      gone == IF last THEN Schedule(less, p) ELSE less
  IN IF p = None \/ ~v.bundles[p].isPlugIn THEN ReleaseFactory(v, f)
     ELSE ReleaseFactory(ReleaseBundle(gone, p), f)

\* The function of the factory is looked for under the lock of the factory, and
\* called without it; it makes an instance.
FunctionOf(v, f, p) == [v EXCEPT !.factories[f].func = v.bundles[p].loaded, !.held = None]
LoadedFor(v, p) == IF p = None \/ v.bundles[p].loaded THEN v ELSE Load(v, p)
FunctionFound(v, f) ==
  LET p == v.factories[f].plugIn
  IN IF v.factories[f].func THEN v ELSE FunctionOf(LoadedFor([v EXCEPT !.held = f], p), f, p)
InstanceOf(ready, f) ==
  IF ready.factories[f].func
  THEN /\ w' = AddInstance(ready, f)
       /\ \E kind \in {"object", "named"} :
            instances' = Append(instances, [factory |-> f, kind |-> kind])
  ELSE w' = ready /\ UNCHANGED instances
CreateInstance(id, t) ==
  LET f == Find(w, id)
  IN /\ f # None /\ Contains(w.factories[f].types, t) /\ Len(instances) < MaxInstances
     /\ InstanceOf(FunctionFound(w, f), f)
\* A CFPlugInInstance has the address of its factory; others have its name.
DeleteInstance(i) ==
  LET f == IF instances[i].kind = "object" THEN instances[i].factory
           ELSE Find(w, w.factories[instances[i].factory].id)
  IN /\ instances' = RemoveAt(instances, i)
     /\ w' = IF f = None THEN w ELSE RemoveInstance(w, f)

Reserved == {r.id : r \in UNION {ToSet(Static[b]) \cup ToSet(Registers[b]) : b \in Bundles}}
RegisterFactory(id) ==
  /\ Reregisters \/ (id \notin Reserved /\ \A f \in DOMAIN w.factories : w.factories[f].id # id)
  /\ w' = NewFactory(w, id, None) /\ UNCHANGED instances
UnregisterFactory(id) ==
  LET f == Find(w, id)
  IN /\ f # None
     /\ RemovesLate \/ \A i \in DOMAIN instances :
          instances[i].factory = f => instances[i].kind = "object"
     /\ w' = Disable(w, f) /\ UNCHANGED instances
RegisterPlugInType(id, t) ==
  /\ Find(w, id) # None /\ ~Contains(w.factories[Find(w, id)].types, t)
  /\ w' = RegisterType(w, id, t) /\ UNCHANGED instances
UnregisterPlugInType(id, t) ==
  /\ Find(w, id) # None /\ w' = RemoveType(w, Find(w, id), t) /\ UNCHANGED instances

Calls ==
  \/ \E b \in Bundles :
       Create(b) \/ GiveBack(b) \/ LoadExecutable(b) \/ UnloadExecutable(b) \/ LoadOnDemand(b)
  \/ EnsureUpToDate
  \/ \E i \in DOMAIN instances : DeleteInstance(i)
  \/ \E id \in IDs :
       \/ RegisterFactory(id) \/ UnregisterFactory(id)
       \/ \E t \in Types :
            CreateInstance(id, t) \/ RegisterPlugInType(id, t) \/ UnregisterPlugInType(id, t)
Next == ~w.stuck /\ Calls /\ Fits(w')
----------------------------------------------------------------------------
Live == {f \in DOMAIN w.factories : ~w.factories[f].freed}
Of(f) == {i \in DOMAIN instances : instances[i].factory = f}
Plug(b) == w.bundles[b].isPlugIn

\* A function that is remembered is in code that is loaded: a call of what was
\* unloaded would crash long after the unloading (CFPlugIn_Factory.c:212).
CachedCodeIsLoaded ==
  \A f \in Live :
    LET p == w.factories[f].plugIn
    IN w.factories[f].func /\ p # None => w.bundles[p].loaded

\* What waits to be unloaded is there, has no instances, and is not a plug-in
\* that was to stay loaded; what has instances is loaded, whatever was
\* scheduled before they were made (CFBundle.c:1404, CFPlugIn_PlugIn.c:152-204).
ScheduledIsUnused ==
  \A b \in w.toUnload : Made(b) /\ w.bundles[b].instances = 0 /\ w.bundles[b].onDemand
InstancesHaveTheirCode ==
  \A b \in Bundles : Plug(b) /\ w.bundles[b].instances > 0 /\ ~UnloadsInUse => w.bundles[b].loaded

\* The count of a plug-in is that of its instances, and each handle is had once.
InstancesAreCounted ==
  \A b \in Bundles :
    /\ Made(b) /\ Plug(b) =>
         w.bundles[b].instances = Cardinality(UNION {Of(f) : f \in {f \in Live : w.factories[f].plugIn = b}})
    /\ w.bundles[b].opens = IF w.bundles[b].loaded THEN 1 ELSE 0
    /\ w.bundles[b].freed => ~w.bundles[b].loaded /\ w.bundles[b].factories = <<>>

\* A disabled factory is destroyed with its last instance, not before
\* (CFPlugIn_Factory.c:287), and the tables have what is there.
FactoriesEndWhenUnused ==
  \A f \in DOMAIN w.factories :
    w.factories[f].freed <=> ~w.factories[f].enabled /\ Of(f) = {}
TablesAreOfLive ==
  /\ \A id \in IDs : w.byFactory[id] # None => w.byFactory[id] \in Live
  /\ \A f \in Live : w.byFactory[w.factories[f].id] = f
  /\ \A t \in Types :
       ToSet(w.byType[t]) = {f \in Live : Contains(w.factories[f].types, t)}

\* The bundle of an identifier is a loaded one, if there is one, and of those
\* the newest.
BundlesAreFound ==
  \A id \in DOMAIN w.byId :
    LET of == {b \in Bundles \ Unique : Identifier[b] = id /\ Made(b)}
        loaded == {b \in of : w.bundles[b].loaded}
        best == IF loaded = {} THEN of ELSE loaded
        b == GetFromTables(w, id)
    IN IF of = {} THEN b = None
       ELSE b \in best /\ \A c \in best : Version[c] <= Version[b]
NeverStuck == ~w.stuck

TypeOK ==
  /\ w.toUnload \subseteq Bundles /\ w.all = {b \in Bundles \ Unique : Made(b)}
  /\ \A b \in Bundles : w.bundles[b].count >= 0 /\ w.bundles[b].instances >= 0
============================================================================
