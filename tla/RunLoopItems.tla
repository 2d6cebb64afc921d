---------------------------- MODULE RunLoopItems ----------------------------
(* Sources and observers in the modes of run loops (CFRunLoop.c): adding and *)
(* removing them, also through the common modes, invalidating them, calling  *)
(* observers, and the end of the loop's thread.  A step is one critical      *)
(* section of the run loop's lock, which is recursive and held over a whole  *)
(* operation, or one of an item's own lock; what a call has read before it   *)
(* takes a lock is in its frame.                                             *)
EXTENDS Integers, Sequences, SequencesExt, FiniteSets, FiniteSetsExt

CONSTANTS
  Threads, Loops, Modes, Sources, Observers,
  Owner,        \* the thread of each loop
  Common,       \* the pseudo mode kCFRunLoopCommonModes
  Default,      \* kCFRunLoopDefaultMode, a common mode from the start
  PortOf,       \* the port of a version 1 source, None for version 0
  Forgetful,    \* sources whose getPort answers 0 by the time of invalidation
  Repeats, Order, \* of observers
  None,
  MaxCalls, MaxDepth

ItemsAssumption ==
  /\ Owner \in [Loops -> Threads]
  /\ Default \in Modes /\ Common \notin Modes
  /\ Forgetful \subseteq Sources
  /\ \A o \in Observers : Repeats[o] \in BOOLEAN /\ Order[o] \in Int
  /\ Sources \cap Observers = {}
  /\ MaxCalls \in Nat /\ MaxDepth \in Nat

Items == Sources \cup Observers
Ports == {PortOf[s] : s \in Sources} \ {None}

VARIABLES
  modes,        \* of a loop: the modes that exist
  commonModes, commonItems, \* of a loop
  sources,      \* of a loop and mode: _sources0 and _sources1
  observers,    \* of a loop and mode: the array _observers
  portMap,      \* of a loop and mode: _portToV1SourceMap
  valid,        \* the valid items
  portless,     \* the sources whose getPort answers 0
  runLoops,     \* of a source: the bag _runLoops
  runLoop, rlCount, \* of an observer
  firing,       \* the observers that are firing
  status,       \* of a loop: "live", "purged" or "freed"
  stack,        \* of a thread: its calls
  calls,        \* calls made so far (bounded)
  scheduled,    \* of a source: schedule callouts less cancel callouts
  fired,        \* the observers that have been called
  late,         \* items put in a mode after they had been invalidated
  takenOut      \* <<loop, item, mode>>: removed from one mode by name

loopVars == <<modes, commonModes, commonItems, sources, observers, portMap>>
itemVars == <<valid, portless, runLoops, runLoop, rlCount, firing>>
history  == <<scheduled, fired, late, takenOut>>
vars == <<loopVars, itemVars, status, stack, calls, history>>

Init ==
  /\ modes = [l \in Loops |-> {Default}]
  /\ commonModes = [l \in Loops |-> {Default}]
  /\ commonItems = [l \in Loops |-> {}]
  /\ sources = [l \in Loops |-> [m \in Modes |-> {}]]
  /\ observers = [l \in Loops |-> [m \in Modes |-> <<>>]]
  /\ portMap = [l \in Loops |-> [m \in Modes |-> [p \in Ports |-> None]]]
  /\ valid = Items /\ portless = {}
  /\ runLoops = [s \in Sources |-> [l \in Loops |-> 0]]
  /\ runLoop = [o \in Observers |-> None]
  /\ rlCount = [o \in Observers |-> 0]
  /\ firing = {}
  /\ status = [l \in Loops |-> "live"]
  /\ stack = [t \in Threads |-> <<>>] /\ calls = 0
  /\ scheduled = [s \in Sources |-> 0]
  /\ fired = {} /\ late = {} /\ takenOut = {}

(***************************************************************************)
(* Calls                                                                   *)
(***************************************************************************)
Frame(op, l, i, m) == [op |-> op, loop |-> l, item |-> i, mode |-> m,
                       todo |-> <<>>, callouts |-> 0]

At(t, op) == stack[t] # <<>> /\ Last(stack[t]).op = op
Top(t) == Last(stack[t])
Push(t, f) == stack' = [stack EXCEPT ![t] = Append(@, f)]
Pop(t) == stack' = [stack EXCEPT ![t] = Front(@)]
Become(t, f) == stack' = [stack EXCEPT ![t] = Append(Front(@), f)]

\* A thread calls from outside of the module or from an observer's callout.
MayCall(t) ==
  /\ calls < MaxCalls /\ Len(stack[t]) < MaxDepth
  /\ stack[t] = <<>> \/ At(t, "callout")
Calls(t) == MayCall(t) /\ calls' = calls + 1

\* A caller holds a reference to the loop it names.
Uses(l) == \E t \in Threads : \E k \in DOMAIN stack[t] : stack[t][k].loop = l

(***************************************************************************)
(* Putting items in modes and taking them out, under the loop's lock       *)
(***************************************************************************)
InMode(l, i, m) == \/ i \in Sources /\ i \in sources[l][m]
                   \/ i \in Observers /\ i \in ToSet(observers[l][m])
ModesOf(l, i) == {m \in Modes : InMode(l, i, m)}
Pairs(S, m) == {p \in S : p[2] = m}
PortNow(s) == IF s \in portless THEN None ELSE PortOf[s]

\* The last place after an observer whose order is not greater.
InsertObserver(o, array) ==
  LET before == {k \in DOMAIN array : Order[array[k]] <= Order[o]}
  IN  InsertAt(array, 1 + (IF before = {} THEN 0 ELSE Max(before)), o)

\* What the checks made before and inside of the lock let through.
Accepts(l, i) == i \in valid /\ (i \in Observers => runLoop[i] \in {None, l})

\* Items are put in modes: new is a set of pairs of an item and a mode.
Put(l, pairs) ==
  LET new == {p \in pairs : ~InMode(l, p[1], p[2])}
      of(i) == Cardinality({p \in new : p[1] = i})
  IN
  /\ sources' = [sources EXCEPT ![l] = [m \in Modes |->
       @[m] \cup {p[1] : p \in {q \in Pairs(new, m) : q[1] \in Sources}}]]
  /\ observers' = [observers EXCEPT ![l] = [m \in Modes |->
       FoldSet(InsertObserver, @[m],
               {p[1] : p \in {q \in Pairs(new, m) : q[1] \in Observers}})]]
  /\ portMap' = [portMap EXCEPT ![l] = [m \in Modes |-> [p \in Ports |->
       LET mapped == {s \in Sources : <<s, m>> \in new /\ PortNow(s) = p}
       IN  IF mapped = {} THEN @[m][p] ELSE CHOOSE s \in mapped : TRUE]]]
  /\ runLoops' = [s \in Sources |-> [runLoops[s] EXCEPT ![l] = @ + of(s)]]
  /\ rlCount' = [o \in Observers |-> rlCount[o] + of(o)]
  /\ runLoop' = [o \in Observers |->
       IF rlCount[o] = 0 /\ of(o) > 0 THEN l ELSE runLoop[o]]
  /\ modes' = [modes EXCEPT ![l] = @ \cup {p[2] : p \in pairs}]
  /\ takenOut' = takenOut \ {<<l, p[1], p[2]>> : p \in new}

\* The bag loses one reference for each mode; it may have been taken away.
Fewer(count, n) == IF n > count THEN 0 ELSE count - n

\* The entry of the port a source says it has now, whatever it is mapped to.
Unmapped(map, s) ==
  IF PortNow(s) = None THEN map ELSE [map EXCEPT ![PortNow(s)] = None]

\* An item is taken out of modes it is in.
Take(l, i, ms) ==
  LET from == ms \cap ModesOf(l, i)
      n == Cardinality(from)
  IN
  /\ IF i \in Sources
     THEN /\ sources' = [sources EXCEPT ![l] = [m \in Modes |->
               IF m \in from THEN @[m] \ {i} ELSE @[m]]]
          /\ portMap' = [portMap EXCEPT ![l] = [m \in Modes |->
               IF m \in from THEN Unmapped(@[m], i) ELSE @[m]]]
          /\ runLoops' = [runLoops EXCEPT ![i][l] = Fewer(@, n)]
          /\ UNCHANGED <<observers, rlCount, runLoop>>
     ELSE /\ observers' = [observers EXCEPT ![l] = [m \in Modes |->
               IF m \in from THEN Remove(@[m], i) ELSE @[m]]]
          /\ rlCount' = [rlCount EXCEPT ![i] = @ - n]
          /\ runLoop' = [runLoop EXCEPT ![i] =
               IF n > 0 /\ rlCount[i] = n THEN None ELSE @]
          /\ UNCHANGED <<sources, portMap, runLoops>>
  /\ UNCHANGED modes

\* The callouts of a version 0 source, made after the lock is let go; those
\* of the common modes are made under it.
Callouts(l, i, ms, put) ==
  IF i \in Sources /\ PortOf[i] = None
  THEN (IF put THEN 1 ELSE -1)
       * Cardinality({m \in ms : InMode(l, i, m) = ~put})
  ELSE 0

(***************************************************************************)
(* CFRunLoopAddSource, CFRunLoopAddObserver                                *)
(***************************************************************************)
AddItem(t, l, i, m) ==
  /\ Calls(t) /\ status[l] = "live"
  /\ IF Accepts(l, i)
     THEN Push(t, Frame("add", l, i, m))
     ELSE UNCHANGED stack
  /\ UNCHANGED <<loopVars, itemVars, status, history>>

\* The modes an item is put in: for the common modes the check is made again.
Targets(l, i, m) ==
  IF m # Common THEN {m}
  ELSE IF Accepts(l, i) THEN commonModes[l] ELSE {}

AddLocked(t) ==
  /\ At(t, "add")
  /\ LET f == Top(t)
         ms == Targets(f.loop, f.item, f.mode)
     IN
     /\ Put(f.loop, {f.item} \X ms)
     /\ commonItems' = IF f.mode = Common
          THEN [commonItems EXCEPT ![f.loop] = @ \cup {f.item}] ELSE commonItems
     /\ late' = IF f.item \in valid THEN late ELSE late \cup {f.item}
     /\ Become(t, [f EXCEPT !.op = "called",
                            !.callouts = Callouts(f.loop, f.item, ms, TRUE)])
  /\ UNCHANGED <<commonModes, valid, portless, firing, status, calls, scheduled,
                 fired>>

\* The schedule and cancel callouts, and the end of the call.
MakeCallouts(t) ==
  /\ At(t, "called")
  /\ scheduled' = IF Top(t).item \in Sources
       THEN [scheduled EXCEPT ![Top(t).item] = @ + Top(t).callouts]
       ELSE scheduled
  /\ Pop(t)
  /\ UNCHANGED <<loopVars, itemVars, status, calls, fired, late, takenOut>>

(***************************************************************************)
(* CFRunLoopRemoveSource, CFRunLoopRemoveObserver                          *)
(***************************************************************************)
RemovedFrom(l, i, m) ==
  IF m # Common THEN {m}
  ELSE IF i \in commonItems[l] THEN commonModes[l] ELSE {}

RemoveItem(t, l, i, m) ==
  /\ Calls(t) /\ status[l] = "live"
  /\ Take(l, i, RemovedFrom(l, i, m))
  /\ commonItems' = IF m = Common
       THEN [commonItems EXCEPT ![l] = @ \ {i}] ELSE commonItems
  /\ Push(t, [Frame("called", l, i, m) EXCEPT
       !.callouts = Callouts(l, i, RemovedFrom(l, i, m), FALSE)])
  /\ takenOut' = IF m = Common THEN takenOut ELSE takenOut \cup {<<l, i, m>>}
  /\ UNCHANGED <<commonModes, valid, portless, firing, status, scheduled, fired,
                 late>>

(***************************************************************************)
(* CFRunLoopAddCommonMode                                                  *)
(***************************************************************************)
CommonItemsFor(l) == {i \in commonItems[l] : Accepts(l, i)}

AddCommonMode(t, l, m) ==
  /\ Calls(t) /\ status[l] = "live" /\ m \notin commonModes[l]
  /\ commonModes' = [commonModes EXCEPT ![l] = @ \cup {m}]
  /\ Put(l, CommonItemsFor(l) \X {m})
  /\ scheduled' = [s \in Sources |-> scheduled[s] +
       (IF s \in CommonItemsFor(l) THEN Callouts(l, s, {m}, TRUE) ELSE 0)]
  /\ UNCHANGED <<commonItems, valid, portless, firing, status, stack, fired, late>>

(***************************************************************************)
(* CFRunLoopSourceInvalidate, CFRunLoopObserverInvalidate                  *)
(***************************************************************************)
\* Under the item's lock: it becomes invalid and its loops are taken from it.
Invalidated(i) ==
  /\ valid' = valid \ {i}
  /\ runLoops' = IF i \in Sources
       THEN [runLoops EXCEPT ![i] = [l \in Loops |-> 0]] ELSE runLoops

LoopsToLeave(i) == IF i \in Sources THEN {l \in Loops : runLoops[i][l] > 0}
                   ELSE {runLoop[i]} \ {None}

LeaveFrame(i) ==
  [Frame("leave", None, i, None) EXCEPT !.todo = SetToSeq(LoopsToLeave(i))]

InvalidateItem(t, i) ==
  /\ Calls(t) /\ i \in valid
  /\ Invalidated(i)
  /\ portless' = IF i \in Forgetful THEN portless \cup {i} ELSE portless
  /\ Push(t, LeaveFrame(i))
  /\ UNCHANGED <<loopVars, runLoop, rlCount, firing, status, history>>

AllModes_Common(l) == commonModes[l]   \* mutant
\* The modes an invalid item is taken out of, and the common items.
AllModes(l) == modes[l]

\* With the item unlocked, under the lock of each loop: it leaves all modes.
LeaveNext(t) ==
  /\ At(t, "leave") /\ Top(t).todo # <<>>
  /\ LET l == Head(Top(t).todo)
         i == Top(t).item
     IN
     /\ Take(l, i, AllModes(l))
     /\ commonItems' = [commonItems EXCEPT ![l] = @ \ {i}]
     /\ scheduled' = IF i \in Sources
          THEN [scheduled EXCEPT ![i] = @ + Callouts(l, i, AllModes(l), FALSE)]
          ELSE scheduled
  /\ Become(t, [Top(t) EXCEPT !.todo = Tail(@)])
  /\ UNCHANGED <<commonModes, valid, portless, firing, status, calls, fired, late,
                 takenOut>>

Left(t) ==
  /\ At(t, "leave") /\ Top(t).todo = <<>>
  /\ Pop(t)
  /\ UNCHANGED <<loopVars, itemVars, status, calls, history>>

(***************************************************************************)
(* __CFRunLoopDoObservers, by the thread of the loop                       *)
(***************************************************************************)
Collects_Firing(o) == o \in valid   \* mutant
Collects(o) == o \in valid /\ o \notin firing

DoObservers(t, l, m) ==
  /\ Calls(t) /\ Owner[l] = t /\ status[l] = "live" /\ m \in modes[l]
  /\ observers[l][m] # <<>>
  /\ Push(t, [Frame("pass", l, None, m) EXCEPT
       !.todo = SelectSeq(observers[l][m], Collects)])
  /\ UNCHANGED <<loopVars, itemVars, status, history>>

\* The validity is looked at again, under the observer's lock.
StillValid(o) == o \in valid

CallObserver(t) ==
  /\ At(t, "pass") /\ Top(t).todo # <<>>
  /\ LET f == Top(t)
         o == Head(f.todo)
         rest == Append(Front(stack[t]), [f EXCEPT !.todo = Tail(@)])
     IN
     IF StillValid(o)
     THEN /\ firing' = firing \cup {o} /\ fired' = fired \cup {o}
          /\ stack' = [stack EXCEPT ![t] =
               Append(rest, Frame("callout", f.loop, o, f.mode))]
     ELSE stack' = [stack EXCEPT ![t] = rest] /\ UNCHANGED <<firing, fired>>
  /\ UNCHANGED <<loopVars, valid, portless, runLoops, runLoop, rlCount, status,
                 calls, scheduled, late, takenOut>>

\* The callout is over: an observer that does not repeat is invalidated.
CalloutReturns(t) ==
  /\ At(t, "callout")
  /\ LET o == Top(t).item
         back == [Top(t) EXCEPT !.op = "unset"]
     IN
     IF ~Repeats[o] /\ o \in valid
     THEN /\ Invalidated(o)
          /\ stack' = [stack EXCEPT ![t] =
               Front(@) \o <<back, LeaveFrame(o)>>]
     ELSE Become(t, back) /\ UNCHANGED <<valid, runLoops>>
  /\ UNCHANGED <<loopVars, portless, runLoop, rlCount, firing, status, calls,
                 history>>

UnsetFiring(t) ==
  /\ At(t, "unset")
  /\ firing' = firing \ {Top(t).item}
  /\ Pop(t)
  /\ UNCHANGED <<loopVars, valid, portless, runLoops, runLoop, rlCount, status,
                 calls, history>>

PassDone(t) ==
  /\ At(t, "pass") /\ Top(t).todo = <<>>
  /\ Pop(t)
  /\ UNCHANGED <<loopVars, itemVars, status, calls, history>>

(***************************************************************************)
(* The thread of a loop exits                                              *)
(***************************************************************************)
\* __CFFinalizeRunLoop takes the loop off the registry, so that nobody finds it
\* any more, and purges the sources of all its modes.
Purged(l, s) == {m \in Modes : s \in sources[l][m]}

Finalize(t, l) ==
  /\ Owner[l] = t /\ stack[t] = <<>> /\ status[l] = "live"
  /\ status' = [status EXCEPT ![l] = "purged"]
  /\ sources' = [sources EXCEPT ![l] = [m \in Modes |->
       {s \in @[m] : m \notin Purged(l, s)}]]
  /\ portMap' = [portMap EXCEPT ![l] = [m \in Modes |-> [p \in Ports |->
       IF \E s \in sources[l][m] : m \in Purged(l, s) /\ PortNow(s) = p
       THEN None ELSE @[m][p]]]]
  /\ runLoops' = [s \in Sources |->
       [runLoops[s] EXCEPT ![l] = Fewer(@, Cardinality(Purged(l, s)))]]
  /\ scheduled' = [s \in Sources |-> scheduled[s] +
       Callouts(l, s, Purged(l, s), FALSE)]
  /\ UNCHANGED <<modes, commonModes, commonItems, observers, valid, portless,
                 runLoop, rlCount, firing, stack, calls, fired, late, takenOut>>

\* The last reference is gone: what is left in the modes is cut loose.
CutLoose(l, o) == Cardinality({m \in Modes : o \in ToSet(observers[l][m])})

Deallocate(l) ==
  /\ status[l] = "purged" /\ ~Uses(l)
  /\ \A s \in Sources : runLoops[s][l] = 0
  /\ \A t \in Threads : ~\E k \in DOMAIN stack[t] :
       stack[t][k].op = "leave" /\ l \in ToSet(stack[t][k].todo)
  /\ status' = [status EXCEPT ![l] = "freed"]
  /\ sources' = [sources EXCEPT ![l] = [m \in Modes |-> {}]]
  /\ portMap' = [portMap EXCEPT ![l] = [m \in Modes |-> [p \in Ports |-> None]]]
  /\ scheduled' = [s \in Sources |-> scheduled[s] +
       Callouts(l, s, Purged(l, s), FALSE)]
  /\ rlCount' = [o \in Observers |-> rlCount[o] - CutLoose(l, o)]
  /\ runLoop' = [o \in Observers |->
       IF CutLoose(l, o) > 0 /\ rlCount[o] = CutLoose(l, o) THEN None
       ELSE runLoop[o]]
  /\ observers' = [observers EXCEPT ![l] = [m \in Modes |-> <<>>]]
  /\ commonItems' = [commonItems EXCEPT ![l] = {}]
  /\ commonModes' = [commonModes EXCEPT ![l] = {}]
  /\ modes' = [modes EXCEPT ![l] = {}]
  /\ UNCHANGED <<valid, portless, runLoops, firing, stack, calls, fired, late,
                 takenOut>>

Next ==
  \/ \E t \in Threads :
       \/ \E l \in Loops, i \in Items, m \in Modes \cup {Common} :
            AddItem(t, l, i, m) \/ RemoveItem(t, l, i, m)
       \/ \E l \in Loops, m \in Modes : AddCommonMode(t, l, m)
                                        \/ DoObservers(t, l, m)
       \/ \E i \in Items : InvalidateItem(t, i)
       \/ \E l \in Loops : Finalize(t, l)
       \/ AddLocked(t) \/ MakeCallouts(t) \/ LeaveNext(t) \/ Left(t)
       \/ CallObserver(t) \/ CalloutReturns(t) \/ UnsetFiring(t) \/ PassDone(t)
  \/ \E l \in Loops : Deallocate(l)

Spec == Init /\ [][Next]_vars
-----------------------------------------------------------------------------
(* The variables have their types, and arrays of observers are ordered, an   *)
(* observer being in them once (CFRunLoopAddObserver, 3449).                 *)
TypeOK ==
  /\ \A l \in Loops :
       /\ modes[l] \subseteq Modes /\ commonModes[l] \subseteq Modes
       /\ commonItems[l] \subseteq Items
       /\ status[l] \in {"live", "purged", "freed"}
       /\ \A m \in Modes :
            /\ sources[l][m] \subseteq Sources
            /\ \A p \in Ports : portMap[l][m][p] \in Sources \cup {None}
            /\ LET array == observers[l][m] IN
               \A j, k \in DOMAIN array :
                 j < k => array[j] # array[k] /\ Order[array[j]] <= Order[array[k]]
  /\ valid \subseteq Items /\ portless \subseteq Sources /\ firing \subseteq Observers
  /\ \A s \in Sources : runLoops[s] \in [Loops -> Nat] /\ scheduled[s] \in Int
  /\ \A o \in Observers : runLoop[o] \in Loops \cup {None} /\ rlCount[o] \in Nat
  /\ calls \in 0..MaxCalls

Doing(op, i) == \E t \in Threads : \E k \in DOMAIN stack[t] :
                  stack[t][k].op = op /\ stack[t][k].item = i

\* What an item knows of the loops it is in is exact, except while it is being
\* invalidated: invalidation finds every loop it has to leave (1226-1230).
BackReferencesAreExact ==
  /\ \A s \in Sources, l \in Loops :
       Doing("leave", s) \/ runLoops[s][l] = Cardinality(ModesOf(l, s))
  /\ \A o \in Observers :
       LET places == {p \in Loops \X Modes : InMode(p[1], o, p[2])} IN
       /\ rlCount[o] = Cardinality(places)
       /\ (runLoop[o] = None) = (places = {})

\* An item that was invalidated is in no mode once the invalidation is over,
\* unless a call that had found it valid before put it there afterwards (3237,
\* 3433); and in no common items, unless it had been taken out of modes by name
\* so that the loop was no longer known to it.
InvalidItemsLeave ==
  \A i \in Items : i \notin valid /\ ~Doing("leave", i) /\ i \notin late =>
    \A l \in Loops :
      /\ ModesOf(l, i) = {}
      /\ status[l] = "live" /\ (\A m \in Modes : <<l, i, m>> \notin takenOut)
           => i \notin commonItems[l]

\* A common item is in every common mode, those that became one later included,
\* except where a client took it out of one mode by its name (1704, 1737).
CommonItemsAreEverywhere ==
  \A l \in Loops : status[l] = "live" =>
    \A i \in commonItems[l] \cap valid, m \in commonModes[l] :
      InMode(l, i, m) \/ <<l, i, m>> \in takenOut

\* The schedule and cancel callouts of a version 0 source balance: once all are
\* made, as many are outstanding as modes have the source (3288, 3340, 1297).
CalloutsBalance ==
  \A s \in Sources : PortOf[s] = None /\ ~Doing("called", s) =>
    scheduled[s] = Cardinality({p \in Loops \X Modes : InMode(p[1], s, p[2])})

\* The port map of a mode holds the mode's version 1 sources and nothing else:
\* the loop finds a source it may call when a message arrives (1225, 3325).
PortsFindTheirSource ==
  \A l \in Loops, m \in Modes :
    /\ \A p \in Ports : portMap[l][m][p] # None =>
         portMap[l][m][p] \in sources[l][m] /\ PortOf[portMap[l][m][p]] = p
    /\ \A s \in sources[l][m] : PortOf[s] # None =>
         portMap[l][m][PortOf[s]] = s

\* Nothing but a late comer refers to a loop that is freed: neither a bag, nor
\* an observer, whose reference is not counted (1341, 1162).
FreedLoopsAreForgotten ==
  \A l \in Loops : status[l] = "freed" =>
    /\ \A s \in Sources : runLoops[s][l] = 0
    /\ \A o \in Observers : runLoop[o] # l

\* An observer is not called while it is being called, and one that does not
\* repeat is called once, however passes nest (1861, 1871-1885).
ObserverIsEnteredOnce ==
  \A o \in Observers, t \in Threads :
    Len(stack'[t]) > Len(stack[t]) /\ Last(stack'[t]).op = "callout"
      /\ Last(stack'[t]).item = o
    => o \notin firing /\ (Repeats[o] \/ o \notin fired)
ObserversAreNotReentered == [][ObserverIsEnteredOnce]_vars
=============================================================================
