------------------------------ MODULE MachPort -----------------------------
(***************************************************************************)
(* CFMachPort.c: CFMachPort objects, the table of the valid ones, the      *)
(* dispatch sources that watch for the death of their ports, and the       *)
(* records that put off giving a port's rights back until the source has   *)
(* been cancelled.                                                         *)
(*                                                                         *)
(* A port made by CFMachPortCreate has a send and a receive right, which   *)
(* are given back together.  The run loop sources of the objects, and the  *)
(* contexts, are left out.  dispatch_source_create does not fail, and the   *)
(* rights are given back as the records' lock is let go.                   *)
(***************************************************************************)
EXTENDS Naturals, Sequences, SequencesExt, FiniteSets

CONSTANTS
  Threads,        \* the clients' threads
  Main,           \* the main queue
  Objects,        \* the memory of CFMachPort objects
  OwnPorts,       \* the names CFMachPortCreate gets from the kernel
  ExternalPorts,  \* ports clients got elsewhere, with send rights
  None,
  MaxHeld         \* bound: no more calls for a port with so many references held

ASSUME MachPortAssumption ==
  /\ Main \notin Threads /\ OwnPorts \cap ExternalPorts = {}
  /\ None \notin Objects \cup OwnPorts \cup ExternalPorts
  /\ None \notin [doRights : BOOLEAN, invalidated : BOOLEAN]
  /\ MaxHeld \in Nat \ {0}

Ports == OwnPorts \cup ExternalPorts
Actors == Threads \cup {Main}

VARIABLES
  port,     \* the rights of the task to each port
  mp,       \* the CFMachPort objects
  table,    \* __CFAllMachPorts, which retains its objects
  source,   \* the dispatch source made for each object
  records,  \* the _cfmp_deallocation_record of each port
  blocks,   \* the objects whose invalidation waits on the main queue
  at        \* where each actor is, and the locals of its call

vars == <<port, mp, table, source, records, blocks, at>>

\* called counts the calls of the invalidation callback, and held the
\* references clients have: the latter is not in the code.
MachPorts ==
  [state : {"ready", "invalidating", "invalid", "deallocating", "gone"}, port : Ports \cup {None},
   dsrc : BOOLEAN, owns : BOOLEAN, icallout : BOOLEAN, called : Nat, refs : Nat, held : Nat]

Gone ==
  [state |-> "gone", port |-> None, dsrc |-> FALSE, owns |-> FALSE, icallout |-> FALSE,
   called |-> 0, refs |-> 0, held |-> 0]

Records == {None} \cup [doRights : BOOLEAN, invalidated : BOOLEAN]

Calls ==
  [pc : {"idle", "find", "make", "intent", "source", "check", "announce", "settle"},
   o : Objects \cup {None}, port : Ports \cup {None}, create : BOOLEAN]
Idle == [pc |-> "idle", o |-> None, port |-> None, create |-> FALSE]

Init ==
  /\ port = [p \in Ports |-> IF p \in ExternalPorts THEN "rights" ELSE "none"]
  /\ mp = [o \in Objects |-> Gone]
  /\ table = <<>>
  /\ source = [o \in Objects |-> "none"]
  /\ records = [p \in Ports |-> None]
  /\ blocks = <<>>
  /\ at = [a \in Actors |-> Idle]

Goto(a, pc) == at' = [at EXCEPT ![a].pc = pc]

\* CFRelease, and the part of __CFMachPortDeallocate under the object's lock.
\* (It would invalidate an object that is ready; none is, see RightsOutliveSources.)
Released(r) ==
  [r EXCEPT !.refs = @ - 1, !.state = IF r.refs = 1 THEN "deallocating" ELSE @]

----------------------------------------------------------------------------
(* The deallocation records, each operation under their lock. *)

\* _cfmp_record_intent_to_invalidate: a set, so that a record stays as it is.
WithIntent(p) ==
  IF records[p] = None THEN [records EXCEPT ![p] = [doRights |-> FALSE, invalidated |-> FALSE]]
  ELSE records

\* _cfmp_mod_refs
GivenBack(p) == [port EXCEPT ![p] = "none"]

AwaitsInvalidation(p) == records[p] # None /\ ~records[p].invalidated

IsDeferred_Never(p) == FALSE   \* mutant
IsDeferred(p) == AwaitsInvalidation(p)

\* _cfmp_record_deallocation
RecordDeallocation(p, doRights) ==
  \/ ~doRights /\ UNCHANGED <<records, port>>
  \/ /\ doRights /\ IsDeferred(p)
     /\ records' = [records EXCEPT ![p].doRights = TRUE]
     /\ UNCHANGED port
  \/ /\ doRights /\ ~IsDeferred(p)
     /\ records' = [records EXCEPT ![p] = None]
     /\ port' = GivenBack(p)

RecordsAfter_Kept(p) == records   \* mutant
RecordsAfter(p) == [records EXCEPT ![p] = None]

\* _cfmp_source_invalidated
SourceInvalidated(p) ==
  \/ /\ AwaitsInvalidation(p)
     /\ records' = RecordsAfter(p)
     /\ port' = IF records[p].doRights THEN GivenBack(p) ELSE port
  \/ /\ ~AwaitsInvalidation(p)
     /\ UNCHANGED <<records, port>>

----------------------------------------------------------------------------
(* Making an object. *)

\* CFMachPortCreate up to _CFMachPortCreateWithPort2
Create(t, p) ==
  /\ at[t] = Idle
  /\ p \in OwnPorts /\ port[p] = "none"
  /\ port' = [port EXCEPT ![p] = "rights"]
  /\ at' = [at EXCEPT ![t] = [Idle EXCEPT !.pc = "find", !.port = p, !.create = TRUE]]
  /\ UNCHANGED <<mp, table, source, records, blocks>>

\* CFMachPortCreateWithPort, for a port that has rights
CreateWithPort(t, p) ==
  /\ at[t] = Idle
  /\ p \in ExternalPorts /\ port[p] = "rights"
  /\ \A o \in Objects : mp[o].port = p => mp[o].held < MaxHeld
  /\ at' = [at EXCEPT ![t] = [Idle EXCEPT !.pc = "find", !.port = p]]
  /\ UNCHANGED <<port, mp, table, source, records, blocks>>

IsFirstFor(p, i) ==
  mp[table[i]].port = p /\ \A j \in DOMAIN table : j < i => mp[table[j]].port # p

\* The first object of the table for the port, if any, under the table's lock.
Find(t) ==
  /\ at[t].pc = "find"
  /\ \/ \E i \in DOMAIN table :
          /\ IsFirstFor(at[t].port, i)
          /\ mp' = [mp EXCEPT ![table[i]].refs = @ + 1]
          /\ at' = [at EXCEPT ![t].pc = "check", ![t].o = table[i]]
     \/ /\ \A i \in DOMAIN table : mp[table[i]].port # at[t].port
        /\ Goto(t, "make") /\ UNCHANGED mp
  /\ UNCHANGED <<port, table, source, records, blocks>>

IsUnused(o) == mp[o].state = "gone" /\ source[o] \in {"none", "handled"}

\* A new object, added to the table under its lock, which is taken once more.
Make(t, o) ==
  /\ at[t].pc = "make" /\ IsUnused(o)
  /\ mp' = [mp EXCEPT ![o] = [Gone EXCEPT !.state = "ready", !.port = at[t].port, !.refs = 2]]
  /\ source' = [source EXCEPT ![o] = "none"]
  /\ table' = Append(table, o)
  /\ at' = [at EXCEPT ![t].pc = "intent", ![t].o = o]
  /\ UNCHANGED <<port, records, blocks>>

\* No memory: NULL is returned, and CFMachPortCreate destroys the port.
MakeFails(t) ==
  /\ at[t].pc = "make" /\ ~(\E o \in Objects : IsUnused(o))
  /\ port' = IF at[t].create THEN GivenBack(at[t].port) ELSE port
  /\ at' = [at EXCEPT ![t] = Idle]
  /\ UNCHANGED <<mp, table, source, records, blocks>>

RecordIntent(t) ==
  /\ at[t].pc = "intent"
  /\ records' = WithIntent(at[t].port)
  /\ Goto(t, "source")
  /\ UNCHANGED <<port, mp, table, source, blocks>>

MakeSource(t) ==
  /\ at[t].pc = "source"
  /\ source' = [source EXCEPT ![at[t].o] = "active"]
  /\ mp' = [mp EXCEPT ![at[t].o].dsrc = TRUE]
  /\ Goto(t, "check")
  /\ UNCHANGED <<port, table, records, blocks>>

IsValid(o) == mp[o].state = "ready" /\ port[mp[o].port] = "rights"

\* An object that has become invalid is released, and NULL returned; then
\* CFMachPortCreate destroys the port.
Check(t) ==
  /\ at[t].pc = "check"
  /\ LET o == at[t].o
     IN \/ /\ IsValid(o)
           /\ mp' = [mp EXCEPT ![o].held = @ + 1, ![o].owns = @ \/ at[t].create]
           /\ UNCHANGED port
        \/ /\ ~IsValid(o)
           /\ mp' = [mp EXCEPT ![o] = Released(@)]
           /\ port' = IF at[t].create THEN GivenBack(at[t].port) ELSE port
  /\ at' = [at EXCEPT ![t] = Idle]
  /\ UNCHANGED <<table, source, records, blocks>>

----------------------------------------------------------------------------
(* Invalidating and releasing an object. *)

\* What Invalidate and the checker do to an object that is ready; each retains it.
Invalidating_NotRetained(r) ==   \* mutant
  [r EXCEPT !.state = "invalidating", !.dsrc = FALSE]
Invalidating(r) == [r EXCEPT !.state = "invalidating", !.dsrc = FALSE, !.refs = @ + 1]

Cancelled_None(objects) == source   \* mutant
\* dispatch_source_cancel of the sources that the objects refer to
Cancelled(objects) ==
  [o \in Objects |-> IF o \in objects /\ mp[o].dsrc THEN "cancelled" ELSE source[o]]

\* The sequence, in a set, of some objects of the table in the table's order.
InTableOrder(objects) ==
  {s \in BoundedSeq(objects, Len(table)) :
     /\ ToSet(s) = objects
     /\ \A i, j \in DOMAIN s : i < j =>
          \E k, l \in DOMAIN table : k < l /\ table[k] = s[i] /\ table[l] = s[j]}
TableAfter(gone) == InTableOrder(ToSet(table) \ gone)

\* CFMachPortInvalidate under the two locks; the table's reference goes.
Invalidate(t, o) ==
  /\ at[t] = Idle /\ mp[o].held > 0
  /\ mp[o].state = "ready"
  /\ mp' = [mp EXCEPT ![o] = Released(Invalidating(@))]
  /\ table' \in TableAfter({o})
  /\ source' = Cancelled({o})
  /\ at' = [at EXCEPT ![t] = [Idle EXCEPT !.pc = "announce", !.o = o]]
  /\ UNCHANGED <<port, records, blocks>>

Announced_Again(r) == [r EXCEPT !.called = @ + 1]   \* mutant
Announced(r) == IF r.icallout THEN [r EXCEPT !.called = @ + 1] ELSE r

\* __CFMachPortInvalidateLocked: the callback, called without the lock...
Announce(a) ==
  /\ at[a].pc = "announce"
  /\ mp' = [mp EXCEPT ![at[a].o] = Announced(@)]
  /\ Goto(a, "settle")
  /\ UNCHANGED <<port, table, source, records, blocks>>

\* ...and the rest, after which the object is released.
Settle(a) ==
  /\ at[a].pc = "settle"
  /\ mp' = [mp EXCEPT ![at[a].o] = Released([@ EXCEPT !.state = "invalid"])]
  /\ at' = [at EXCEPT ![a] = Idle]
  /\ UNCHANGED <<port, table, source, records, blocks>>

\* CFMachPortSetInvalidationCallBack, to a callback; called once at the most on
\* an object that is not valid any more (a bound).
SetInvalidationCallBack(t, o) ==
  /\ at[t] = Idle /\ mp[o].held > 0
  /\ \/ mp[o].state = "ready" /\ mp' = [mp EXCEPT ![o].icallout = TRUE]
     \/ /\ mp[o].state # "ready" /\ ~mp[o].icallout /\ mp[o].called = 0
        /\ mp' = [mp EXCEPT ![o].called = @ + 1]
  /\ UNCHANGED <<port, table, source, records, blocks, at>>

\* CFRelease by a client
Release(t, o) ==
  /\ at[t] = Idle /\ mp[o].held > 0
  /\ mp' = [mp EXCEPT ![o] = Released([mp[o] EXCEPT !.held = @ - 1])]
  /\ UNCHANGED <<port, table, source, records, blocks, at>>

\* __CFMachPortDeallocate after it has let the object's lock go
Deallocate(o) ==
  /\ mp[o].state = "deallocating"
  /\ RecordDeallocation(mp[o].port, mp[o].owns)
  /\ mp' = [mp EXCEPT ![o].state = "gone"]
  /\ UNCHANGED <<table, source, blocks, at>>

----------------------------------------------------------------------------
(* The dispatch queues. *)

\* The cancel handler of a source
CancelHandler(o) ==
  /\ source[o] = "cancelled"
  /\ source' = [source EXCEPT ![o] = "handled"]
  /\ SourceInvalidated(mp[o].port)
  /\ UNCHANGED <<mp, table, blocks, at>>

\* The receive right of a port is destroyed elsewhere.
PortDies(p) ==
  /\ p \in ExternalPorts /\ port[p] = "rights"
  /\ port' = [port EXCEPT ![p] = "dead"]
  /\ UNCHANGED <<mp, table, source, records, blocks, at>>

\* __CFMachPortChecker, the event handler of a source, under the table's lock.
\* The table's reference goes, and the block on the main queue has another.
Unwanted(o) == port[mp[o].port] # "rights" \/ mp[o].refs = 1

Checker(watcher) ==
  /\ source[watcher] = "active" /\ port[mp[watcher].port] = "dead"
  /\ LET unwanted == {o \in ToSet(table) : Unwanted(o)}
         ready == {o \in unwanted : mp[o].state = "ready"}
     IN /\ mp' = [o \in Objects |->
             IF o \in ready THEN Released(Invalidating(mp[o]))
             ELSE IF o \in unwanted THEN Released(mp[o]) ELSE mp[o]]
        /\ source' = Cancelled(ready)
        /\ table' \in TableAfter(unwanted)
        /\ \E checked \in InTableOrder(ready) : blocks' = blocks \o checked
  /\ UNCHANGED <<port, records, at>>

\* The block of an object, on the main queue
RunBlock ==
  /\ at[Main] = Idle /\ blocks # <<>>
  /\ at' = [at EXCEPT ![Main] = [Idle EXCEPT !.pc = "announce", !.o = Head(blocks)]]
  /\ blocks' = Tail(blocks)
  /\ UNCHANGED <<port, mp, table, source, records>>

----------------------------------------------------------------------------
Client(t) ==
  \/ \E p \in Ports : Create(t, p) \/ CreateWithPort(t, p)
  \/ \E o \in Objects : Invalidate(t, o) \/ SetInvalidationCallBack(t, o) \/ Release(t, o)

Making(t) ==
  \/ Find(t) \/ (\E o \in Objects : Make(t, o)) \/ MakeFails(t)
  \/ RecordIntent(t) \/ MakeSource(t) \/ Check(t)

Finishing(a) == Announce(a) \/ Settle(a)

Next ==
  \/ \E t \in Threads : Client(t) \/ Making(t)
  \/ \E a \in Actors : Finishing(a)
  \/ \E o \in Objects : Deallocate(o) \/ CancelHandler(o) \/ Checker(o)
  \/ \E p \in Ports : PortDies(p)
  \/ RunBlock

Spec == Init /\ [][Next]_vars

\* What has begun goes on: the calls, the deallocations and the queues.
Fairness ==
  /\ \A t \in Threads : WF_vars(Making(t))
  /\ \A a \in Actors : WF_vars(Finishing(a))
  /\ \A o \in Objects : WF_vars(Deallocate(o)) /\ WF_vars(CancelHandler(o))
  /\ WF_vars(RunBlock)
FairSpec == Spec /\ Fairness

----------------------------------------------------------------------------
(* Properties. *)

\* Every variable has its type.
TypeOK ==
  /\ port \in [Ports -> {"none", "rights", "dead"}]
  /\ mp \in [Objects -> MachPorts]
  /\ table \in Seq(Objects)
  /\ source \in [Objects -> {"none", "active", "cancelled", "handled"}]
  /\ records \in [Ports -> Records]
  /\ blocks \in Seq(Objects)
  /\ at \in [Actors -> Calls]

\* A valid object that owns the rights to its port has them: they are not given
\* back early, or twice and so taken from the next port of that name.
OwnersHaveRights ==
  \A o \in Objects :
    (mp[o].owns /\ mp[o].state \notin {"deallocating", "gone"}) => port[mp[o].port] = "rights"

\* The table has the objects that are ready, each once (__CFAllMachPorts).
TableIsOfReadyObjects ==
  /\ IsInjective(table)
  /\ ToSet(table) = {o \in Objects : mp[o].state = "ready"}

\* An invalidation callback that was set in time is called, once, before the
\* object is invalid, and no other is (__CFMachPortInvalidateLocked,
\* CFMachPortSetInvalidationCallBack).
CallbackIsCalledOnce ==
  \A o \in Objects :
    /\ mp[o].called <= 1
    /\ (mp[o].state \in {"invalid", "deallocating"} /\ mp[o].icallout) => mp[o].called = 1

\* "if we have a pr it means we're expecting invalidation": a source's cancel
\* handler finds the record of its port (_cfmp_source_invalidated) -- for a port
\* that CFMachPortCreate made, which no other object is made for meanwhile.
InvalidationIsExpected ==
  \A o \in Objects :
    (source[o] = "cancelled" /\ mp[o].port \in OwnPorts) => records[mp[o].port] # None

\* The source of an object that is invalid has been cancelled -- again for a
\* port that CFMachPortCreate made: the object is in the table before it has
\* its source, but no other thread can ask for it.
SourcesAreCancelled ==
  \A o \in Objects :
    (/\ mp[o].port \in OwnPorts
     /\ mp[o].state \in {"invalid", "deallocating", "gone"}) => source[o] # "active"

\* What the objects, the table, the sources and the records say of a port agrees,
\* in whatever order the queues and the threads come to it (CFMachPort.c).
ObjectsAgreeWithPorts ==
  /\ OwnersHaveRights /\ TableIsOfReadyObjects
  /\ InvalidationIsExpected /\ SourcesAreCancelled

\* "the exact time/circumstances we want to call _cfmp_mod_refs": the rights to a
\* port are given back only when no source watches it, nor waits for its cancel
\* handler; and "CFMachPortRef is invalid before we get here", to its
\* deallocation, whoever lets it go last (__CFMachPortDeallocate).
RightsOutliveSources ==
  [][/\ \A p \in Ports : (port[p] = "rights" /\ port'[p] = "none") =>
          \A o \in Objects : mp[o].port = p => source'[o] \notin {"active", "cancelled"}
     /\ \A o \in Objects :
          (mp[o].state # "deallocating" /\ mp'[o].state = "deallocating") =>
            mp[o].state = "invalid" \/ \E a \in Actors : at[a].pc = "settle" /\ at[a].o = o]_vars

\* The rights of an object that goes are given back.
RightsAreGivenBack ==
  \A o \in Objects :
    (mp[o].owns /\ mp[o].state = "deallocating") ~> (mp[o].port = None \/ port[mp[o].port] = "none")

----------------------------------------------------------------------------
(* Why they hold. *)

\* Which fields of its locals a call uses, and that only CFMachPortCreate has
\* ports of its own.
CallsAreTyped ==
  /\ at[Main].pc \in {"idle", "announce", "settle"}
  /\ \A a \in Actors :
       /\ at[a].pc \in {"find", "make", "intent", "source", "check"} =>
            at[a].port \in Ports /\ (at[a].create <=> at[a].port \in OwnPorts)
       /\ at[a].pc \in {"idle", "announce", "settle"} => at[a].port = None
       /\ at[a].pc \in {"intent", "source", "check", "announce", "settle"} => at[a].o \in Objects
       /\ at[a].pc \in {"intent", "source", "check"} => mp[at[a].o].port = at[a].port

\* What an object that was made has.
ObjectsAreTyped ==
  \A o \in Objects :
    /\ (mp[o].state # "gone" \/ source[o] # "none") => mp[o].port \in Ports
    /\ mp[o].owns => mp[o].port \in OwnPorts

\* A call holds a reference to the object it is making or has found.
Makes(c, o) == c.o = o /\ c.pc \in {"intent", "source", "check"}
Makers == [o \in Objects |-> {a \in Actors : Makes(at[a], o)}]

IsInUse(r) == r.state \in {"ready", "invalidating"}

\* References are held by clients, by the calls that make or find an object, and
\* by the table, or whoever invalidates what it has taken off the table.
ReferencesAreCounted ==
  \A o \in Objects :
    /\ IsFiniteSet(Makers[o])
    /\ mp[o].refs = mp[o].held + Cardinality(Makers[o])
                     + (IF IsInUse(mp[o]) THEN 1 ELSE 0)
    /\ mp[o].refs = 0 <=> mp[o].state \in {"deallocating", "gone"}

Ends(c) == c.pc \in {"announce", "settle"}

\* An object is invalidated by one thread or one block.
OneInvalidates ==
  /\ IsInjective(blocks)
  /\ \A o \in ToSet(blocks) : mp[o].state = "invalidating"
  /\ \A a \in Actors : Ends(at[a]) => mp[at[a].o].state = "invalidating" /\ at[a].o \notin ToSet(blocks)
  /\ \A a, b \in Actors : Ends(at[a]) /\ Ends(at[b]) /\ at[a].o = at[b].o => a = b

Settling == {o \in Objects : \E a \in Actors : at[a].pc = "settle" /\ at[a].o = o}

\* How often an object's callback has been called.
CallsAreCounted ==
  \A o \in Objects :
    /\ mp[o].called <= 1
    /\ mp[o].state = "ready" => mp[o].called = 0
    /\ (mp[o].state = "invalidating" /\ mp[o].icallout /\ o \notin Settling) => mp[o].called = 0
    /\ (mp[o].icallout /\ (mp[o].state \in {"invalid", "deallocating"} \/ o \in Settling)) =>
         mp[o].called = 1

CountInv ==
  TypeOK /\ CallsAreTyped /\ TableIsOfReadyObjects /\ OneInvalidates /\ ReferencesAreCounted

CallbackInv == CountInv /\ CallsAreCounted

Watched == {o \in Objects : source[o] \in {"active", "cancelled"}}

\* The objects that are there for a port, or whose source is.
Users == [p \in Ports |-> {o \in Objects : mp[o].port = p /\ (mp[o].state # "gone" \/ o \in Watched)}]

\* The rights are those of CFMachPortCreate's ports.
OthersKeepTheirRights ==
  \A p \in ExternalPorts : records[p] # None => ~records[p].doRights

\* The ports of CFMachPortCreate that one call, then one object, uses at a time,
\* and none when they have no rights.
UsedOnce ==
  {p \in OwnPorts :
    /\ port[p] # "dead"
    /\ port[p] = "none" => records[p] = None /\ Users[p] = {} /\ \A a \in Actors : at[a].port # p
    /\ \A o1, o2 \in Users[p] : o1 = o2
    /\ \A a, b \in Actors : at[a].port = p /\ at[b].port = p => a = b}

\* Those whose record and source are as far as the call that makes the object,
\* which nobody else has yet.
InStep ==
  {p \in OwnPorts :
    \A a \in Actors : at[a].port = p =>
      /\ at[a].pc \in {"find", "make"} => Users[p] = {}
      /\ at[a].pc \in {"find", "make", "intent"} => records[p] = None
      /\ at[a].pc \in {"source", "check"} => records[p] # None /\ ~records[p].doRights
      /\ at[a].pc \in {"intent", "source", "check"} =>
           mp[at[a].o].state = "ready" /\ mp[at[a].o].held = 0
      /\ at[a].pc \in {"intent", "source"} => at[a].o \notin Watched
      /\ at[a].pc = "check" => source[at[a].o] = "active"}

\* Those whose record is there as long as the source of the object is, and whose
\* source is there as long as the object is ready.
Recorded ==
  {p \in OwnPorts :
    /\ records[p] # None => ~records[p].invalidated
    /\ \A o \in Users[p] :
         /\ mp[o].dsrc <=> source[o] = "active"
         /\ source[o] = "active" => mp[o].state = "ready"
         /\ o \in Watched => records[p] # None
         /\ (records[p] # None /\ records[p].doRights) => mp[o].state = "gone"}

PortsInv ==
  /\ CountInv /\ ObjectsAreTyped /\ OthersKeepTheirRights
  /\ OwnPorts \subseteq UsedOnce /\ OwnPorts \subseteq InStep /\ OwnPorts \subseteq Recorded
============================================================================
