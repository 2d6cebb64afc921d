---------------------------- MODULE MessagePort ----------------------------
(***************************************************************************)
(* CFMessagePort.c: the tables of local and remote message ports by name,  *)
(* how ports are made, renamed, invalidated and deallocated, and the       *)
(* CFMachPort objects that they have in common.                            *)
(*                                                                         *)
(* A call is a stack of frames on its thread.  A step ends where the code  *)
(* lets the table's or the port's lock go.  Sources, contexts and callouts *)
(* are left out, as are ports per process, which are in no table, and      *)
(* names that launchd holds for the task: bootstrap_check_in fails.        *)
(* A CFMachPort is invalidated in one step: MachPort has its own steps.    *)
(***************************************************************************)
EXTENDS Naturals, Sequences, FiniteSets

CONSTANTS
  Threads,     \* the clients' threads
  Checker,     \* the queue of CFMachPort.c, on which dead ports are noticed
  Objects,     \* the memory of message ports
  Names,
  OwnPorts,    \* the Mach ports that CFMachPortCreate allocates
  Natives,     \* the memory of CFMachPort objects
  Foreign,     \* [Names -> Mach ports of other tasks or None]: the services there are
  None,
  MaxCalls     \* bound: clients call no more often

ForeignPorts == {Foreign[n] : n \in Names} \ {None}
Ports == OwnPorts \cup ForeignPorts

MessagePortAssumption ==
  /\ None \notin Objects \cup Names \cup Ports \cup Natives /\ Checker \notin Threads
  /\ OwnPorts \cap ForeignPorts = {} /\ MaxCalls \in Nat

Actors == Threads \cup {Checker}

VARIABLES
  service,   \* the bootstrap server: the port registered under each name
  rights,    \* the references of the task to send rights of each port
  dead,      \* the ports without a receive right, while the task refers to them
  native,    \* the CFMachPort objects
  mp,        \* the message ports
  local,     \* __CFAllLocalMessagePorts: does not retain its values
  remote,    \* __CFAllRemoteMessagePorts, likewise
  held,      \* the references that each thread has to each message port
  stack,     \* the calls each actor is in, innermost first
  calls,     \* the number of calls by clients
  lost       \* history: names that were given to a port that was invalid by then

kernel == <<service, rights, dead, native>>
tables == <<local, remote>>
vars == <<kernel, mp, tables, held, stack, calls, lost>>

\* info is the message port whose making made the object, for the callback;
\* own if the object has allocated the port, and gives its rights back.
Machs == [valid : BOOLEAN, port : Ports \cup {None}, info : Objects \cup {None},
          icallout : BOOLEAN, own : BOOLEAN, refs : Nat]
NoMach ==
  [valid |-> FALSE, port |-> None, info |-> None, icallout |-> FALSE, own |-> FALSE, refs |-> 0]

MessagePorts ==
  [state : {"gone", "live", "deallocating"}, valid : BOOLEAN, remote : BOOLEAN,
   name : Names \cup {None}, native : Natives \cup {None}, refs : Nat]
Gone ==
  [state |-> "gone", valid |-> FALSE, remote |-> FALSE, name |-> None, native |-> None, refs |-> 0]

PCs == {"look", "make", "publish", "verify", "isValid", "invalidate", "untable", "giveBack", "tearDown",
        "release", "cleanUp", "tickle", "name", "rename"}
Frames ==
  [pc : PCs, o : Objects \cup {None}, n : Names \cup {None}, c : Natives \cup {None},
   remote : BOOLEAN, todo : SUBSET Objects]
Frame(pc) == [pc |-> pc, o |-> None, n |-> None, c |-> None, remote |-> FALSE, todo |-> {}]

TypeOK ==
  /\ service \in [Names -> Ports \cup {None}]
  /\ rights \in [Ports -> Nat]
  /\ dead \subseteq Ports
  /\ native \in [Natives -> Machs]
  /\ mp \in [Objects -> MessagePorts]
  /\ local \in [Names -> Objects \cup {None}]
  /\ remote \in [Names -> Objects \cup {None}]
  /\ held \in [Threads -> [Objects -> Nat]]
  /\ stack \in [Actors -> Seq(Frames)]
  /\ calls \in 0..MaxCalls
  /\ lost \subseteq Names

Init ==
  /\ service = Foreign
  /\ rights = [p \in Ports |-> 0]
  /\ dead = {}
  /\ native = [c \in Natives |-> NoMach]
  /\ mp = [o \in Objects |-> Gone]
  /\ local = [n \in Names |-> None]
  /\ remote = [n \in Names |-> None]
  /\ held = [t \in Threads |-> [o \in Objects |-> 0]]
  /\ stack = [a \in Actors |-> <<>>]
  /\ calls = 0
  /\ lost = {}

----------------------------------------------------------------------------
Idle(a) == stack[a] = <<>>
Top(a) == stack[a][1]
\* Calls on memory that has been freed are not followed any further.
Freed == {o \in Objects : mp[o].state = "gone"}
At(a, pc) == ~Idle(a) /\ Top(a).pc = pc /\ Top(a).o \notin Freed

\* A client calls.
Call(t, frame) ==
  /\ Idle(t) /\ calls < MaxCalls
  /\ calls' = calls + 1
  /\ stack' = [stack EXCEPT ![t] = <<frame>>]

\* The innermost frame of a is replaced by frames: by none when it returns.
Continue(a, frames) == stack' = [stack EXCEPT ![a] = frames \o Tail(@)] /\ UNCHANGED calls
Goto(a, pc) == Continue(a, <<[Top(a) EXCEPT !.pc = pc]>>)

On(pc, o) == [Frame(pc) EXCEPT !.o = o]

Retained(o) == [mp EXCEPT ![o].refs = @ + 1]

\* A call returns the port to its client, with a reference.
Returns(t, o) == held' = [held EXCEPT ![t][o] = @ + 1] /\ Continue(t, <<>>)

\* The task can send to a port.
HasRights(p) == rights[p] > 0 /\ p \notin dead

\* CFMachPortIsValid
MachIsValid(c) == native[c].valid /\ HasRights(native[c].port)

\* The CFMachPort in the table of CFMachPort.c for a port, if any.
Known(p) == {c \in Natives : native[c].valid /\ native[c].port = p}

\* The task has these rights; a port that it does not refer to is forgotten.
Keeps(left, died) ==
  /\ rights' = left
  /\ dead' = {p \in dead \cup died : left[p] > 0}
  /\ service' = [n \in Names |-> IF service[n] \in died THEN None ELSE service[n]]

\* An object of CFMachPort.c is invalidated, without a callback, and released:
\* its last reference gives back the rights of a port that it allocated.
Invalid(m) == [m EXCEPT !.valid = FALSE, !.info = None]
Ends(m) == m.own /\ m.refs = 1
ReleaseMach(c) ==
  LET m == Invalid(native[c])
  IN /\ native' = [native EXCEPT ![c] = IF m.refs = 1 THEN NoMach
                                        ELSE [m EXCEPT !.refs = @ - 1, !.icallout = FALSE]]
     /\ IF Ends(m) THEN Keeps([rights EXCEPT ![m.port] = @ - 1], {m.port}) ELSE Keeps(rights, {})

----------------------------------------------------------------------------
(* Making a port. *)

\* CFMessagePortCreateLocal, without a name for None, and CFMessagePortCreateRemote
Create(t, n, isRemote) ==
  /\ isRemote => n # None
  /\ Call(t, [Frame("look") EXCEPT !.n = n, !.remote = isRemote])
  /\ UNCHANGED <<kernel, mp, tables, held, lost>>

Existing(f) ==
  IF f.n = None THEN None ELSE IF f.remote THEN remote[f.n] ELSE local[f.n]

\* An existing port is retained; it is returned if it turns out to be valid.
\* The table may have an entry for memory that is gone: see lost.
Look(t) ==
  /\ At(t, "look")
  /\ LET o == Existing(Top(t))
     IN \/ o = None /\ Goto(t, "make") /\ UNCHANGED mp
        \/ /\ o # None /\ mp[o].state # "gone"
           /\ mp' = Retained(o)
           /\ Continue(t, <<On("isValid", o)>>)
  /\ UNCHANGED <<kernel, tables, held, lost>>

\* What CFMessagePortIsValid acts on: the port's CFMachPort is invalid by now.
Broken(o) == mp[o].valid /\ mp[o].native # None /\ ~MachIsValid(mp[o].native)

\* CFMessagePortIsValid, by a call that holds the port and returns or
\* releases it.
IsValid(a) ==
  /\ At(a, "isValid")
  /\ LET o == Top(a).o
     IN IF mp[o].valid /\ ~Broken(o) THEN Returns(a, o)
        ELSE /\ Continue(a, IF Broken(o) THEN <<On("invalidate", o), On("release", o)>>
                            ELSE <<On("release", o)>>)
             /\ UNCHANGED held
  /\ UNCHANGED <<kernel, mp, tables, lost>>

\* Bound: memory that is referred to is not allocated again.
Free(o) ==
  /\ mp[o] = Gone
  /\ \A a \in Actors : \A i \in 1..Len(stack[a]) : stack[a][i].o # o
  /\ \A c \in Natives : native[c].info # o

Memory(n, isRemote, c) ==
  [state |-> "live", valid |-> FALSE, remote |-> isRemote, name |-> n, native |-> c, refs |-> 1]

NewMach(p, o, own) ==   \* an own port gets its callback at once
  [valid |-> TRUE, port |-> p, info |-> o, icallout |-> own, own |-> own, refs |-> 1]
Unused(p) == rights[p] = 0 /\ \A n \in Names : service[n] # p

\* CFMachPortCreate of an own port, for a message port, with its callback.
MakeMach(c, p, o) ==
  /\ native[c] = NoMach /\ Unused(p)
  /\ native' = [native EXCEPT ![c] = NewMach(p, o, TRUE)]
  /\ rights' = [rights EXCEPT ![p] = 1]
  /\ UNCHANGED dead

\* Makes a CFMachPort and registers it, which fails for a name that is in use.
MakeLocal(t) ==
  /\ At(t, "make") /\ ~Top(t).remote
  /\ \E o \in Objects :
       /\ Free(o)
       /\ \/ /\ Top(t).n = None
             /\ mp' = [mp EXCEPT ![o] = Memory(None, FALSE, None)]
             /\ Continue(t, <<[Top(t) EXCEPT !.pc = "publish", !.o = o]>>)
             /\ UNCHANGED kernel
          \/ /\ Top(t).n # None /\ service[Top(t).n] = None
             /\ \E c \in Natives, p \in OwnPorts :
                  /\ MakeMach(c, p, o)
                  /\ service' = [service EXCEPT ![Top(t).n] = p]
                  /\ mp' = [mp EXCEPT ![o] = Memory(Top(t).n, FALSE, c)]
             /\ Continue(t, <<[Top(t) EXCEPT !.pc = "publish", !.o = o]>>)
          \/ /\ Top(t).n # None /\ service[Top(t).n] # None
             /\ mp' = [mp EXCEPT ![o] = Memory(Top(t).n, FALSE, None)]
             /\ Continue(t, <<On("release", o)>>)
             /\ UNCHANGED kernel
  /\ UNCHANGED <<tables, held, lost>>

\* bootstrap_look_up2 gives one more reference to a send right, and
\* CFMachPortCreateWithPort the object that there is for the port, if any.
MakeRemote(t) ==
  /\ At(t, "make") /\ Top(t).remote
  /\ LET p == service[Top(t).n]
     IN \E o \in Objects :
          /\ Free(o)
          /\ \/ /\ p = None
                /\ mp' = [mp EXCEPT ![o] = Memory(Top(t).n, TRUE, None)]
                /\ Continue(t, <<On("release", o)>>)
                /\ UNCHANGED kernel
             \/ /\ p # None
                /\ \E c \in Natives :
                     /\ IF Known(p) # {} THEN c \in Known(p) ELSE native[c] = NoMach
                     /\ native' = [native EXCEPT ![c] =
                                     IF Known(p) # {} THEN [@ EXCEPT !.refs = @ + 1]
                                     ELSE NewMach(p, o, FALSE)]
                     /\ mp' = [mp EXCEPT ![o] = Memory(Top(t).n, TRUE, c)]
                /\ rights' = [rights EXCEPT ![p] = @ + 1]
                /\ Continue(t, <<[Top(t) EXCEPT !.pc = "publish", !.o = o]>>)
                /\ UNCHANGED <<service, dead>>
  /\ UNCHANGED <<tables, held, lost>>

\* Under the table's lock a second look: another port may be there by now.
Publish(t) ==
  /\ At(t, "publish")
  /\ LET f == Top(t)
         other == Existing(f)
         c == mp[f.o].native
     IN \/ /\ other # None /\ mp[other].state # "gone"
           /\ mp' = [mp EXCEPT ![other].refs = @ + 1, ![f.o].valid = TRUE]
           /\ held' = [held EXCEPT ![t][other] = @ + 1]
           /\ Continue(t, <<On("release", f.o)>>)
           /\ UNCHANGED <<kernel, tables>>
        \/ /\ other = None /\ ~f.remote
           /\ mp' = [mp EXCEPT ![f.o].valid = TRUE]
           /\ local' = IF f.n = None THEN local ELSE [local EXCEPT ![f.n] = f.o]
           /\ Returns(t, f.o)
           /\ UNCHANGED <<kernel, remote>>
        \/ /\ other = None /\ f.remote
           /\ mp' = [mp EXCEPT ![f.o].valid = TRUE]
           /\ remote' = [remote EXCEPT ![f.n] = f.o]
           /\ native' = [native EXCEPT ![c].refs = @ + 1]
           /\ Continue(t, <<[f EXCEPT !.pc = "verify", !.c = c]>>)
           /\ UNCHANGED <<service, rights, dead, local, held>>
  /\ UNCHANGED lost

\* CFMachPortSetInvalidationCallBack, and a look whether the CFMachPort is
\* valid still, by a call that holds it: otherwise the port is released.
\* (Of an invalid CFMachPort the callback has nothing to invalidate.)
Verify(t) ==
  /\ At(t, "verify")
  /\ LET f == Top(t)
     IN /\ IF MachIsValid(f.c) THEN Returns(t, f.o)
           ELSE Continue(t, <<On("release", f.o)>>) /\ UNCHANGED held
        /\ IF native[f.c].refs = 1 THEN ReleaseMach(f.c)
           ELSE /\ native' = [native EXCEPT ![f.c].icallout = @ \/ native[f.c].valid, ![f.c].refs = @ - 1]
                /\ UNCHANGED <<service, rights, dead>>
  /\ UNCHANGED <<mp, tables, lost>>

----------------------------------------------------------------------------
(* Invalidation and deallocation. *)

\* CFMessagePortInvalidate up to the unlock of the port, which it retains
\* unless it is deallocating.
InvalidatePort(a) ==
  /\ At(a, "invalidate")
  /\ LET o == Top(a).o
         f == [On("untable", o) EXCEPT !.c = mp[o].native, !.n = mp[o].name]
     IN IF ~mp[o].valid THEN Continue(a, <<>>) /\ UNCHANGED mp
        ELSE IF mp[o].state = "deallocating"
        THEN /\ mp' = [mp EXCEPT ![o].valid = FALSE, ![o].native = None]
             /\ Continue(a, <<f>>)
        ELSE /\ mp' = [mp EXCEPT ![o].valid = FALSE, ![o].native = None, ![o].refs = @ + 1]
             /\ Continue(a, <<f, On("release", o)>>)
  /\ UNCHANGED <<kernel, tables, held, lost>>

TableWithout_None(table, name) == table   \* mutant
TableWithout(table, name) == [n \in Names |-> IF n = name THEN None ELSE table[n]]

\* The entry of the port's name is removed, whosever it is by now.
Untable(a) ==
  /\ At(a, "untable")
  /\ LET f == Top(a)
     IN IF mp[f.o].remote THEN remote' = TableWithout(remote, f.n) /\ UNCHANGED local
        ELSE local' = TableWithout(local, f.n) /\ UNCHANGED remote
  /\ Goto(a, "giveBack")
  /\ UNCHANGED <<kernel, mp, held, lost>>

\* A remote port gives its send right back.
GiveBack(a) ==
  /\ At(a, "giveBack")
  /\ LET c == Top(a).c
     IN IF mp[Top(a).o].remote THEN Keeps([rights EXCEPT ![native[c].port] = @ - 1], {})
        ELSE UNCHANGED <<service, rights, dead>>
  /\ Goto(a, "tearDown")
  /\ UNCHANGED <<native, mp, tables, held, lost>>

\* The CFMachPort, which others may share, loses its callback, is invalidated
\* and released.
TearDown(a) ==
  /\ At(a, "tearDown")
  /\ IF Top(a).c = None THEN UNCHANGED kernel ELSE ReleaseMach(Top(a).c)
  /\ Continue(a, <<>>)
  /\ UNCHANGED <<mp, tables, held, lost>>

\* CFRelease: the last reference is kept until the port has been deallocated.
Release(a) ==
  /\ At(a, "release")
  /\ LET o == Top(a).o
     IN IF mp[o].refs > 1
        THEN /\ mp' = [mp EXCEPT ![o].refs = @ - 1]
             /\ Continue(a, <<>>)
        ELSE /\ mp' = [mp EXCEPT ![o].state = "deallocating"]
             /\ Continue(a, <<On("invalidate", o), On("cleanUp", o)>>)
  /\ UNCHANGED <<kernel, tables, held, lost>>

\* The rest of __CFMessagePortDeallocate: a port that got another CFMachPort
\* since it was invalidated lets it go; the remote ports are retained.
CleanUp(a) ==
  /\ At(a, "cleanUp")
  /\ LET o == Top(a).o
         todo == {remote[n] : n \in Names} \ {None}
     IN /\ IF mp[o].native = None THEN UNCHANGED kernel ELSE ReleaseMach(mp[o].native)
        /\ mp' = [r \in Objects |->
                    IF r \in todo THEN [mp[r] EXCEPT !.refs = @ + 1]
                    ELSE IF r = o THEN [mp[o] EXCEPT !.native = None] ELSE mp[r]]
        /\ Continue(a, <<[On("tickle", o) EXCEPT !.todo = todo]>>)
  /\ UNCHANGED <<tables, held, lost>>

\* CFMessagePortIsValid of each remote port; then the memory is freed, unless
\* the port has been retained meanwhile.
Tickle(a) ==
  /\ At(a, "tickle")
  /\ LET f == Top(a)
         o == f.o
     IN \/ \E r \in f.todo :
             /\ LET rest == <<[f EXCEPT !.todo = @ \ {r}]>>
                IN Continue(a, IF Broken(r) THEN <<On("invalidate", r), On("release", r)>> \o rest
                               ELSE <<On("release", r)>> \o rest)
             /\ UNCHANGED mp
        \/ /\ f.todo = {} /\ mp[o].refs = 1
           /\ mp' = [mp EXCEPT ![o] = Gone]
           /\ Continue(a, <<>>)
        \/ /\ f.todo = {} /\ mp[o].refs > 1
           /\ mp' = [mp EXCEPT ![o].state = "live"]
           /\ Goto(a, "release")
  /\ UNCHANGED <<kernel, tables, held, lost>>

\* CFMessagePortInvalidate or CFRelease, by a client that holds the port.
ClientInvalidates(t, o) ==
  /\ held[t][o] > 0
  /\ Call(t, On("invalidate", o))
  /\ UNCHANGED <<kernel, mp, tables, held, lost>>

ClientReleases(t, o) ==
  /\ held[t][o] > 0
  /\ Call(t, On("release", o))
  /\ held' = [held EXCEPT ![t][o] = @ - 1]
  /\ UNCHANGED <<kernel, mp, tables, lost>>

\* A task ends that had a service.
Die(p) ==
  /\ p \in ForeignPorts /\ \E n \in Names : service[n] = p
  /\ service' = [n \in Names |-> IF service[n] = p THEN None ELSE service[n]]
  /\ dead' = IF rights[p] > 0 THEN dead \cup {p} ELSE dead
  /\ UNCHANGED <<rights, native, mp, tables, held, stack, calls, lost>>

\* __CFMachPortChecker invalidates a CFMachPort whose port has died, which
\* calls __CFMessagePortInvalidationCallBack.
NoticeDeath(c) ==
  /\ Idle(Checker)
  /\ native[c].valid /\ ~HasRights(native[c].port)
  /\ native' = [native EXCEPT ![c] = Invalid(@)]
  /\ stack' = [stack EXCEPT ![Checker] =
                 IF native[c].icallout THEN <<On("invalidate", native[c].info)>> ELSE <<>>]
  /\ UNCHANGED <<service, rights, dead, mp, tables, held, calls, lost>>

----------------------------------------------------------------------------
(* CFMessagePortSetName. *)

\* Refuses remote ports, and names that the table has.
SetName(t, o, n) ==
  /\ held[t][o] > 0 /\ ~mp[o].remote /\ local[n] = None
  /\ Call(t, [On("name", o) EXCEPT !.n = n])
  /\ UNCHANGED <<kernel, mp, tables, held, lost>>

\* A new CFMachPort, which is not registered.  The one the port had is
\* invalidated, and its callback invalidates the message port.
NewPort(t) ==
  /\ At(t, "name")
  /\ LET f == Top(t)
         old == mp[f.o].native
     IN IF mp[f.o].name = f.n THEN Continue(t, <<>>) /\ UNCHANGED <<kernel, mp>>
        ELSE \E c \in Natives, p \in OwnPorts :
               /\ native[c] = NoMach /\ Unused(p)
               /\ native' = [m \in Natives |-> IF m = c THEN NewMach(p, f.o, TRUE)
                                               ELSE IF m = old THEN Invalid(native[m]) ELSE native[m]]
               /\ rights' = [rights EXCEPT ![p] = 1]
               /\ mp' = [mp EXCEPT ![f.o].native = c]
               /\ LET renames == <<[f EXCEPT !.pc = "rename", !.c = old]>>
                  IN Continue(t, IF old # None /\ native[old].valid /\ native[old].icallout
                                 THEN <<On("invalidate", native[old].info)>> \o renames
                                 ELSE renames)
               /\ UNCHANGED <<service, dead>>
  /\ UNCHANGED <<tables, held, lost>>

\* CFDictionaryAddValue: an entry that is there stays.
AddValue(table, n, o) == [table EXCEPT ![n] = IF @ = None THEN o ELSE @]

\* The old CFMachPort is released, and the table has the new name for the
\* old one, without another look.
Rename(t) ==
  /\ At(t, "rename")
  /\ LET f == Top(t)
     IN /\ IF f.c = None THEN UNCHANGED kernel ELSE ReleaseMach(f.c)
        /\ local' = AddValue(TableWithout(local, mp[f.o].name), f.n, f.o)
        /\ lost' = IF mp[f.o].valid THEN lost ELSE lost \cup {f.n}
        /\ mp' = [mp EXCEPT ![f.o].name = f.n]
  /\ Continue(t, <<>>)
  /\ UNCHANGED <<remote, held>>

----------------------------------------------------------------------------
ActorStep(a) == IsValid(a) \/ InvalidatePort(a) \/ Untable(a) \/ GiveBack(a) \/ TearDown(a) \/ Release(a)
                \/ CleanUp(a) \/ Tickle(a)

ThreadStep(t) == Look(t) \/ MakeLocal(t) \/ MakeRemote(t) \/ Publish(t) \/ Verify(t)
                 \/ NewPort(t) \/ Rename(t)

Client(t) ==
  \/ \E n \in Names \cup {None}, isRemote \in BOOLEAN : Create(t, n, isRemote)
  \/ \E o \in Objects : ClientInvalidates(t, o) \/ ClientReleases(t, o)
  \/ \E o \in Objects, n \in Names : SetName(t, o, n)

Next ==
  \/ \E a \in Actors : ActorStep(a)
  \/ \E t \in Threads : ThreadStep(t) \/ Client(t)
  \/ \E p \in ForeignPorts : Die(p)
  \/ \E c \in Natives : NoticeDeath(c)

Spec == Init /\ [][Next]_vars

----------------------------------------------------------------------------
(* What a client asks of ports and names. *)

\* CFMessagePort.c:726 and 664.  The tables do not retain their ports: one
\* that has been freed is in no table, although the entry of a port is
\* removed after its unlock, by name.  Except under a name that SetName gave
\* to a port that was invalid by then, and while a call is on freed memory.
OnFreed == \E a \in Actors : \E i \in 1..Len(stack[a]) : stack[a][i].o \in Freed
TablesHaveNoFreed ==
  OnFreed \/ /\ \A n \in Names : remote[n] \notin Freed
             /\ \A n \in Names \ lost : local[n] \notin Freed

\* CFMessagePort.c:754.  A remote port that has not been torn down has its
\* send right: none is given back twice, although ports share CFMachPorts.
RightsCoverRemotes ==
  \A p \in Ports :
    LET of(o) == mp[o].remote /\ mp[o].native # None /\ native[mp[o].native].port = p
    IN rights[p] >= Cardinality({o \in Objects : of(o)})

\* CFMessagePort.c:757: the callback is removed "before the deallocate of the
\* Mach port, to avoid a race between the notification message which could be
\* handled in another thread, and this NULL'ing out".  No call is on a port
\* that has been freed.
CallsHoldTheirPort == ~OnFreed
=============================================================================
