------------------------------- MODULE Socket -------------------------------
(* CFSocket.c: a socket between the clients' threads, the run loop that      *)
(* performs its source, and the socket manager's thread, which selects on    *)
(* copies of the sets of descriptors.  A step is a critical section of the   *)
(* socket's or the sets' lock, a system call, or one callback.  Left out:    *)
(* addresses, buffered reading with timeouts, and the run loops to wake up.  *)
EXTENDS Naturals, Sequences, SequencesExt, FiniteSets, FiniteSetsExt

CONSTANTS
  Performers,   \* the threads whose run loops perform the source
  TypeSets,     \* the callback types a socket may be made with
  Reenabled,    \* those that may be in the socket's flags
  MaxWakes,     \* what the wake-up socket holds; further bytes are not sent
  MaxMessages, MaxModes, MaxCalls   \* bounds

\* The bits of the types: a data callback has both bits of the other two.
DataType == {"read", "accept"}
AcceptType == {"accept"}
SocketAssumption ==
  /\ \A some \in TypeSets : some \subseteq {"read", "accept", "connect", "write"}
  /\ \A bits \in Reenabled : bits \subseteq {"read", "accept", "write"}
  /\ MaxWakes \in Nat \ {0} /\ MaxMessages \in Nat /\ MaxModes \in Nat /\ MaxCalls \in Nat

EOF == 0
Nothing == MaxMessages + 1

VARIABLES
  types, oriented,  \* callback types; a socket of connections
  valid, client, disabled, connected, readSignalled, writeSignalled, errorCode,
  setCount,         \* _socketSetCount: the modes the source is in
  queue,            \* _dataQueue
  inLists,          \* the lists it is in: __CFReadSockets, __CFWriteSockets
  fds,              \* the sets its descriptor is in: __CFReadSocketsFds, ...
  wakes,            \* bytes in the wake-up socket
  manager,          \* the socket manager's thread
  signalled,        \* the source is signalled
  performs,         \* the performing threads
  open, writable,   \* the native socket
  arrived, ended, sent, \* what it has to read, and whether the other end closed it
  calls,
  armed,            \* history: the directions enabled, and not called for since
  delivered,        \* history: what data callbacks were given
  connects          \* history: the number of connect callbacks

flags == <<types, oriented, client>>
state == <<valid, disabled, connected, setCount, inLists>>
signals == <<readSignalled, writeSignalled, errorCode, queue, signalled>>
native == <<open, writable, arrived, ended, sent>>
history == <<calls, armed, delivered, connects>>
vars == <<flags, state, signals, fds, wakes, manager, performs, native, history>>

Directions == {"read", "write"}
ManagerPCs == {"copy", "select", "error", "collect", "write", "read", "queue"}
Performs ==
  [pc : {"idle", "connect", "read", "write", "again"}, read : BOOLEAN, write : BOOLEAN,
   connect : BOOLEAN, error : BOOLEAN, data : 0..Nothing, called : BOOLEAN]
Idle == [pc |-> "idle", read |-> FALSE, write |-> FALSE, connect |-> FALSE,
         error |-> FALSE, data |-> Nothing, called |-> FALSE]

Init ==
  /\ types \in TypeSets /\ oriented \in BOOLEAN
  /\ client = types \cap DataType
  /\ valid = TRUE /\ disabled = {} /\ connected = FALSE
  /\ readSignalled = FALSE /\ writeSignalled = FALSE /\ errorCode = FALSE
  /\ setCount = 0 /\ queue = <<>>
  /\ inLists = {} /\ fds = {} /\ wakes = 0
  /\ manager = [pc |-> "copy", fds |-> {}, got |-> Nothing]
  /\ signalled = FALSE /\ performs = [t \in Performers |-> Idle]
  /\ open = TRUE /\ writable = FALSE /\ arrived = <<>> /\ ended = FALSE /\ sent = 0
  /\ calls = 0 /\ armed = {} /\ delivered = <<>> /\ connects = 0

ReadType == types \cap DataType
Queues == ReadType \in {DataType, AcceptType}
Scheduled == setCount > 0

Woken(new) == Min({wakes + Cardinality((fds \ new) \cup (new \ fds)), MaxWakes})
SetFds(new) == fds' = new /\ wakes' = Woken(new)

\* Others than sockets that listen wait for a connection.
NowConnected == connected \/ ReadType = AcceptType \/ ~oriented

\* What __CFSocketEnableCallBacks turns on.
TurnedOn(asked, off) ==
  LET write == /\ NowConnected \/ "connect" \notin asked
               /\ "write" \in asked \ off
      connect == ~NowConnected /\ "connect" \in asked \ off
      read == asked \cap ReadType # {} /\ "read" \notin off
  IN  (IF write \/ connect THEN {"write"} ELSE {}) \cup (IF read THEN {"read"} ELSE {})

EnableCallBacks(callBackTypes, force, scheduled) ==
  LET asked == callBackTypes \cap types
      off == IF force THEN disabled \ asked ELSE disabled
      on == TurnedOn(asked, off)
  IN  IF callBackTypes = {} \/ ~valid \/ ~scheduled
      THEN UNCHANGED <<disabled, connected, inLists, fds, wakes>>
      ELSE /\ disabled' = off /\ connected' = NowConnected
           /\ inLists' = IF force THEN inLists \cup on ELSE inLists
           /\ SetFds(fds \cup on)

Armed(callBackTypes, force, scheduled) ==
  IF ~valid \/ ~scheduled THEN armed
  ELSE armed \cup TurnedOn(callBackTypes \cap types,
                           IF force THEN disabled \ callBackTypes ELSE disabled)

(***************************************************************************)
(* Clients, on any thread                                                  *)
(***************************************************************************)
Call == calls < MaxCalls /\ calls' = calls + 1

\* CFSocketEnableCallBacks
Enable(callBackTypes) ==
  /\ Call
  /\ EnableCallBacks(callBackTypes, TRUE, Scheduled)
  /\ armed' = Armed(callBackTypes, TRUE, Scheduled)
  /\ UNCHANGED <<flags, valid, setCount, signals, manager, performs, native,
                 delivered, connects>>

\* CFSocketDisableCallBacks: disabling the write callback also stops the wait
\* for a connection.
Stopped(callBackTypes) ==
  (IF "write" \in callBackTypes \/ ("connect" \in callBackTypes /\ ~NowConnected)
   THEN {"write"} ELSE {})
  \cup (IF callBackTypes \cap ReadType # {} THEN {"read"} ELSE {})

AllDisabled(off) == IF types \cap {"write", "connect"} \subseteq off THEN {"write"} ELSE {}

Disable(callBackTypes) ==
  /\ Call /\ valid /\ Scheduled /\ callBackTypes \subseteq types
  /\ disabled' = disabled \cup callBackTypes /\ connected' = NowConnected
  /\ SetFds(fds \ Stopped(callBackTypes))
  /\ armed' = armed \ (Stopped(callBackTypes) \cup AllDisabled(disabled'))
  /\ UNCHANGED <<flags, valid, setCount, inLists, signals, manager, performs, native,
                 delivered, connects>>

\* __CFSocketSchedule: the source is added to a mode.
Schedule ==
  /\ Call /\ valid /\ setCount < MaxModes
  /\ setCount' = setCount + 1
  /\ IF setCount = 0
     THEN EnableCallBacks(types, TRUE, TRUE) /\ armed' = Armed(types, TRUE, TRUE)
     ELSE UNCHANGED <<disabled, connected, inLists, fds, wakes, armed>>
  /\ UNCHANGED <<flags, valid, signals, manager, performs, native, delivered, connects>>

\* __CFSocketCancel: it is removed from one.
LeaveLists == inLists' = {} /\ SetFds(fds \ inLists)
Cancel ==
  /\ Call /\ Scheduled
  /\ setCount' = setCount - 1
  /\ IF setCount = 1 THEN LeaveLists /\ armed' = {}
                     ELSE UNCHANGED <<inLists, fds, wakes, armed>>
  /\ UNCHANGED <<flags, valid, disabled, connected, signals, manager, performs, native,
                 delivered, connects>>

\* CFSocketInvalidate, which invalidates the source and, by default, closes the
\* native socket.  The source's cancellations change nothing that is used.
Invalidated(closes) ==
  /\ valid' = FALSE /\ setCount' = 0 /\ queue' = <<>>
  /\ readSignalled' = FALSE /\ writeSignalled' = FALSE /\ signalled' = FALSE
  /\ LeaveLists /\ armed' = {}
  /\ open' = (open /\ ~closes)
  /\ UNCHANGED <<disabled, connected, errorCode>>

Invalidate ==
  /\ Call /\ valid
  /\ \E closes \in BOOLEAN : Invalidated(closes)
  /\ UNCHANGED <<flags, manager, performs, writable, arrived, ended, sent, delivered,
                 connects>>

\* CFSocketSetSocketFlags
SetSocketFlags(bits) ==
  /\ Call /\ client' = bits
  /\ UNCHANGED <<types, oriented, state, signals, fds, wakes, manager, performs, native,
                 armed, delivered, connects>>

(***************************************************************************)
(* The socket manager's thread                                             *)
(***************************************************************************)
At(pc) == manager.pc = pc
Goto(pc) == manager' = [manager EXCEPT !.pc = pc]
Readable == arrived # <<>> \/ ended
Ready == (IF Readable THEN {"read"} ELSE {}) \cup (IF writable THEN {"write"} ELSE {})

\* The sets are copied.
Copy ==
  /\ At("copy")
  /\ manager' = [pc |-> "select", fds |-> fds, got |-> Nothing]
  /\ UNCHANGED <<flags, state, signals, fds, wakes, performs, native, history>>

\* select, and what the wake-up socket holds; it fails for a bad descriptor.
Select ==
  /\ At("select")
  /\ IF manager.fds # {} /\ ~open
     THEN Goto("error") /\ UNCHANGED wakes
     ELSE /\ wakes > 0 \/ manager.fds \cap Ready # {}
          /\ manager' = [manager EXCEPT !.pc = "collect", !.fds = @ \cap Ready]
          /\ wakes' = 0
  /\ UNCHANGED <<flags, state, signals, fds, performs, native, history>>

\* manageSelectError: a socket in the lists is invalidated; without one the
\* bad descriptors are cleared.
ManageSelectError ==
  /\ At("error")
  /\ IF inLists # {} /\ ~open
     THEN Invalidated(TRUE)
     ELSE /\ fds' = IF open THEN fds ELSE {}
          /\ UNCHANGED <<state, signals, wakes, open, armed>>
  /\ Goto("copy")
  /\ UNCHANGED <<flags, performs, writable, arrived, ended, sent, calls, delivered,
                 connects>>

\* The sockets of the lists whose descriptors are ready are selected, and their
\* descriptors are taken out of the sets.
Collect ==
  /\ At("collect")
  /\ LET selected == manager.fds \cap inLists
     IN /\ fds' = fds \ selected
        /\ manager' = [manager EXCEPT !.pc = "write", !.fds = selected]
  /\ UNCHANGED <<flags, state, signals, wakes, performs, native, history>>

\* __CFSocketHandleWrite
WriteIsAvailable ==
  LET available == (types \cap {"write", "connect"}) \ (client \cap {"connect"})
  IN  ~(available \subseteq disabled)

HandleWrite ==
  /\ At("write")
  /\ IF "write" \in manager.fds /\ valid /\ WriteIsAvailable
     THEN /\ writeSignalled' = TRUE /\ signalled' = TRUE
          /\ \E failed \in {FALSE, ~connected} : errorCode' = failed
     ELSE UNCHANGED <<writeSignalled, signalled, errorCode>>
  /\ manager' = [manager EXCEPT !.pc = "read", !.fds = @ \ {"write"}]
  /\ UNCHANGED <<flags, state, readSignalled, queue, fds, wakes, performs, native,
                 history>>

\* __CFSocketHandleRead, without the lock: recvfrom or accept, which does
\* not fail.
Take ==
  /\ At("read") /\ "read" \in manager.fds /\ valid /\ Queues
  /\ manager' = [manager EXCEPT !.pc = "queue",
                                !.got = IF arrived = <<>> THEN EOF ELSE Head(arrived)]
  /\ arrived' = IF arrived = <<>> THEN arrived ELSE Tail(arrived)
  /\ UNCHANGED <<flags, state, signals, fds, wakes, performs, open, writable, ended, sent,
                 history>>

\* The descriptor is restored for the next message.
Restores ==
  /\ manager.got # EOF
  /\ ReadType \cap client # {} /\ ReadType \cap disabled = {} /\ Scheduled

HandleRead ==
  /\ \/ At("read") /\ ~("read" \in manager.fds /\ valid /\ Queues)
     \/ At("queue")
  /\ IF ~valid \/ "read" \notin manager.fds \/ (~Queues /\ "read" \in disabled)
     THEN UNCHANGED <<readSignalled, signalled, queue, fds, wakes>>
     ELSE /\ readSignalled' = TRUE /\ signalled' = TRUE
          /\ IF Queues
             THEN /\ queue' = Append(queue, manager.got)
                  /\ IF Restores THEN SetFds(fds \cup {"read"}) ELSE UNCHANGED <<fds, wakes>>
             ELSE UNCHANGED <<queue, fds, wakes>>
  /\ manager' = [pc |-> "copy", fds |-> {}, got |-> Nothing]
  /\ UNCHANGED <<flags, state, writeSignalled, errorCode, performs, native, history>>

(***************************************************************************)
(* __CFSocketPerformV0, __CFSocketDoCallback                               *)
(***************************************************************************)
In(t, pc) == performs[t].pc = pc

\* The directions that the manager has taken out of the sets, to signal them,
\* and those that are signalled.
AtHand == IF manager.pc \in {"write", "read", "queue"} THEN manager.fds ELSE {}
Signalled == (IF readSignalled THEN {"read"} ELSE {}) \cup (IF writeSignalled THEN {"write"} ELSE {})

\* A run loop performs a signalled source.
Perform(t) ==
  /\ In(t, "idle") /\ signalled /\ Scheduled /\ valid
  /\ signalled' = FALSE
  /\ performs' = [performs EXCEPT ![t] =
       [pc |-> "connect", read |-> readSignalled, write |-> writeSignalled,
        connect |-> writeSignalled /\ ~connected, error |-> writeSignalled /\ errorCode,
        data |-> IF Queues /\ queue # <<>> THEN Head(queue) ELSE Nothing,
        called |-> FALSE]]
  /\ queue' = IF Queues /\ queue # <<>> THEN Tail(queue) ELSE queue
  /\ readSignalled' = FALSE /\ writeSignalled' = FALSE
  /\ connected' = (connected \/ writeSignalled)
  /\ armed' = armed \ (Signalled \ (fds \cup AtHand))
  /\ UNCHANGED <<flags, valid, disabled, setCount, inLists, errorCode, fds, wakes, manager,
                 native, calls, delivered, connects>>

\* After the first callback the socket must be valid still for another.
Calls(t, wanted) == wanted /\ (~performs[t].called \/ valid)
Then(t, pc, called) ==
  performs' = [performs EXCEPT ![t].pc = pc, ![t].called = @ \/ called]

Connect(t) ==
  /\ In(t, "connect")
  /\ LET calledOut == Calls(t, "connect" \in types /\ performs[t].connect)
     IN /\ connects' = IF calledOut THEN connects + 1 ELSE connects
        /\ Then(t, "read", calledOut)
  /\ UNCHANGED <<flags, state, signals, fds, wakes, manager, native, calls, armed,
                 delivered>>

\* A data callback of nothing is the last: the socket is invalidated.
Read(t) ==
  /\ In(t, "read")
  /\ LET data == performs[t].data
         calledOut == Calls(t, IF Queues THEN data # Nothing
                               ELSE "read" \in types /\ performs[t].read)
     IN /\ delivered' = IF calledOut /\ Queues THEN Append(delivered, data) ELSE delivered
        /\ IF calledOut /\ ReadType = DataType /\ data = EOF /\ valid
           THEN Invalidated(TRUE)
           ELSE UNCHANGED <<state, signals, fds, wakes, open, armed>>
        /\ Then(t, "write", calledOut)
  /\ UNCHANGED <<flags, manager, writable, arrived, ended, sent, calls, connects>>

Write(t) ==
  /\ In(t, "write")
  /\ Then(t, "again", Calls(t, "write" \in types /\ performs[t].write /\ ~performs[t].error))
  /\ UNCHANGED <<flags, state, signals, fds, wakes, manager, native, history>>

\* More data signals the source again; what is to be enabled again is.
SignalsAgain == valid /\ Queues /\ queue # <<>>
Again(t) ==
  /\ In(t, "again")
  /\ signalled' = (signalled \/ SignalsAgain)
  /\ LET bits == client \cap ((IF performs[t].read THEN ReadType ELSE {})
                               \cup (IF performs[t].write THEN {"write"} ELSE {}))
         again == (IF bits \cap ReadType # {} /\ ReadType \cap disabled = {} THEN {"read"} ELSE {})
                  \cup (IF "write" \in bits \ disabled THEN {"write"} ELSE {})
     IN /\ EnableCallBacks(bits, FALSE, Scheduled)
        /\ armed' = IF valid /\ Scheduled THEN armed \cup again ELSE armed
  /\ performs' = [performs EXCEPT ![t] = Idle]
  /\ UNCHANGED <<flags, valid, setCount, readSignalled, writeSignalled, errorCode, queue,
                 manager, native, calls, delivered, connects>>

(***************************************************************************)
(* The other end, and a client that closes the native socket               *)
(***************************************************************************)
Arrive ==
  /\ open /\ ~ended /\ sent < MaxMessages
  /\ arrived' = Append(arrived, sent + 1) /\ sent' = sent + 1
  /\ UNCHANGED <<flags, state, signals, fds, wakes, manager, performs, open, writable,
                 ended, history>>

End ==
  /\ open /\ ReadType # AcceptType /\ ended' = TRUE
  /\ UNCHANGED <<flags, state, signals, fds, wakes, manager, performs, open, writable,
                 arrived, sent, history>>

BecomesWritable ==
  /\ open /\ writable' = TRUE
  /\ UNCHANGED <<flags, state, signals, fds, wakes, manager, performs, open, arrived,
                 ended, sent, history>>

CloseNative ==
  /\ Call /\ open /\ open' = FALSE
  /\ UNCHANGED <<flags, state, signals, fds, wakes, manager, performs, writable, arrived,
                 ended, sent, armed, delivered, connects>>

Client ==
  \/ \E some \in {types \cap DataType, types \cap {"write"}, types \cap {"connect"}} :
       some # {} /\ (Enable(some) \/ Disable(some))
  \/ \E bits \in Reenabled : bits \subseteq types /\ SetSocketFlags(bits)
  \/ Schedule \/ Cancel \/ Invalidate \/ CloseNative
Manager ==
  Copy \/ Select \/ ManageSelectError \/ Collect \/ HandleWrite \/ Take \/ HandleRead
Next ==
  \/ Client \/ Manager
  \/ \E t \in Performers : Perform(t) \/ Connect(t) \/ Read(t) \/ Write(t) \/ Again(t)
  \/ Arrive \/ End \/ BecomesWritable

Spec == Init /\ [][Next]_vars
-----------------------------------------------------------------------------
Performing == {t \in Performers : performs[t].pc # "idle"}

\* The variables have their types.
TypeOK ==
  /\ types \in TypeSets /\ client \subseteq types /\ disabled \subseteq types
  /\ oriented \in BOOLEAN /\ valid \in BOOLEAN /\ connected \in BOOLEAN
  /\ readSignalled \in BOOLEAN /\ writeSignalled \in BOOLEAN /\ errorCode \in BOOLEAN
  /\ signalled \in BOOLEAN /\ open \in BOOLEAN /\ writable \in BOOLEAN /\ ended \in BOOLEAN
  /\ setCount \in 0..MaxModes /\ wakes \in 0..MaxWakes /\ calls \in 0..MaxCalls
  /\ inLists \subseteq Directions /\ fds \subseteq Directions /\ armed \subseteq Directions
  /\ manager \in [pc : ManagerPCs, fds : SUBSET Directions, got : 0..Nothing]
  /\ performs \in [Performers -> Performs]
  /\ sent \in 0..MaxMessages /\ connects \in Nat
  /\ arrived \in Seq(1..MaxMessages) /\ queue \in Seq(0..MaxMessages)
  /\ delivered \in Seq(0..MaxMessages)

\* "we assume that the sockets have already been added to the __CFReadSockets and
\* __CFWriteSockets arrays" (2848): whose descriptor is in a set is in the list.
SetsAreOfLists == fds \subseteq inLists

\* A socket whose callbacks a client has enabled, or that are enabled again
\* automatically, is heard until it is called for them: its descriptor is in
\* the set, or the manager has taken it out to signal it, or it is signalled
\* (2177-2406, 3115).
ExpectedIsHeard ==
  valid /\ open =>
    armed \subseteq fds \cup AtHand \cup (IF signalled THEN Signalled ELSE {})

\* The manager does not sleep on old sets: when it is in select without a
\* descriptor that is in the set, a byte is on its way to it (1373-1413).
SelectIsCurrent == At("select") /\ ~(fds \subseteq manager.fds) => wakes > 0

\* What was read is called out for: a queue that has something is signalled, or
\* a thread is performing it (3083).
QueueIsSignalled == valid /\ queue # <<>> => signalled \/ Performing # {}

\* Data callbacks are given all that arrived, none twice; with one performing
\* thread in order, and "one final kCFSocketDataCallBack will occur" (CFSocket.h:65).
Messages(q) == SelectSeq(q, LAMBDA m : m \in 1..MaxMessages)
Taken ==
  LET with == {t \in Performing : performs[t].pc \in {"connect", "read"}}
  IN  FlattenSeq(SetToSeq({<<performs[t].data>> : t \in with}))

DataArrives ==
  LET all == Messages(delivered \o Taken \o queue \o <<manager.got>> \o arrived)
  IN  /\ valid /\ open /\ Queues => Len(all) = sent /\ ToSet(all) = 1..sent
      /\ Cardinality(Performers) = 1 =>
           /\ \A j, k \in DOMAIN all : j < k => all[j] < all[k]
           /\ ReadType = DataType =>
                \A k \in DOMAIN delivered : delivered[k] = EOF => k = Len(delivered)

\* "kCFSocketConnectCallBack will never be sent more than once" (CFSocket.h:48).
ConnectIsCalledOnce == connects <= 1
=============================================================================
