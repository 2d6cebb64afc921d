------------------------------- MODULE Stream -------------------------------
(* CFStream.c: streams, the sources that those scheduled in the same mode of *)
(* one loop share, and the delivery of their events by run loops and queues. *)
(* A step is a call of a client or of a stream's implementation, or a part   *)
(* of a delivery between two locks or callbacks.  Left out: blocking calls   *)
(* on a stream that is opening, and which loop is woken up.                  *)
EXTENDS Naturals, Sequences, SequencesExt, FiniteSets

CONSTANTS
  Streams,
  Modes,      \* pairs of a run loop and a mode
  Legacy,     \* the one of the loop that serves streams with queues
  None,
  MaxCalls, MaxDepth   \* bounds

StreamAssumption == Legacy \in Modes /\ MaxCalls \in Nat /\ MaxDepth \in Nat

\* The events, in the order of their bits.
Events == <<"open", "bytes", "error", "end">>
First(events) == CHOOSE e \in events :
  \A f \in events : SelectInSeq(Events, LAMBDA g : g = e)
                      <= SelectInSeq(Events, LAMBDA g : g = f)

\* The threads that deliver: two loops and a queue.
Deliverers == {"loop", "legacy", "queue"}
RunsIn(o, m) == IF m = Legacy THEN o = "legacy" ELSE o = "loop"

VARIABLES
  status, haveClosed,
  when, what,     \* client->when, client->whatToSignal
  source,         \* client->rlSource: none, one of its own, or that of a mode
  runLoopsAndModes,
  ownModes,       \* the modes that a source of its own is in
  list,           \* sSharedSources: the streams of each mode's source
  signalled,      \* signalled sources, named by their mode or stream
  pending,        \* pendingEventsToDeliver
  calling,        \* CALLING_CLIENT
  queued, jobs,   \* the streams with a queue, and its blocks
  stack,          \* the deliveries of each thread
  calls

state == <<status, haveClosed>>
schedule == <<source, runLoopsAndModes, ownModes, list>>
vars == <<state, when, what, schedule, signalled, pending, calling, queued, jobs, stack, calls>>

Init ==
  /\ status = [s \in Streams |-> "notOpen"] /\ haveClosed = {}
  /\ when = [s \in Streams |-> ToSet(Events)] /\ what = [s \in Streams |-> {}]
  /\ source = [s \in Streams |-> None]
  /\ runLoopsAndModes = [s \in Streams |-> <<>>] /\ ownModes = [s \in Streams |-> {}]
  /\ list = [m \in Modes |-> <<>>]
  /\ signalled = {} /\ pending = {} /\ calling = {}
  /\ queued = {} /\ jobs = <<>> /\ stack = [o \in Deliverers |-> <<>>] /\ calls = 0

Call == calls < MaxCalls /\ calls' = calls + 1
SourceOf(s) == IF source[s] = "own" THEN s ELSE source[s]

\* _CFStreamSetStatusCode
Status(s, new) ==
  IF status[s] \notin {"closed", "error"} \/ (status[s] = "closed" /\ new = "error")
  THEN new ELSE status[s]
SetStatus(s, new) == status' = [status EXCEPT ![s] = Status(s, new)]

\* _CFStreamScheduleEvent, with the events that are left to signal
ScheduleEvent(s, events, left) ==
  LET scheduled == events \cap when[s]
      now == scheduled # {} /\ source[s] # None
  IN  /\ what' = [what EXCEPT ![s] = left \cup (IF now THEN scheduled ELSE {})]
      /\ signalled' = IF now THEN signalled \cup {SourceOf(s)} ELSE signalled

(***************************************************************************)
(* Opening, reading, closing.  Every call clears CALLING_CLIENT.           *)
(***************************************************************************)
EventOf(outcome) ==
  CASE outcome = "open" -> {"open"} [] outcome = "error" -> {"error"} [] OTHER -> {}

Completes(s, outcome) ==
  /\ SetStatus(s, outcome)
  /\ ScheduleEvent(s, EventOf(outcome), what[s])
  /\ calling' = calling \ {s}
  /\ UNCHANGED <<haveClosed, when, schedule, pending, queued, jobs, stack>>

\* _CFStreamOpen, at once or not
Open(s) ==
  /\ Call /\ status[s] = "notOpen"
  /\ \E outcome \in {"opening", "open", "error"} : Completes(s, outcome)

\* _CFStreamGetStatus, which asks whether the opening is completed
GetStatus(s) ==
  /\ Call /\ status[s] = "opening"
  /\ \E outcome \in {"open", "error"} : Completes(s, outcome)

\* CFReadStreamRead and CFReadStreamGetBuffer of an open stream
Read(s) ==
  /\ Call /\ status[s] = "open"
  /\ \E outcome \in {"open", "error", "atEnd"} :
       /\ SetStatus(s, outcome)
       /\ ScheduleEvent(s, CASE outcome = "error" -> {"error"} [] outcome = "atEnd" -> {"end"}
                             [] OTHER -> {}, what[s] \ {"bytes"})
  /\ calling' = calling \ {s}
  /\ UNCHANGED <<haveClosed, when, schedule, pending, queued, jobs, stack>>

\* A shared source without streams is invalidated.
LeaveShared(s, m) ==
  /\ list' = [list EXCEPT ![m] = SelectSeq(@, LAMBDA t : t # s)]
  /\ signalled' = IF list[m] = <<s>> THEN signalled \ {m} ELSE signalled

\* _CFStreamDetachSource
DetachSource(s) ==
  /\ source' = [source EXCEPT ![s] = None]
  /\ ownModes' = [ownModes EXCEPT ![s] = {}]
  /\ CASE source[s] = "own" -> signalled' = signalled \ {s} /\ UNCHANGED list
       [] source[s] = None -> UNCHANGED <<signalled, list>>
       [] OTHER -> LeaveShared(s, source[s])

\* _CFStreamClose
Close(s) ==
  /\ Call /\ status[s] \notin {"notOpen", "closed"} /\ s \notin haveClosed
  /\ haveClosed' = haveClosed \cup {s}
  /\ DetachSource(s)
  /\ SetStatus(s, "closed")
  /\ calling' = calling \ {s}
  /\ UNCHANGED <<when, what, runLoopsAndModes, pending, queued, jobs, stack>>

\* _CFStreamSetClient
SetClient(s, events) ==
  /\ Call /\ when' = [when EXCEPT ![s] = events]
  /\ UNCHANGED <<state, what, schedule, signalled, pending, calling, queued, jobs, stack>>

(***************************************************************************)
(* Scheduling                                                              *)
(***************************************************************************)
\* _CFStreamScheduleWithRunLoop: the first mode's source is shared; with the
\* second the stream gets its own, which is put in both.
Signals(s, m) == {IF source[s] = None THEN m ELSE s}

Schedule(s, m) ==
  /\ CASE source[s] = None ->
            /\ list' = [list EXCEPT ![m] = Append(@, s)]
            /\ source' = [source EXCEPT ![s] = m]
            /\ UNCHANGED ownModes
       [] source[s] = "own" ->
            /\ ownModes' = [ownModes EXCEPT ![s] = @ \cup {m}]
            /\ UNCHANGED <<list, source>>
       [] OTHER ->
            /\ list' = [list EXCEPT ![source[s]] = SelectSeq(@, LAMBDA t : t # s)]
            /\ source' = [source EXCEPT ![s] = "own"]
            /\ ownModes' = [ownModes EXCEPT ![s] = {source[s], m}]
  /\ LET kept == IF source[s] \in Modes /\ list[source[s]] = <<s>>
                 THEN signalled \ {source[s]} ELSE signalled
     IN  signalled' = IF what[s] # {} THEN kept \cup Signals(s, m) ELSE kept

ScheduleWithRunLoop(s, m) ==
  /\ Call /\ m # Legacy /\ s \notin queued
  /\ \A k \in DOMAIN runLoopsAndModes[s] : runLoopsAndModes[s][k] # m
  /\ Schedule(s, m)
  /\ runLoopsAndModes' = [runLoopsAndModes EXCEPT ![s] = Append(@, m)]
  /\ calling' = calling \ {s}
  /\ UNCHANGED <<state, when, what, pending, queued, jobs, stack>>

\* _CFStreamUnscheduleFromRunLoop
Unschedule(s, m) ==
  /\ Call /\ source[s] # None
  /\ \E k \in DOMAIN runLoopsAndModes[s] :
       /\ runLoopsAndModes[s][k] = m
       /\ runLoopsAndModes' = [runLoopsAndModes EXCEPT ![s] = RemoveAt(@, k)]
  /\ IF source[s] = "own"
     THEN /\ ownModes' = [ownModes EXCEPT ![s] = @ \ {m}]
          /\ UNCHANGED <<list, source, signalled>>
     ELSE /\ LeaveShared(s, source[s])
          /\ source' = [source EXCEPT ![s] = None]
          /\ UNCHANGED ownModes
  /\ UNCHANGED <<state, when, what, pending, calling, queued, jobs, stack>>

\* _CFStreamSetDispatchQueue, for a stream that is not scheduled: it joins the
\* streams that another loop serves.
SetDispatchQueue(s) ==
  /\ Call /\ source[s] = None /\ runLoopsAndModes[s] = <<>>
  /\ Schedule(s, Legacy)
  /\ runLoopsAndModes' = [runLoopsAndModes EXCEPT ![s] = <<Legacy>>]
  /\ queued' = queued \cup {s}
  /\ calling' = calling \ {s}
  /\ UNCHANGED <<state, when, what, pending, jobs, stack>>

(***************************************************************************)
(* Events and their delivery                                               *)
(***************************************************************************)
Top(o) == Last(stack[o])
CanRun(o) == stack[o] # <<>> => Top(o).in /\ Len(stack[o]) < MaxDepth

\* _signalEventSync takes what is present to signal.
SignalEventSync(o, s, present) ==
  /\ pending' = pending \ {s}
  /\ what' = [what EXCEPT ![s] = {}]
  /\ IF present = {}
     THEN calling' = calling \ {s} /\ UNCHANGED stack
     ELSE /\ calling' = calling \cup {s}
          /\ stack' = [stack EXCEPT ![o] = Append(@, [stream |-> s, todo |-> present, in |-> FALSE])]
  /\ UNCHANGED jobs

\* _cfstream_solo_signalEventSync
Solo(o, s, present) ==
  IF s \in pending \/ s \in queued
  THEN /\ what' = [what EXCEPT ![s] = present]
       /\ jobs' = IF s \in pending THEN jobs ELSE Append(jobs, s)
       /\ UNCHANGED <<pending, calling, stack>>
  ELSE SignalEventSync(o, s, present)

\* _CFStreamSignalEvent, called by the implementation of a stream
Allowed(s, event) ==
  CASE status[s] \in {"notOpen", "closed", "error"} -> FALSE
    [] status[s] = "atEnd" -> event = "error"
    [] status[s] = "opening" -> TRUE
    [] OTHER -> event # "open"

StatusAfter(s, event) ==
  CASE event = "open" -> Status(s, "open")
    [] event = "end" -> Status(s, "atEnd")
    [] event = "error" -> Status(s, "error")
    [] OTHER -> status[s]

IsIn(s, m) == source[s] = m \/ m \in ownModes[s]

SignalEvent(o, s, event) ==
  /\ Call /\ CanRun(o) /\ Allowed(s, event)
  /\ (event = "open") = (status[s] = "opening")
  /\ status' = [status EXCEPT ![s] = StatusAfter(s, event)]
  /\ IF event \in when[s] \ what[s] /\ source[s] # None
     THEN \E signalNow \in {FALSE, s \notin calling /\ \E m \in Modes : RunsIn(o, m) /\ IsIn(s, m)} :
            IF signalNow
            THEN Solo(o, s, what[s] \cup {event}) /\ UNCHANGED signalled
            ELSE /\ what' = [what EXCEPT ![s] = @ \cup {event}]
                 /\ signalled' = signalled \cup {SourceOf(s)}
                 /\ UNCHANGED <<pending, calling, jobs, stack>>
     ELSE UNCHANGED <<what, signalled, pending, calling, jobs, stack>>
  /\ UNCHANGED <<haveClosed, when, schedule, queued>>

\* _cfstream_shared_signalEventSync: the first stream with an event is served,
\* and the source is signalled again for the next one.
Served(m) ==
  {k \in DOMAIN list[m] : list[m][k] \notin pending /\ what[list[m][k]] # {}}
SignalsAgain_Two(m) == Cardinality(Served(m)) > 2   \* mutant
SignalsAgain(m) == Cardinality(Served(m)) > 1

PerformShared(o, m) ==
  /\ CanRun(o) /\ RunsIn(o, m) /\ m \in signalled
  /\ signalled' = IF SignalsAgain(m) THEN signalled ELSE signalled \ {m}
  /\ IF Served(m) = {}
     THEN UNCHANGED <<what, pending, calling, jobs, stack>>
     ELSE LET s == list[m][CHOOSE k \in Served(m) : \A j \in Served(m) : k <= j]
          IN  IF s \in queued
              THEN /\ pending' = pending \cup {s} /\ jobs' = Append(jobs, s)
                   /\ UNCHANGED <<what, calling, stack>>
              ELSE SignalEventSync(o, s, what[s])
  /\ UNCHANGED <<state, when, schedule, queued, calls>>

PerformOwn(o, s) ==
  /\ CanRun(o) /\ s \in signalled /\ \E m \in ownModes[s] : RunsIn(o, m)
  /\ signalled' = signalled \ {s}
  /\ Solo(o, s, what[s])
  /\ UNCHANGED <<state, when, schedule, queued, calls>>

\* _signalEventQueue's block
RunJob ==
  /\ jobs # <<>> /\ stack["queue"] = <<>>
  /\ LET s == Head(jobs)
     IN  /\ pending' = pending \ {s}
         /\ what' = [what EXCEPT ![s] = {}]
         /\ jobs' = Tail(jobs)
         /\ IF what[s] = {}
            THEN calling' = calling \ {s} /\ UNCHANGED stack
            ELSE /\ calling' = calling \cup {s}
                 /\ stack' = [stack EXCEPT !["queue"] =
                                <<[stream |-> s, todo |-> what[s], in |-> FALSE]>>]
  /\ UNCHANGED <<state, when, schedule, signalled, queued, calls>>

SetTop(o, frame) == stack' = [stack EXCEPT ![o] = Append(Front(@), frame)]

\* The events that were taken are called out one after the other.
Deliver(o) ==
  /\ stack[o] # <<>> /\ ~Top(o).in /\ Top(o).todo # {}
  /\ LET frame == Top(o)
         event == First(frame.todo)
     IN  SetTop(o, IF event \in when[frame.stream] THEN [frame EXCEPT !.in = TRUE]
                   ELSE [frame EXCEPT !.todo = @ \ {event}])
  /\ UNCHANGED <<state, when, what, schedule, signalled, pending, calling, queued, jobs, calls>>

Return(o) ==
  /\ stack[o] # <<>> /\ Top(o).in
  /\ SetTop(o, [Top(o) EXCEPT !.in = FALSE, !.todo = @ \ {First(@)}])
  /\ UNCHANGED <<state, when, what, schedule, signalled, pending, calling, queued, jobs, calls>>

Finish(o) ==
  /\ stack[o] # <<>> /\ ~Top(o).in /\ Top(o).todo = {}
  /\ calling' = calling \ {Top(o).stream}
  /\ stack' = [stack EXCEPT ![o] = Front(@)]
  /\ UNCHANGED <<state, when, what, schedule, signalled, pending, queued, jobs, calls>>

Client(s) ==
  \/ Open(s) \/ GetStatus(s) \/ Read(s) \/ Close(s)
  \/ \E events \in {{}, {"bytes", "end"}} : SetClient(s, events)
  \/ \E m \in Modes : ScheduleWithRunLoop(s, m) \/ Unschedule(s, m)
  \/ SetDispatchQueue(s)
Next ==
  \/ \E s \in Streams : Client(s)
  \/ \E o \in {"loop", "legacy"}, s \in Streams :
       PerformOwn(o, s) \/ \E event \in ToSet(Events) : SignalEvent(o, s, event)
  \/ \E o \in {"loop", "legacy"}, m \in Modes : PerformShared(o, m)
  \/ RunJob
  \/ \E o \in Deliverers : Deliver(o) \/ Return(o) \/ Finish(o)

Spec == Init /\ [][Next]_vars
-----------------------------------------------------------------------------
\* The variables have their types.
TypeOK ==
  /\ haveClosed \cup pending \cup calling \cup queued \subseteq Streams
  /\ source \in [Streams -> Modes \cup {None, "own"}]
  /\ ownModes \in [Streams -> SUBSET Modes]
  /\ signalled \subseteq Modes \cup Streams
  /\ \A s \in Streams : (what[s] \cup when[s]) \subseteq ToSet(Events)

\* An event that is to be signalled will be: the stream's source is signalled,
\* or a block that will take it is in the queue (668-722).
EventsAreSignalled ==
  \A s \in Streams : what[s] # {} /\ source[s] # None =>
    SourceOf(s) \in signalled \/ s \in ToSet(jobs)

\* A stream that is pending has its block, or it would never be served again (679).
PendingHaveBlocks == pending \subseteq ToSet(jobs)

\* The list of a shared source has the streams whose source it is, once each, and
\* a signalled source is somebody's (1385-1500).
SharedSourcesAgree ==
  /\ \A m \in Modes : IsInjective(list[m]) /\ ToSet(list[m]) = {s \in Streams : source[s] = m}
  /\ \A x \in signalled : \E s \in Streams : SourceOf(s) = x

\* The run loop that is woken up for a stream is one where its source is: the
\* modes of the source are known to it (749).
ModesAreKnown ==
  \A s \in Streams : source[s] # None =>
    \A m \in Modes : IsIn(s, m) => m \in ToSet(runLoopsAndModes[s])
=============================================================================
