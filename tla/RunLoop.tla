------------------------------ MODULE RunLoop ------------------------------
(***************************************************************************)
(* The run loop of CFRunLoop.c: the activations of one CFRunLoop on its    *)
(* own thread (CFRunLoopRunSpecific, __CFRunLoopRun), which may nest       *)
(* through any callout, and the other threads that give it work            *)
(* (CFRunLoopPerformBlock, CFRunLoopSourceSignal, CFRunLoopStop, ...) and  *)
(* then wake it up through a port whose queue holds one message.           *)
(*                                                                         *)
(* The modes exist, their items are installed, and the observers of the    *)
(* activities in Observed are installed in every mode; timers are modelled *)
(* in RunLoopTimers.  A callback's own calls into the loop need no action  *)
(* of their own: they are the calls of a thread that make them while the   *)
(* callback runs.                                                          *)
(***************************************************************************)
EXTENDS Naturals, Sequences

CONSTANTS
  Modes,        \* the modes of the loop
  CommonModes,  \* _commonModes, which CFRunLoopAddCommonMode has filled
  Common,       \* kCFRunLoopCommonModes, as a block's mode
  Blocks,       \* the blocks that clients enqueue, each once
  BlockModes,   \* _mode of a block's item: the modes it may run in
  Sources0,     \* version 0 sources (signaled)
  Sources1,     \* version 1 sources (a Mach port)
  SourceOrder,  \* _order of a version 0 source
  Members,      \* the sources each mode starts with
  Threads,      \* threads that call into the loop from outside
  Observed,     \* activities some observer of every mode observes
  IsMain,       \* whether this is the main thread's run loop
  RunKinds,     \* the arguments clients give to CFRunLoopRunInMode
  MaxDepth      \* bound on the nesting of activations

Activities == {"Entry", "BeforeTimers", "BeforeSources", "BeforeWaiting",
               "AfterWaiting", "Exit"}
\* The arguments of CFRunLoopRunInMode: returnAfterSourceHandled, and what its
\* seconds make of termTSR -- no limit (UINT64_MAX), a deadline still to come,
\* or the instant timeout (0).
RunKind == [soft : BOOLEAN, seconds : {"never", "future", "fired"}]
Sources == Sources0 \cup Sources1

ASSUME ModesAssumption == Modes # {} /\ CommonModes \subseteq Modes /\ Common \notin Modes
ASSUME BlocksAssumption == BlockModes \in [Blocks -> SUBSET (Modes \cup {Common})]
ASSUME SourcesAssumption ==
  /\ Sources0 \cap Sources1 = {}
  /\ Sources \cap {"idle", "wake", "null", "dispatch"} = {}
  /\ SourceOrder \in [Sources0 -> Nat]
  /\ Members \in [Modes -> SUBSET Sources]
ASSUME RunsAssumption ==
  /\ Observed \subseteq Activities
  /\ IsMain \in BOOLEAN
  /\ RunKinds \subseteq RunKind
  /\ MaxDepth \in Nat \ {0}

VARIABLES
  depth,        \* the number of activations on the thread's stack
  frame,        \* the locals and the _per_run_data of each of them
  queue,        \* the list _blocks_head .. _blocks_tail
  members,      \* _sources0 and _sources1 of each mode
  valid,        \* the sources that are valid
  signaled,     \* the version 0 sources whose _signaled is set
  arrived,      \* the version 1 sources whose port holds a message
  wakePort,     \* whether the message of _wakeUpPort is queued
  modeStopped,  \* the modes whose _stopped is set
  mainQueue,    \* whether the main dispatch queue's port holds a message
  dispatchIn,   \* the modes whose port set has the main queue's port
  inMainQueue,  \* __CFTSDKeyIsInGCDMainQ: the main queue is being serviced
  doing,        \* what each other thread has left to do
  enqueued,     \* history: the blocks in the order they were enqueued
  performed     \* history: the blocks performed, with the mode, in order

loop == <<depth, frame>>
sources == <<members, valid, signaled, arrived>>
mainQ == <<mainQueue, dispatchIn, inMainQueue>>
blocks == <<queue, enqueued, performed>>
vars == <<loop, sources, mainQ, blocks, wakePort, modeStopped, doing>>

----------------------------------------------------------------------------
(* Activations.  A pc names where the activation is: in the held pcs the   *)
(* thread holds the run loop's and the mode's lock, in the others it has   *)
(* let both go, for a callout or to sleep.                                 *)

\* Where observers of an activity are called, and what comes after them.
ActivityAt ==
  [entryObs |-> "Entry", timersObs |-> "BeforeTimers",
   sourcesObs |-> "BeforeSources", waitObs |-> "BeforeWaiting",
   afterObs |-> "AfterWaiting", exitObs |-> "Exit"]
AfterObservers ==
  [entryObs |-> "begin", timersObs |-> "sourcesObs",
   sourcesObs |-> "doBlocks", waitObs |-> "sleep",
   afterObs |-> "handle", exitObs |-> "pop"]
ObserverPCs == DOMAIN ActivityAt
CalloutPCs == {"block", "source0", "source1", "mainQueue"}
FreePCs == {"blockList", "sourceList", "asleep", "woken"} \cup CalloutPCs
HeldPCs == {"begin", "doBlocks", "collect", "poll", "sleep", "handle",
            "decide", "pop"}

Results == {"Finished", "Stopped", "TimedOut", "HandledSource"}

Frame ==
  [mode : Modes,
   pc : ObserverPCs \cup FreePCs \cup HeldPCs,
   stopAfterHandle : BOOLEAN,
   termTSR : {"never", "future", "past", "fired"},
   stopped : BOOLEAN,              \* _per_run_data
   ignoreWakeUps : BOOLEAN,
   hasDispatchPort : BOOLEAN,      \* dispatchPort # MACH_PORT_NULL
   didDispatchPortLastTime : BOOLEAN,
   detached : Seq(Blocks),         \* __CFRunLoopDoBlocks: the list it took
   afterBlocks : {"collect", "poll", "decide"},   \* and where it returns to
   collected : SUBSET Sources0,    \* __CFRunLoopDoSources0
   sourceHandled : BOOLEAN,
   poll : BOOLEAN,
   livePort : {"null", "wake", "dispatch"} \cup Sources1,
   retVal : Results,
   served : BOOLEAN,   \* history: a source was performed in this iteration
   nested : BOOLEAN]   \* history: a nested activation ran in this iteration

NewFrame(m, kind) ==
  [mode |-> m, pc |-> "entryObs", stopAfterHandle |-> kind.soft,
   termTSR |-> kind.seconds, stopped |-> FALSE, ignoreWakeUps |-> FALSE,
   hasDispatchPort |-> FALSE, didDispatchPortLastTime |-> TRUE,
   detached |-> <<>>, afterBlocks |-> "collect", collected |-> {},
   sourceHandled |-> FALSE, poll |-> FALSE, livePort |-> "null",
   retVal |-> "Finished", served |-> FALSE, nested |-> FALSE]

Unused == NewFrame(CHOOSE m \in Modes : TRUE, [soft |-> FALSE, seconds |-> "never"])

Top == frame[depth]
At(pc) == depth > 0 /\ Top.pc = pc
SetTop(f) == frame' = [frame EXCEPT ![depth] = f] /\ UNCHANGED depth

\* The locks of the run loop and of its mode are held by its own thread.
LockHeld ==
  /\ depth > 0
  /\ \/ Top.pc \in HeldPCs
     \/ Top.pc \in ObserverPCs /\ ActivityAt[Top.pc] \notin Observed

\* The thread runs client code, from which it may run the loop.
InClientCode ==
  depth > 0 => \/ Top.pc \in CalloutPCs
               \/ Top.pc \in ObserverPCs /\ ActivityAt[Top.pc] \in Observed

\* A loop that is not running has a _per_run_data that ignores wake-ups.
IgnoringWakeUps == depth > 0 => Top.ignoreWakeUps

RunsIn(b, m) == m \in BlockModes[b] \/ (Common \in BlockModes[b] /\ m \in CommonModes)

MainQueueIsSafe_Reentrant(m) == IsMain /\ m \in CommonModes   \* mutant
MainQueueIsSafe(m) == IsMain /\ ~inMainQueue /\ m \in CommonModes

\* Whether the activation may not sleep.
MustPoll == Top.sourceHandled \/ Top.termTSR = "fired"

\* Whether the main queue's port is served before the other ports are.
ServesMainQueueFirst_Swapped ==             \* mutant
  Top.hasDispatchPort /\ Top.didDispatchPortLastTime /\ mainQueue
ServesMainQueueFirst ==
  Top.hasDispatchPort /\ ~Top.didDispatchPortLastTime /\ mainQueue

ModeIsEmpty(m) ==
  /\ ~MainQueueIsSafe(m)
  /\ members[m] = {}
  /\ \A i \in DOMAIN queue : ~RunsIn(queue[i], m)

----------------------------------------------------------------------------
Init ==
  /\ depth = 0 /\ frame = [d \in 1..MaxDepth |-> Unused]
  /\ queue = <<>> /\ enqueued = <<>> /\ performed = <<>>
  /\ members = Members /\ valid = Sources /\ signaled = {} /\ arrived = {}
  /\ wakePort = FALSE /\ modeStopped = {}
  /\ mainQueue = FALSE /\ dispatchIn = {} /\ inMainQueue = FALSE
  /\ doing = [t \in Threads |-> "idle"]

(* The run loop's own thread. *)

\* CFRunLoopRunSpecific, from the thread's code or from a callout: it
\* returns at once when the mode is empty, else an activation is pushed.
RunSpecific(m, kind) ==
  /\ InClientCode /\ depth < MaxDepth
  /\ ~ModeIsEmpty(m)
  /\ depth' = depth + 1
  /\ frame' = [d \in 1..MaxDepth |->
                 IF d = depth + 1 THEN NewFrame(m, kind)
                 ELSE IF d = depth THEN [Top EXCEPT !.nested = TRUE]
                 ELSE frame[d]]
  /\ UNCHANGED <<sources, mainQ, blocks, wakePort, modeStopped, doing>>

\* __CFRunLoopDoObservers: the callouts of one activity are over.
ObserversReturn ==
  /\ depth > 0 /\ Top.pc \in ObserverPCs
  /\ SetTop([Top EXCEPT !.pc = AfterObservers[Top.pc],
                        !.afterBlocks = IF Top.pc = "sourcesObs" THEN "collect" ELSE @])
  /\ UNCHANGED <<sources, mainQ, blocks, wakePort, modeStopped, doing>>

\* The locals of the loop's body have gone out of scope...
EndOfBody ==
  [Top EXCEPT !.sourceHandled = FALSE, !.poll = FALSE, !.livePort = "null",
              !.afterBlocks = "collect"]
\* ...and the activation returns, or begins an iteration, in which wake-ups
\* are no longer ignored.
NextIteration_Ignoring ==                   \* mutant
  [EndOfBody EXCEPT !.served = FALSE, !.nested = FALSE, !.pc = "timersObs"]
NextIteration ==
  [EndOfBody EXCEPT !.ignoreWakeUps = FALSE, !.served = FALSE, !.nested = FALSE,
                    !.pc = "timersObs"]
Returning(result) == [EndOfBody EXCEPT !.retVal = result, !.pc = "exitObs"]

\* The start of __CFRunLoopRun: a stop that is already there, else the
\* timeout and the dispatch port are set up and the first iteration begins.
Begin ==
  /\ At("begin")
  /\ IF Top.stopped
     THEN /\ SetTop([Returning("Stopped") EXCEPT !.stopped = FALSE])
          /\ UNCHANGED modeStopped
     ELSE IF Top.mode \in modeStopped
     THEN /\ SetTop(Returning("Stopped"))
          /\ modeStopped' = modeStopped \ {Top.mode}
     ELSE /\ SetTop([NextIteration EXCEPT !.hasDispatchPort = MainQueueIsSafe(Top.mode)])
          /\ UNCHANGED modeStopped
  /\ UNCHANGED <<sources, mainQ, blocks, wakePort, doing>>

\* __CFRunLoopDoBlocks takes the whole list of the loop and unlocks...
DetachBlocks ==
  /\ At("doBlocks")
  /\ IF queue = <<>>
     THEN SetTop([Top EXCEPT !.pc = Top.afterBlocks])
     ELSE SetTop([Top EXCEPT !.detached = queue, !.pc = "blockList"])
  /\ queue' = <<>>
  /\ UNCHANGED <<enqueued, performed, sources, mainQ, wakePort, modeStopped, doing>>

\* ...performs those meant for its mode, in order...
PerformNext ==
  /\ At("blockList")
  /\ \E i \in DOMAIN Top.detached :
       LET b == Top.detached[i] IN
       /\ RunsIn(b, Top.mode)
       /\ \A j \in 1..(i - 1) : ~RunsIn(Top.detached[j], Top.mode)
       /\ SetTop([Top EXCEPT !.pc = "block",
                    !.detached = SubSeq(@, 1, i - 1) \o SubSeq(@, i + 1, Len(@))])
       /\ performed' = Append(performed, [block |-> b, mode |-> Top.mode])
  /\ UNCHANGED <<queue, enqueued, sources, mainQ, wakePort, modeStopped, doing>>

BlockReturns ==
  /\ At("block")
  /\ SetTop([Top EXCEPT !.pc = "blockList"])
  /\ UNCHANGED <<sources, mainQ, blocks, wakePort, modeStopped, doing>>

Reattached_Dropping == Top.detached         \* mutants
Reattached_Behind == queue \o Top.detached
Reattached == Top.detached \o queue

\* ...and puts the others back before what was enqueued meanwhile.
ReattachBlocks ==
  /\ At("blockList")
  /\ \A i \in DOMAIN Top.detached : ~RunsIn(Top.detached[i], Top.mode)
  /\ queue' = Reattached
  /\ SetTop([Top EXCEPT !.detached = <<>>, !.pc = Top.afterBlocks])
  /\ UNCHANGED <<enqueued, performed, sources, mainQ, wakePort, modeStopped, doing>>

\* __CFRunLoopDoSources0 collects the signaled sources of the mode...
CollectSources0 ==
  /\ At("collect")
  /\ LET found == members[Top.mode] \cap Sources0 \cap valid \cap signaled IN
     SetTop([Top EXCEPT !.sourceHandled = FALSE, !.collected = found,
                        !.pc = IF found = {} THEN "poll" ELSE "sourceList"])
  /\ UNCHANGED <<sources, mainQ, blocks, wakePort, modeStopped, doing>>

\* ...and performs each that is still signaled, by _order; what the last one
\* did is what it reports.
DoSource0 ==
  /\ At("sourceList")
  /\ \E s \in Top.collected :
       /\ \A o \in Top.collected : SourceOrder[s] <= SourceOrder[o]
       /\ signaled' = signaled \ {s}
       /\ IF s \in signaled /\ s \in valid
          THEN SetTop([Top EXCEPT !.collected = @ \ {s}, !.pc = "source0"])
          ELSE SetTop([Top EXCEPT !.collected = @ \ {s}, !.sourceHandled = FALSE])
  /\ UNCHANGED <<members, valid, arrived, mainQ, blocks, wakePort, modeStopped, doing>>

StillToPerform_NoBreak == Top.collected     \* mutant
StillToPerform == IF Top.stopAfterHandle THEN {} ELSE Top.collected

Source0Returns ==
  /\ At("source0")
  /\ SetTop([Top EXCEPT !.pc = "sourceList", !.sourceHandled = TRUE, !.served = TRUE,
                        !.collected = StillToPerform])
  /\ UNCHANGED <<sources, mainQ, blocks, wakePort, modeStopped, doing>>

Sources0Done ==
  /\ At("sourceList") /\ Top.collected = {}
  /\ SetTop([Top EXCEPT !.afterBlocks = "poll",
                        !.pc = IF Top.sourceHandled THEN "doBlocks" ELSE "poll"])
  /\ UNCHANGED <<sources, mainQ, blocks, wakePort, modeStopped, doing>>

\* Whether to sleep or only to poll.  The main queue's port is served here,
\* before the others, unless it was the last one served.
Poll ==
  /\ At("poll")
  /\ IF ServesMainQueueFirst
     THEN /\ SetTop([Top EXCEPT !.poll = MustPoll, !.livePort = "dispatch", !.pc = "handle"])
          /\ mainQueue' = FALSE
     ELSE /\ SetTop([Top EXCEPT !.poll = MustPoll, !.livePort = "null",
                       !.didDispatchPortLastTime = FALSE,
                       !.pc = IF MustPoll THEN "sleep" ELSE "waitObs"])
          /\ UNCHANGED mainQueue
  /\ UNCHANGED <<dispatchIn, inMainQueue, sources, blocks, wakePort, modeStopped, doing>>

\* The port of the main queue is only in the port set while this sleeps.
Sleep ==
  /\ At("sleep")
  /\ dispatchIn' = IF Top.hasDispatchPort THEN dispatchIn \cup {Top.mode} ELSE dispatchIn
  /\ SetTop([Top EXCEPT !.pc = "asleep"])
  /\ UNCHANGED <<mainQueue, inMainQueue, sources, blocks, wakePort, modeStopped, doing>>

\* The ports of the mode's set that hold a message.
Ready ==
  {p \in {"wake"} : wakePort}
    \cup {p \in {"dispatch"} : mainQueue /\ Top.mode \in dispatchIn}
    \cup (arrived \cap members[Top.mode])

\* __CFRunLoopServiceMachPort takes the message of one port of the set; a
\* poll returns when there is none.
Receive ==
  /\ At("asleep")
  /\ \E p \in Ready \cup {n \in {"null"} : Top.poll /\ Ready = {}} :
       /\ SetTop([Top EXCEPT !.livePort = p, !.pc = "woken"])
       /\ wakePort' = (wakePort /\ p # "wake")
       /\ mainQueue' = (mainQueue /\ p # "dispatch")
       /\ arrived' = arrived \ {p}
  /\ UNCHANGED <<members, valid, signaled, dispatchIn, inMainQueue, blocks, modeStopped, doing>>

SetsAfterSleep == IF Top.hasDispatchPort THEN dispatchIn \ {Top.mode} ELSE dispatchIn

\* The locks are taken again, and from here on wake-ups are ignored.
WokenUp ==
  /\ At("woken")
  /\ dispatchIn' = SetsAfterSleep
  /\ SetTop([Top EXCEPT !.ignoreWakeUps = TRUE,
                        !.pc = IF Top.poll THEN "handle" ELSE "afterObs"])
  /\ UNCHANGED <<mainQueue, inMainQueue, sources, blocks, wakePort, modeStopped, doing>>

\* What the port that woke the loop makes it call.
Callee ==
  IF Top.livePort = "dispatch" THEN "mainQueue"
  ELSE IF Top.livePort \in Sources1 \cap members[Top.mode] \cap valid THEN "source1"
  ELSE "doBlocks"

\* handle_msg: where the loop is at whenever something woke it up.
HandleMessage ==
  /\ At("handle")
  /\ SetTop([Top EXCEPT !.ignoreWakeUps = TRUE, !.afterBlocks = "decide", !.pc = Callee])
  /\ inMainQueue' = (inMainQueue \/ Callee = "mainQueue")
  /\ UNCHANGED <<mainQueue, dispatchIn, sources, blocks, wakePort, modeStopped, doing>>

MainQueueReturns ==
  /\ At("mainQueue")
  /\ inMainQueue' = FALSE
  /\ SetTop([Top EXCEPT !.sourceHandled = TRUE, !.served = TRUE,
                        !.didDispatchPortLastTime = TRUE, !.pc = "doBlocks"])
  /\ UNCHANGED <<mainQueue, dispatchIn, sources, blocks, wakePort, modeStopped, doing>>

Source1Returns ==
  /\ At("source1")
  /\ SetTop([Top EXCEPT !.sourceHandled = TRUE, !.served = TRUE, !.pc = "doBlocks"])
  /\ UNCHANGED <<sources, mainQ, blocks, wakePort, modeStopped, doing>>

\* The end of the iteration: return, or begin the next one.
Decide ==
  /\ At("decide")
  /\ LET handled == Top.sourceHandled /\ Top.stopAfterHandle
         timedOut == Top.termTSR \in {"past", "fired"}
         early == handled \/ timedOut IN
     \/ /\ handled /\ SetTop(Returning("HandledSource")) /\ UNCHANGED modeStopped
     \/ /\ ~handled /\ timedOut /\ SetTop(Returning("TimedOut")) /\ UNCHANGED modeStopped
     \/ /\ ~early /\ Top.stopped
        /\ SetTop([Returning("Stopped") EXCEPT !.stopped = FALSE])
        /\ UNCHANGED modeStopped
     \/ /\ ~early /\ ~Top.stopped /\ Top.mode \in modeStopped
        /\ modeStopped' = modeStopped \ {Top.mode}
        /\ SetTop(Returning("Stopped"))
     \/ /\ ~early /\ ~Top.stopped /\ Top.mode \notin modeStopped
        /\ IF ModeIsEmpty(Top.mode)
           THEN SetTop(Returning("Finished"))
           ELSE SetTop(NextIteration)
        /\ UNCHANGED modeStopped
  /\ UNCHANGED <<sources, mainQ, blocks, wakePort, doing>>

\* The end of CFRunLoopRunSpecific: the activation is popped.
Pop ==
  /\ At("pop")
  /\ frame' = [frame EXCEPT ![depth] = Unused]
  /\ depth' = depth - 1
  /\ UNCHANGED <<sources, mainQ, blocks, wakePort, modeStopped, doing>>

----------------------------------------------------------------------------
(* The other threads.  Each gives the loop something to do and, in a       *)
(* second step, calls CFRunLoopWakeUp.                                     *)

WillWakeUp(t) == doing[t] = "idle" /\ doing' = [doing EXCEPT ![t] = "wake"]

PerformBlock(t, b) ==
  /\ ~LockHeld
  /\ \A i \in DOMAIN enqueued : enqueued[i] # b
  /\ queue' = Append(queue, b) /\ enqueued' = Append(enqueued, b)
  /\ WillWakeUp(t)
  /\ UNCHANGED <<performed, loop, sources, mainQ, wakePort, modeStopped>>

\* CFRunLoopStop does nothing to a loop that is not running.
Stop(t) ==
  /\ ~LockHeld /\ depth > 0
  /\ SetTop([Top EXCEPT !.stopped = TRUE])
  /\ WillWakeUp(t)
  /\ UNCHANGED <<sources, mainQ, blocks, wakePort, modeStopped>>

StopMode_AnyName(t, m) ==                   \* mutant
  /\ ~LockHeld
  /\ modeStopped' = modeStopped \cup {m, Common}
  /\ WillWakeUp(t)
  /\ UNCHANGED <<loop, sources, mainQ, blocks, wakePort>>

StopMode(t, m) ==
  /\ ~LockHeld
  /\ modeStopped' = modeStopped \cup {m}
  /\ WillWakeUp(t)
  /\ UNCHANGED <<loop, sources, mainQ, blocks, wakePort>>

\* CFRunLoopSourceSignal takes the lock of the source only.
SignalSource(t, s) ==
  /\ s \in valid
  /\ signaled' = signaled \cup {s}
  /\ WillWakeUp(t)
  /\ UNCHANGED <<members, valid, arrived, loop, mainQ, blocks, wakePort, modeStopped>>

\* CFRunLoopSourceInvalidate: first the source is no longer valid, then the
\* loop is locked and the source removed from its modes.
InvalidateSource(t, s) ==
  /\ s \in valid /\ doing[t] = "idle"
  /\ valid' = valid \ {s} /\ signaled' = signaled \ {s}
  /\ doing' = [doing EXCEPT ![t] = s]
  /\ UNCHANGED <<members, arrived, loop, mainQ, blocks, wakePort, modeStopped>>

RemoveFromRunLoop(t) ==
  /\ doing[t] \in Sources /\ ~LockHeld
  /\ members' = [m \in Modes |-> members[m] \ {doing[t]}]
  /\ doing' = [doing EXCEPT ![t] = "idle"]
  /\ UNCHANGED <<valid, signaled, arrived, loop, mainQ, blocks, wakePort, modeStopped>>

\* __CFRunLoopTimeout, on a dispatch queue, for an activation that has not
\* cancelled its timer.
TimeoutFires(t, d) ==
  /\ d \in 1..depth /\ frame[d].termTSR = "past"
  /\ frame[d].pc \notin {"exitObs", "pop"}
  /\ frame' = [frame EXCEPT ![d].termTSR = "fired"]
  /\ WillWakeUp(t)
  /\ UNCHANGED <<depth, sources, mainQ, blocks, wakePort, modeStopped>>

\* CFRunLoopWakeUp: the queue of the port holds one message, a second one
\* is not sent.
WakeUp(t) ==
  /\ doing[t] = "wake" /\ ~LockHeld
  /\ wakePort' = (wakePort \/ ~IgnoringWakeUps)
  /\ doing' = [doing EXCEPT ![t] = "idle"]
  /\ UNCHANGED <<loop, sources, mainQ, blocks, modeStopped>>

(* The world outside: deadlines pass, messages arrive. *)

DeadlinePasses(d) ==
  /\ d \in 1..depth /\ frame[d].termTSR = "future"
  /\ frame[d].pc \notin {"entryObs", "begin"}
  /\ frame' = [frame EXCEPT ![d].termTSR = "past"]
  /\ UNCHANGED <<depth, sources, mainQ, blocks, wakePort, modeStopped, doing>>

MessageArrives(s) ==
  /\ arrived' = arrived \cup {s}
  /\ UNCHANGED <<members, valid, signaled, loop, mainQ, blocks, wakePort, modeStopped, doing>>

MainQueueEnqueue ==
  /\ IsMain /\ mainQueue' = TRUE
  /\ UNCHANGED <<dispatchIn, inMainQueue, loop, sources, blocks, wakePort, modeStopped, doing>>

----------------------------------------------------------------------------
\* One step of the innermost activation.
Step ==
  \/ ObserversReturn \/ Begin
  \/ DetachBlocks \/ PerformNext \/ BlockReturns \/ ReattachBlocks
  \/ CollectSources0 \/ DoSource0 \/ Source0Returns \/ Sources0Done
  \/ Poll \/ Sleep \/ Receive \/ WokenUp \/ HandleMessage
  \/ MainQueueReturns \/ Source1Returns \/ Decide \/ Pop

Run == \E m \in Modes, kind \in RunKinds : RunSpecific(m, kind)

Give(t) ==
  \/ \E b \in Blocks : PerformBlock(t, b)
  \/ Stop(t)
  \/ \E m \in Modes : StopMode(t, m)
  \/ \E s \in Sources0 : SignalSource(t, s)
  \/ \E s \in Sources : InvalidateSource(t, s)
  \/ \E d \in 1..MaxDepth : TimeoutFires(t, d)

Outside ==
  \/ \E d \in 1..MaxDepth : DeadlinePasses(d)
  \/ \E s \in Sources1 : MessageArrives(s)
  \/ MainQueueEnqueue

Next ==
  \/ Step \/ Run
  \/ \E t \in Threads : Give(t) \/ RemoveFromRunLoop(t) \/ WakeUp(t)
  \/ Outside

Spec == Init /\ [][Next]_vars

\* The thread of the loop keeps running (client code returns), and a thread
\* that has begun to call into the loop gets its call done.
FairSpec ==
  /\ Spec
  /\ WF_vars(Step)
  /\ \A t \in Threads : WF_vars(WakeUp(t)) /\ WF_vars(RemoveFromRunLoop(t))

----------------------------------------------------------------------------
(* Properties. *)

\* Every variable has its type.
TypeOK ==
  /\ depth \in 0..MaxDepth /\ frame \in [1..MaxDepth -> Frame]
  /\ queue \in Seq(Blocks) /\ enqueued \in Seq(Blocks)
  /\ performed \in Seq([block : Blocks, mode : Modes])
  /\ members \in [Modes -> SUBSET Sources]
  /\ valid \subseteq Sources /\ signaled \subseteq Sources0 /\ arrived \subseteq Sources1
  /\ wakePort \in BOOLEAN /\ modeStopped \subseteq Modes
  /\ mainQueue \in BOOLEAN /\ dispatchIn \subseteq Modes /\ inMainQueue \in BOOLEAN
  /\ doing \in [Threads -> {"idle", "wake"} \cup Sources]

\* A wake-up has been sent and not yet received, or is about to be sent.
WakeUpPending == wakePort \/ \E t \in Threads : doing[t] = "wake"

\* What the activation f, once awake, would find to do.
HasWork(f) ==
  \/ f.stopped \/ f.mode \in modeStopped \/ f.termTSR = "fired"
  \/ \E i \in DOMAIN queue : RunsIn(queue[i], f.mode)
  \/ members[f.mode] \cap Sources0 \cap valid \cap signaled # {}

SleepsInVain == At("asleep") /\ ~Top.poll /\ HasWork(Top) /\ ~WakeUpPending

\* The loop never sleeps on work it was woken up for: whatever a thread gave
\* it, at whatever point of the iteration, it is about to be woken up --
\* unless an activation nested in this iteration has taken the wake-up.
\* It rests on the ignoreWakeUps flag of __CFRunLoopRun being off from before
\* the first look at the work until after the sleep, on CFRunLoopWakeUp
\* reading it under the lock, and on poll.
WakeUpsReachTheSleeper == SleepsInVain => Top.nested

\* Why it holds.  An activation is on its way to sleep from the start of an
\* iteration to the end of its sleep...
BlockPCs == {"doBlocks", "blockList", "block"}
SleepPCs == {"waitObs", "sleep", "asleep"}
OnTheWayToSleep(f) ==
  \/ f.pc \in SleepPCs \cup {"timersObs", "sourcesObs", "collect", "sourceList", "source0", "poll"}
  \/ f.pc \in BlockPCs /\ f.afterBlocks # "decide"

\* ...and all the while accepts wake-ups.
WakeUpsAccepted ==
  \A d \in 1..depth : OnTheWayToSleep(frame[d]) => ~frame[d].ignoreWakeUps

\* What a message makes it call, it calls after it was woken up.
CalledAfterSleep ==
  \A d \in 1..depth : frame[d].pc \in {"mainQueue", "source1"} => frame[d].afterBlocks = "decide"

NestingIsNoted == \A d \in 1..(depth - 1) : frame[d].nested

\* With no wake-up to come, what the activation has looked at it has left
\* without work, or it knows that it is not to sleep.
NoWakeUpToCome == depth > 0 /\ ~Top.nested /\ OnTheWayToSleep(Top) /\ ~WakeUpPending

NoStopMissed == NoWakeUpToCome => ~Top.stopped /\ Top.mode \notin modeStopped
NoTimeoutMissed ==
  NoWakeUpToCome /\ Top.pc \in SleepPCs /\ Top.termTSR = "fired" => Top.poll
BlocksLookedAt ==
  \/ Top.pc \in SleepPCs \cup {"blockList", "block", "collect", "sourceList", "source0", "poll"}
  \/ Top.pc = "doBlocks" /\ Top.afterBlocks = "poll"
NoBlockMissed ==
  NoWakeUpToCome /\ BlocksLookedAt => \A i \in DOMAIN queue : ~RunsIn(queue[i], Top.mode)
SignaledHere == members[Top.mode] \cap Sources0 \cap valid \cap signaled
NoSourceMissed ==
  NoWakeUpToCome =>
    /\ Top.pc = "source0" => SignaledHere \subseteq Top.collected
    /\ Top.pc = "sourceList" =>
         SignaledHere \subseteq Top.collected \/ (Top.collected = {} /\ Top.sourceHandled)
    /\ Top.pc = "poll" \/ (Top.pc \in BlockPCs /\ Top.afterBlocks = "poll") =>
         SignaledHere = {} \/ Top.sourceHandled
    /\ Top.pc \in SleepPCs => SignaledHere = {} \/ Top.poll

WakeUpInv ==
  /\ TypeOK /\ WakeUpsAccepted /\ CalledAfterSleep /\ NestingIsNoted
  /\ NoStopMissed /\ NoTimeoutMissed /\ NoBlockMissed /\ NoSourceMissed

\* "we don't want to lose a wakeup" (CFRunLoopWakeUp): no loop sleeps on work
\* it was woken up for, nested activations or not.
NoWakeUpIsLost == ~SleepsInVain

\* The blocks that the loop, or an activation that has taken its list, holds.
PendingBlocks ==
  {queue[i] : i \in DOMAIN queue}
    \cup UNION {{frame[d].detached[i] : i \in DOMAIN frame[d].detached} : d \in 1..MaxDepth}
DoneBlocks == {performed[i].block : i \in DOMAIN performed}

Work == INSTANCE BlockWork WITH pending <- PendingBlocks, done <- DoneBlocks

\* However activations take the list, perform some of it and put the rest back
\* (__CFRunLoopDoBlocks) while others run and blocks are enqueued, no block is
\* lost and none is performed twice.
BlocksAreNeitherLostNorRepeated == Work!Spec

\* Blocks run in the order in which they were enqueued: one that the mode would
\* have run earlier is only left behind while an activation below this one has
\* it in the list it took (__CFRunLoopDoBlocks).
BlocksRunInOrder ==
  [][\A i, k \in DOMAIN enqueued :
       (/\ i < k /\ PerformNext /\ enqueued[k] = performed'[Len(performed')].block
        /\ RunsIn(enqueued[i], Top.mode) /\ enqueued[i] \notin DoneBlocks)
         => \E d \in 1..(depth - 1) :
              \E j \in DOMAIN frame[d].detached : frame[d].detached[j] = enqueued[i]]_vars

\* Why both hold.  The lists that hold blocks -- the one each activation has
\* taken, from the outermost inwards, and then the loop's -- hold them in the
\* order in which they were enqueued: an activation takes the loop's list when
\* those nested in it hold none, and puts what is left back before what came
\* meanwhile.
Lists == 1..(MaxDepth + 1)
Held == [d \in Lists |-> IF d = MaxDepth + 1 THEN queue ELSE frame[d].detached]
Before(b, c) == \E i, k \in DOMAIN enqueued : i < k /\ enqueued[i] = b /\ enqueued[k] = c
HeldInOrder ==
  \A d, e \in Lists : \A i \in DOMAIN Held[d], k \in DOMAIN Held[e] :
    d < e \/ (d = e /\ i < k) => Before(Held[d][i], Held[e][k])
TakenWithinDoBlocks ==
  \A d \in 1..MaxDepth :
    frame[d].detached # <<>> => d <= depth /\ frame[d].pc \in {"blockList", "block"}
EnqueuedOnce == \A i, k \in DOMAIN enqueued : enqueued[i] = enqueued[k] => i = k
HeldOrDone ==
  /\ PendingBlocks \cap DoneBlocks = {}
  /\ PendingBlocks \cup DoneBlocks = {enqueued[i] : i \in DOMAIN enqueued}

BlocksInv == TypeOK /\ HeldInOrder /\ TakenWithinDoBlocks /\ EnqueuedOnce /\ HeldOrDone

\* The main dispatch queue is serial: no activation services it while another
\* one below it on the stack does (__CFTSDKeyIsInGCDMainQ).
MainQueueNotReentered ==
  /\ \A d, e \in 1..depth :
       (frame[d].pc = "mainQueue" /\ frame[e].pc = "mainQueue") => d = e
  /\ inMainQueue <=> \E d \in 1..depth : frame[d].pc = "mainQueue"

\* "this mode could be run re-entrantly and we don't want these ports to get
\* serviced": the main queue's port is in a port set only while an activation
\* that serves it sleeps in that mode.
DispatchPortOnlyWhileAsleep ==
  \A m \in dispatchIn : (At("asleep") \/ At("woken")) /\ Top.mode = m /\ Top.hasDispatchPort

\* The main queue is serviced by one activation at a time, and its port is
\* listened to by the one that sleeps (2666, 2829).
MainQueueIsGuarded == MainQueueNotReentered /\ DispatchPortOnlyWhileAsleep

\* Why it holds.  Only an activation that was given the port serves the main
\* queue, and one given the port was not begun while the queue was serviced.
ServingNeedsThePort ==
  \A d \in 1..depth :
    frame[d].pc = "mainQueue" \/ frame[d].livePort = "dispatch" => frame[d].hasDispatchPort
NothingBelowIsServing ==
  \A d, e \in 1..depth : e < d /\ frame[d].hasDispatchPort => frame[e].pc # "mainQueue"

GuardInv ==
  /\ TypeOK /\ ServingNeedsThePort /\ NothingBelowIsServing
  /\ MainQueueNotReentered /\ DispatchPortOnlyWhileAsleep

\* A run that is to return after a source was handled says so when one was
\* (CFRunLoopRunInMode, returnAfterSourceHandled).
HandledSourceIsReported ==
  At("exitObs") /\ Top.stopAfterHandle /\ Top.served => Top.retVal = "HandledSource"

\* Why it holds.  No source is performed before version 0 sources are, and
\* from the first one performed on sourceHandled is set until the activation
\* returns: the list of version 0 sources is left at once, and neither the
\* blocks nor the sleep touch it.
NothingServedYet(f) ==
  \/ f.pc \in {"entryObs", "begin", "timersObs", "sourcesObs", "collect", "source0"}
  \/ f.pc \in BlockPCs /\ f.afterBlocks = "collect"
Reports(f) ==
  f.stopAfterHandle /\ f.served =>
    /\ ~NothingServedYet(f)
    /\ f.pc = "sourceList" => f.collected = {}
    /\ f.pc \in {"exitObs", "pop"} => f.retVal = "HandledSource"
    /\ f.pc \notin {"exitObs", "pop"} => f.sourceHandled

ReportInv == TypeOK /\ CalledAfterSleep /\ \A d \in 1..depth : Reports(frame[d])

\* CFRunLoopStop ends the activation it found running, wherever that was in
\* its iteration.
StopReturns == (depth = 1 /\ Top.stopped) ~> depth = 0

\* A block meant for the mode that is running is performed, or that run ends.
BlocksArePerformed ==
  \A b \in Blocks :
    (depth = 1 /\ \E i \in DOMAIN queue : queue[i] = b /\ RunsIn(b, Top.mode))
      ~> (depth = 0 \/ \A i \in DOMAIN queue : queue[i] # b)

\* A signaled source of the mode that is running is performed or invalidated,
\* or that run ends.
SourcesArePerformed ==
  \A s \in Sources0 :
    (depth = 1 /\ s \in signaled \cap members[Top.mode]) ~> (depth = 0 \/ s \notin signaled)

\* What a loop is given to do it does (2008, 1783).
WorkIsPerformed == BlocksArePerformed /\ SourcesArePerformed

\* The main queue is served however many messages the other ports get: its
\* port is tried first every other iteration (didDispatchPortLastTime).
MainQueueIsServed ==
  (depth = 1 /\ Top.hasDispatchPort /\ mainQueue) ~> (depth = 0 \/ ~mainQueue)
============================================================================
