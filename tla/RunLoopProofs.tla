--------------------------- MODULE RunLoopProofs ---------------------------
(* Theorems about RunLoop, for any modes, blocks, sources, threads and any *)
(* depth of nesting.                                                       *)
EXTENDS RunLoop, SequenceTheorems, TLAPS

USE DEF loop, sources, mainQ, blocks

\* The part of TypeOK that says where activations are.
LEMMA TopIsAFrame ==
  ASSUME TypeOK, depth > 0
  PROVE  Top \in Frame
  BY RunsAssumption DEF TypeOK, Top

LEMMA SetTopKeepsFrames ==
  ASSUME TypeOK, depth > 0, NEW f \in Frame, SetTop(f)
  PROVE  frame' \in [1..MaxDepth -> Frame] /\ depth' \in 0..MaxDepth
  BY RunsAssumption DEF TypeOK, SetTop

LEMMA NewFrameIsAFrame ==
  ASSUME NEW m \in Modes, NEW kind \in RunKind
  PROVE  NewFrame(m, kind) \in Frame
  <1>1. <<>> \in Seq(Blocks)
    OBVIOUS
  <1> QED
    BY <1>1 DEF NewFrame, Frame, RunKind, ObserverPCs, ActivityAt, Results

LEMMA UnusedIsAFrame == Unused \in Frame
  <1>1. (CHOOSE m \in Modes : TRUE) \in Modes
    BY ModesAssumption
  <1>2. [soft |-> FALSE, seconds |-> "never"] \in RunKind
    BY DEF RunKind
  <1> QED
    BY <1>1, <1>2, NewFrameIsAFrame DEF Unused

LEMMA InitType == Init => TypeOK
  <1> SUFFICES ASSUME Init PROVE TypeOK
    OBVIOUS
  <1>4. <<>> \in Seq(Blocks) /\ <<>> \in Seq([block : Blocks, mode : Modes])
    OBVIOUS
  <1>5. depth \in 0..MaxDepth /\ frame \in [1..MaxDepth -> Frame]
    BY UnusedIsAFrame, RunsAssumption DEF Init
  <1>6. doing \in [Threads -> {"idle", "wake"} \cup Sources]
    BY DEF Init
  <1> QED
    BY <1>4, <1>5, <1>6, SourcesAssumption DEF Init, TypeOK, Sources

LEMMA ObserverPhases ==
  ASSUME NEW pc \in ObserverPCs
  PROVE  AfterObservers[pc] \in {"begin", "sourcesObs", "doBlocks", "sleep", "handle", "pop"}
  BY DEF ObserverPCs, ActivityAt, AfterObservers

LEMMA ObserversReturnType == TypeOK /\ ObserversReturn => TypeOK'
  <1> SUFFICES ASSUME TypeOK, ObserversReturn PROVE TypeOK'
    OBVIOUS
  <1> DEFINE f == [Top EXCEPT !.pc = AfterObservers[Top.pc],
                        !.afterBlocks = IF Top.pc = "sourcesObs" THEN "collect" ELSE @]
  <1>1. f \in Frame
    <2>1. AfterObservers[Top.pc] \in ObserverPCs \cup FreePCs \cup HeldPCs
      BY ObserverPhases DEF ObserversReturn, ObserverPCs, ActivityAt, HeldPCs
    <2> QED
      BY <2>1, TopIsAFrame DEF Frame, ObserversReturn
  <1>2. SetTop(f) /\ depth > 0
    BY DEF ObserversReturn
  <1> QED
    BY <1>1, <1>2, SetTopKeepsFrames DEF ObserversReturn, TypeOK

LEMMA PerformNextType == TypeOK /\ PerformNext => TypeOK'
  <1> SUFFICES ASSUME TypeOK, PerformNext PROVE TypeOK'
    OBVIOUS
  <1>0. depth > 0 /\ Top \in Frame
    BY TopIsAFrame DEF PerformNext, At
  <1>1. PICK i \in DOMAIN Top.detached :
          /\ SetTop([Top EXCEPT !.pc = "block",
                    !.detached = SubSeq(@, 1, i - 1) \o SubSeq(@, i + 1, Len(@))])
          /\ performed' = Append(performed, [block |-> Top.detached[i], mode |-> Top.mode])
    BY DEF PerformNext
  <1>2. Top.detached \in Seq(Blocks) /\ Top.mode \in Modes
    BY <1>0 DEF Frame
  <1>3. SubSeq(Top.detached, 1, i - 1) \o SubSeq(Top.detached, i + 1, Len(Top.detached)) \in Seq(Blocks)
    BY <1>2
  <1>4. performed' \in Seq([block : Blocks, mode : Modes])
    BY <1>1, <1>2 DEF TypeOK
  <1>5. [Top EXCEPT !.pc = "block",
                    !.detached = SubSeq(@, 1, i - 1) \o SubSeq(@, i + 1, Len(@))] \in Frame
    BY <1>0, <1>3 DEF Frame, FreePCs, CalloutPCs
  <1> QED
    BY <1>0, <1>1, <1>4, <1>5, SetTopKeepsFrames DEF PerformNext, TypeOK

LEMMA BlockReturnsType == TypeOK /\ BlockReturns => TypeOK'
  <1> SUFFICES ASSUME TypeOK, BlockReturns PROVE TypeOK'
    OBVIOUS
  <1>1. depth > 0 /\ Top \in Frame
    BY TopIsAFrame DEF BlockReturns, At
  <1>2. [Top EXCEPT !.pc = "blockList"] \in Frame
    BY <1>1 DEF Frame, ObserverPCs, ActivityAt, FreePCs, CalloutPCs, HeldPCs
  <1> QED
    BY <1>1, <1>2, SetTopKeepsFrames DEF BlockReturns, TypeOK

LEMMA DetachBlocksType == TypeOK /\ DetachBlocks => TypeOK'
  <1> SUFFICES ASSUME TypeOK, DetachBlocks PROVE TypeOK'
    OBVIOUS
  <1>1. depth > 0 /\ Top \in Frame
    BY TopIsAFrame DEF DetachBlocks, At
  <1>2. [Top EXCEPT !.pc = Top.afterBlocks] \in Frame
    BY <1>1 DEF Frame, HeldPCs
  <1>3. [Top EXCEPT !.detached = queue, !.pc = "blockList"] \in Frame
    BY <1>1 DEF Frame, TypeOK, FreePCs
  <1>4. queue' \in Seq(Blocks)
    BY DEF DetachBlocks
  <1> QED
    BY <1>1, <1>2, <1>3, <1>4, SetTopKeepsFrames DEF DetachBlocks, TypeOK

LEMMA ReattachBlocksType == TypeOK /\ ReattachBlocks => TypeOK'
  <1> SUFFICES ASSUME TypeOK, ReattachBlocks PROVE TypeOK'
    OBVIOUS
  <1>1. depth > 0 /\ Top \in Frame
    BY TopIsAFrame DEF ReattachBlocks, At
  <1>2. [Top EXCEPT !.detached = <<>>, !.pc = Top.afterBlocks] \in Frame
    <2>1. <<>> \in Seq(Blocks)
      OBVIOUS
    <2> QED
      BY <1>1, <2>1 DEF Frame, HeldPCs
  <1>3. queue' \in Seq(Blocks)
    BY <1>1 DEF ReattachBlocks, Reattached, TypeOK, Frame
  <1> QED
    BY <1>1, <1>2, <1>3, SetTopKeepsFrames DEF ReattachBlocks, TypeOK

LEMMA CollectSources0Type == TypeOK /\ CollectSources0 => TypeOK'
  <1> SUFFICES ASSUME TypeOK, CollectSources0 PROVE TypeOK'
    OBVIOUS
  <1>1. depth > 0 /\ Top \in Frame
    BY TopIsAFrame DEF CollectSources0, At
  <1> DEFINE found == members[Top.mode] \cap Sources0 \cap valid \cap signaled
  <1>2. [Top EXCEPT !.sourceHandled = FALSE, !.collected = found,
                    !.pc = IF found = {} THEN "poll" ELSE "sourceList"] \in Frame
    BY <1>1, ZenonT(30) DEF Frame, FreePCs, HeldPCs
  <1> QED
    BY <1>1, <1>2, SetTopKeepsFrames DEF CollectSources0, TypeOK

LEMMA DoSource0Type == TypeOK /\ DoSource0 => TypeOK'
  <1> SUFFICES ASSUME TypeOK, DoSource0 PROVE TypeOK'
    OBVIOUS
  <1>1. depth > 0 /\ Top \in Frame
    BY TopIsAFrame DEF DoSource0, At
  <1>2. ASSUME NEW s
        PROVE  /\ [Top EXCEPT !.collected = @ \ {s}, !.pc = "source0"] \in Frame
               /\ [Top EXCEPT !.collected = @ \ {s}, !.sourceHandled = FALSE] \in Frame
    BY <1>1 DEF Frame, FreePCs, CalloutPCs
  <1> QED
    BY <1>1, <1>2, SetTopKeepsFrames DEF DoSource0, TypeOK

LEMMA Source0ReturnsType == TypeOK /\ Source0Returns => TypeOK'
  <1> SUFFICES ASSUME TypeOK, Source0Returns PROVE TypeOK'
    OBVIOUS
  <1>1. depth > 0 /\ Top \in Frame
    BY TopIsAFrame DEF Source0Returns, At
  <1>2. [Top EXCEPT !.pc = "sourceList", !.sourceHandled = TRUE, !.served = TRUE,
                        !.collected = StillToPerform] \in Frame
    BY <1>1, ZenonT(30) DEF Frame, ObserverPCs, ActivityAt, FreePCs, CalloutPCs, HeldPCs, StillToPerform
  <1> QED
    BY <1>1, <1>2, SetTopKeepsFrames DEF Source0Returns, TypeOK

LEMMA Sources0DoneType == TypeOK /\ Sources0Done => TypeOK'
  <1> SUFFICES ASSUME TypeOK, Sources0Done PROVE TypeOK'
    OBVIOUS
  <1>1. depth > 0 /\ Top \in Frame
    BY TopIsAFrame DEF Sources0Done, At
  <1>2. [Top EXCEPT !.afterBlocks = "poll",
                        !.pc = IF Top.sourceHandled THEN "doBlocks" ELSE "poll"] \in Frame
    BY <1>1, ZenonT(30) DEF Frame, ObserverPCs, ActivityAt, FreePCs, CalloutPCs, HeldPCs
  <1> QED
    BY <1>1, <1>2, SetTopKeepsFrames DEF Sources0Done, TypeOK

LEMMA PollType == TypeOK /\ Poll => TypeOK'
  <1> SUFFICES ASSUME TypeOK, Poll PROVE TypeOK'
    OBVIOUS
  <1>1. depth > 0 /\ Top \in Frame
    BY TopIsAFrame DEF Poll, At
  <1>2. MustPoll \in BOOLEAN
    BY <1>1 DEF MustPoll, Frame
  <1>3. [Top EXCEPT !.poll = MustPoll, !.livePort = "dispatch", !.pc = "handle"] \in Frame
    BY <1>1, <1>2 DEF Frame, HeldPCs
  <1>4. [Top EXCEPT !.poll = MustPoll, !.livePort = "null",
                    !.didDispatchPortLastTime = FALSE,
                    !.pc = IF MustPoll THEN "sleep" ELSE "waitObs"] \in Frame
    BY <1>1, <1>2, ZenonT(30) DEF Frame, HeldPCs, ObserverPCs, ActivityAt
  <1> QED
    BY <1>1, <1>3, <1>4, SetTopKeepsFrames DEF Poll, TypeOK

LEMMA SleepType == TypeOK /\ Sleep => TypeOK'
  <1> SUFFICES ASSUME TypeOK, Sleep PROVE TypeOK'
    OBVIOUS
  <1>1. depth > 0 /\ Top \in Frame
    BY TopIsAFrame DEF Sleep, At
  <1>2. [Top EXCEPT !.pc = "asleep"] \in Frame
    BY <1>1 DEF Frame, ObserverPCs, ActivityAt, FreePCs, CalloutPCs, HeldPCs
  <1> QED
    BY <1>1, <1>2, SetTopKeepsFrames DEF Sleep, TypeOK, Frame

LEMMA ReceiveType == TypeOK /\ Receive => TypeOK'
  <1> SUFFICES ASSUME TypeOK, Receive PROVE TypeOK'
    OBVIOUS
  <1>1. depth > 0 /\ Top \in Frame
    BY TopIsAFrame DEF Receive, At
  <1>2. PICK p \in Ready \cup {n \in {"null"} : Top.poll /\ Ready = {}} :
          /\ SetTop([Top EXCEPT !.livePort = p, !.pc = "woken"])
          /\ wakePort' = (wakePort /\ p # "wake")
          /\ mainQueue' = (mainQueue /\ p # "dispatch")
          /\ arrived' = arrived \ {p}
    BY DEF Receive
  <1>3. p \in {"null", "wake", "dispatch"} \cup Sources1
    BY DEF Ready, TypeOK
  <1>4. [Top EXCEPT !.livePort = p, !.pc = "woken"] \in Frame
    BY <1>1, <1>3 DEF Frame, FreePCs
  <1>5. wakePort' \in BOOLEAN /\ mainQueue' \in BOOLEAN
    BY <1>2
  <1> QED
    BY <1>1, <1>2, <1>4, <1>5, SetTopKeepsFrames DEF Receive, TypeOK

LEMMA WokenUpType == TypeOK /\ WokenUp => TypeOK'
  <1> SUFFICES ASSUME TypeOK, WokenUp PROVE TypeOK'
    OBVIOUS
  <1>1. depth > 0 /\ Top \in Frame
    BY TopIsAFrame DEF WokenUp, At
  <1>2. [Top EXCEPT !.ignoreWakeUps = TRUE,
                        !.pc = IF Top.poll THEN "handle" ELSE "afterObs"] \in Frame
    BY <1>1, ZenonT(30) DEF Frame, ObserverPCs, ActivityAt, FreePCs, CalloutPCs, HeldPCs
  <1> QED
    BY <1>1, <1>2, SetTopKeepsFrames DEF WokenUp, TypeOK, SetsAfterSleep

LEMMA HandleMessageType == TypeOK /\ HandleMessage => TypeOK'
  <1> SUFFICES ASSUME TypeOK, HandleMessage PROVE TypeOK'
    OBVIOUS
  <1>1. depth > 0 /\ Top \in Frame
    BY TopIsAFrame DEF HandleMessage, At
  <1>2. Callee \in {"mainQueue", "source1", "doBlocks"}
    BY DEF Callee
  <1>3. [Top EXCEPT !.ignoreWakeUps = TRUE, !.afterBlocks = "decide", !.pc = Callee] \in Frame
    BY <1>1, <1>2 DEF Frame, HeldPCs, FreePCs, CalloutPCs
  <1>4. inMainQueue' \in BOOLEAN
    BY DEF HandleMessage
  <1> QED
    BY <1>1, <1>3, <1>4, SetTopKeepsFrames DEF HandleMessage, TypeOK

LEMMA MainQueueReturnsType == TypeOK /\ MainQueueReturns => TypeOK'
  <1> SUFFICES ASSUME TypeOK, MainQueueReturns PROVE TypeOK'
    OBVIOUS
  <1>1. depth > 0 /\ Top \in Frame
    BY TopIsAFrame DEF MainQueueReturns, At
  <1>2. [Top EXCEPT !.sourceHandled = TRUE, !.served = TRUE,
                        !.didDispatchPortLastTime = TRUE, !.pc = "doBlocks"] \in Frame
    BY <1>1, ZenonT(30) DEF Frame, ObserverPCs, ActivityAt, FreePCs, CalloutPCs, HeldPCs
  <1> QED
    BY <1>1, <1>2, SetTopKeepsFrames DEF MainQueueReturns, TypeOK

LEMMA Source1ReturnsType == TypeOK /\ Source1Returns => TypeOK'
  <1> SUFFICES ASSUME TypeOK, Source1Returns PROVE TypeOK'
    OBVIOUS
  <1>1. depth > 0 /\ Top \in Frame
    BY TopIsAFrame DEF Source1Returns, At
  <1>2. [Top EXCEPT !.sourceHandled = TRUE, !.served = TRUE, !.pc = "doBlocks"] \in Frame
    BY <1>1, ZenonT(30) DEF Frame, ObserverPCs, ActivityAt, FreePCs, CalloutPCs, HeldPCs
  <1> QED
    BY <1>1, <1>2, SetTopKeepsFrames DEF Source1Returns, TypeOK

LEMMA ReturningIsAFrame ==
  ASSUME TypeOK, depth > 0, NEW r \in Results
  PROVE  /\ Returning(r) \in Frame
         /\ [Returning(r) EXCEPT !.stopped = FALSE] \in Frame
         /\ NextIteration \in Frame
  <1>1. EndOfBody \in Frame
    BY TopIsAFrame DEF EndOfBody, Frame
  <1>2. Returning(r) \in Frame /\ NextIteration \in Frame
    BY <1>1, ZenonT(30) DEF Returning, NextIteration, Frame, ObserverPCs, ActivityAt
  <1>3. [Returning(r) EXCEPT !.stopped = FALSE] \in Frame
    BY <1>2 DEF Frame
  <1> QED
    BY <1>2, <1>3

LEMMA BeginType == TypeOK /\ Begin => TypeOK'
  <1> SUFFICES ASSUME TypeOK, Begin PROVE TypeOK'
    OBVIOUS
  <1>1. depth > 0
    BY DEF Begin, At
  <1>2. MainQueueIsSafe(Top.mode) \in BOOLEAN
    BY DEF MainQueueIsSafe
  <1>3. [NextIteration EXCEPT !.hasDispatchPort = MainQueueIsSafe(Top.mode)] \in Frame
    <2>1. NextIteration \in Frame
      BY <1>1, ReturningIsAFrame DEF Results
    <2> QED
      BY <1>2, <2>1 DEF Frame
  <1>4. PICK f \in Frame : SetTop(f)
    BY <1>1, <1>3, ReturningIsAFrame DEF Begin, Results
  <1>5. modeStopped' \subseteq Modes
    BY DEF Begin, TypeOK
  <1> QED
    BY <1>1, <1>4, <1>5, SetTopKeepsFrames DEF Begin, TypeOK

LEMMA DecideType == TypeOK /\ Decide => TypeOK'
  <1> SUFFICES ASSUME TypeOK, Decide PROVE TypeOK'
    OBVIOUS
  <1>1. depth > 0
    BY DEF Decide, At
  <1>2. PICK f \in Frame : SetTop(f)
    BY <1>1, ReturningIsAFrame DEF Decide, Results
  <1>3. modeStopped' \subseteq Modes
    BY DEF Decide, TypeOK
  <1> QED
    BY <1>1, <1>2, <1>3, SetTopKeepsFrames DEF Decide, TypeOK

LEMMA PopType == TypeOK /\ Pop => TypeOK'
  BY UnusedIsAFrame, RunsAssumption DEF Pop, At, TypeOK

LEMMA RunSpecificType ==
  ASSUME TypeOK, NEW m \in Modes, NEW kind \in RunKinds, RunSpecific(m, kind)
  PROVE  TypeOK'
  <1>1. NewFrame(m, kind) \in Frame
    BY NewFrameIsAFrame, RunsAssumption
  <1>2. depth > 0 => [Top EXCEPT !.nested = TRUE] \in Frame
    BY TopIsAFrame DEF Frame
  <1>3. depth' \in 0..MaxDepth
    BY RunsAssumption DEF RunSpecific, TypeOK
  <1>4. frame' \in [1..MaxDepth -> Frame]
    BY <1>1, <1>2, RunsAssumption DEF RunSpecific, TypeOK
  <1> QED
    BY <1>3, <1>4 DEF RunSpecific, TypeOK

LEMMA GiveType == ASSUME TypeOK, NEW t \in Threads, Give(t) PROVE TypeOK'
  <1>1. ASSUME NEW b \in Blocks, PerformBlock(t, b) PROVE TypeOK'
    <2>1. queue' \in Seq(Blocks) /\ enqueued' \in Seq(Blocks)
      BY <1>1 DEF PerformBlock, TypeOK
    <2> QED
      BY <1>1, <2>1 DEF PerformBlock, WillWakeUp, TypeOK
  <1>2. CASE Stop(t)
    <2>1. depth > 0 /\ [Top EXCEPT !.stopped = TRUE] \in Frame
      BY <1>2, TopIsAFrame DEF Stop, Frame
    <2> QED
      BY <1>2, <2>1, SetTopKeepsFrames DEF Stop, WillWakeUp, TypeOK
  <1>3. ASSUME NEW m \in Modes, StopMode(t, m) PROVE TypeOK'
    BY <1>3 DEF StopMode, WillWakeUp, TypeOK
  <1>4. ASSUME NEW s \in Sources0, SignalSource(t, s) PROVE TypeOK'
    BY <1>4 DEF SignalSource, WillWakeUp, TypeOK
  <1>5. ASSUME NEW s \in Sources, InvalidateSource(t, s) PROVE TypeOK'
    BY <1>5 DEF InvalidateSource, TypeOK
  <1>6. ASSUME NEW d \in 1..MaxDepth, TimeoutFires(t, d) PROVE TypeOK'
    <2>0. frame[d] \in Frame
      BY <1>6 DEF TypeOK
    <2>1. [frame[d] EXCEPT !.termTSR = "fired"] \in Frame
      BY <2>0 DEF Frame
    <2> QED
      BY <1>6, <2>1 DEF TimeoutFires, WillWakeUp, TypeOK
  <1> QED
    BY <1>1, <1>2, <1>3, <1>4, <1>5, <1>6 DEF Give

LEMMA OutsideType == TypeOK /\ Outside => TypeOK'
  <1> SUFFICES ASSUME TypeOK, Outside PROVE TypeOK'
    OBVIOUS
  <1>1. ASSUME NEW d \in 1..MaxDepth, DeadlinePasses(d) PROVE TypeOK'
    <2>0. frame[d] \in Frame
      BY <1>1 DEF TypeOK
    <2>1. [frame[d] EXCEPT !.termTSR = "past"] \in Frame
      BY <2>0 DEF Frame
    <2> QED
      BY <1>1, <2>1 DEF DeadlinePasses, TypeOK
  <1>2. ASSUME NEW s \in Sources1, MessageArrives(s) PROVE TypeOK'
    BY <1>2 DEF MessageArrives, TypeOK
  <1>3. CASE MainQueueEnqueue
    BY <1>3 DEF MainQueueEnqueue, TypeOK
  <1> QED
    BY <1>1, <1>2, <1>3 DEF Outside

LEMMA TypeStep == TypeOK /\ [Next]_vars => TypeOK'
  <1> SUFFICES ASSUME TypeOK, [Next]_vars PROVE TypeOK'
    OBVIOUS
  <1>1. CASE Step
    BY <1>1, ObserversReturnType, BeginType, DetachBlocksType, PerformNextType,
       BlockReturnsType, ReattachBlocksType, CollectSources0Type, DoSource0Type,
       Source0ReturnsType, Sources0DoneType, PollType, SleepType, ReceiveType,
       WokenUpType, HandleMessageType, MainQueueReturnsType, Source1ReturnsType,
       DecideType, PopType DEF Step
  <1>2. CASE Run
    BY <1>2, RunSpecificType DEF Run
  <1>3. ASSUME NEW t \in Threads, Give(t) PROVE TypeOK'
    BY <1>3, GiveType
  <1>4. ASSUME NEW t \in Threads, RemoveFromRunLoop(t) PROVE TypeOK'
    BY <1>4 DEF RemoveFromRunLoop, TypeOK
  <1>5. ASSUME NEW t \in Threads, WakeUp(t) PROVE TypeOK'
    BY <1>5 DEF WakeUp, TypeOK
  <1>6. CASE Outside
    BY <1>6, OutsideType
  <1>7. CASE UNCHANGED vars
    BY <1>7 DEF vars, TypeOK, Top
  <1> QED
    BY <1>1, <1>2, <1>3, <1>4, <1>5, <1>6, <1>7 DEF Next

\* What all steps of the innermost activation have in common.
LEMMA SetTopEffect ==
  ASSUME TypeOK, depth > 0, NEW f, SetTop(f)
  PROVE  /\ Top' = f /\ SetTop(Top') /\ depth' = depth /\ depth \in 1..MaxDepth
         /\ frame'[depth] = f
         /\ \A d \in 1..depth : d # depth => frame'[d] = frame[d]
  <1>1. depth \in 1..MaxDepth /\ depth' = depth /\ frame' = [frame EXCEPT ![depth] = f]
    BY RunsAssumption DEF TypeOK, SetTop
  <1>2. frame \in [1..MaxDepth -> Frame]
    BY DEF TypeOK
  <1>3. /\ frame'[depth] = f
        /\ \A d \in 1..MaxDepth : d # depth => frame'[d] = frame[d]
    BY <1>1, <1>2
  <1>4. 1..depth \subseteq 1..MaxDepth
    BY <1>1, RunsAssumption
  <1>5. Top' = f
    BY <1>1, <1>3 DEF Top
  <1>6. SetTop(Top')
    BY <1>5, Zenon DEF SetTop
  <1> QED
    BY <1>1, <1>3, <1>4, <1>5, <1>6

\* The phases of an iteration that call observers, in order.
LEMMA ObserverOrder ==
  ASSUME NEW pc \in ObserverPCs
  PROVE  \/ pc = "entryObs" /\ AfterObservers[pc] = "begin"
         \/ pc = "timersObs" /\ AfterObservers[pc] = "sourcesObs"
         \/ pc = "sourcesObs" /\ AfterObservers[pc] = "doBlocks"
         \/ pc = "waitObs" /\ AfterObservers[pc] = "sleep"
         \/ pc = "afterObs" /\ AfterObservers[pc] = "handle"
         \/ pc = "exitObs" /\ AfterObservers[pc] = "pop"
  BY DEF ObserverPCs, ActivityAt, AfterObservers

\* Every reachable state has the types that TypeOK gives the variables: the
\* locals of every activation, and in particular the places it returns to.
THEOREM TypeCorrect == Spec => []TypeOK
  BY InitType, TypeStep, PTL DEF Spec

----------------------------------------------------------------------------
(* What activations call and report: the main queue is serviced by one at  *)
(* a time (GuardInv), and one that is to return after a source was handled  *)
(* says so (ReportInv).                                                     *)

CallsInv == GuardInv /\ ReportInv

\* Of the innermost activation: it has the port if it serves the queue, and
\* nothing but its own sleep has the port in a set.
LEMMA TopCalls ==
  ASSUME CallsInv, depth > 0
  PROVE  /\ TypeOK /\ Top \in Frame /\ depth \in 1..depth /\ Reports(Top)
         /\ Top.pc = "mainQueue" \/ Top.livePort = "dispatch" => Top.hasDispatchPort
         /\ Top.pc \in {"mainQueue", "source1"} => Top.afterBlocks = "decide"
         /\ Top.pc \notin {"asleep", "woken"} => dispatchIn = {}
         /\ \A m \in dispatchIn : Top.mode = m /\ Top.hasDispatchPort
  <1>1. TypeOK /\ depth \in 1..depth /\ Top \in Frame
    BY RunsAssumption, TopIsAFrame DEF CallsInv, GuardInv, TypeOK
  <1>2. Top.pc = "mainQueue" \/ Top.livePort = "dispatch" => Top.hasDispatchPort
    BY <1>1 DEF CallsInv, GuardInv, ServingNeedsThePort, Top
  <1>3. Reports(Top) /\ (Top.pc \in {"mainQueue", "source1"} => Top.afterBlocks = "decide")
    BY <1>1 DEF CallsInv, ReportInv, CalledAfterSleep, Top
  <1>4. \A m \in dispatchIn : Top.pc \in {"asleep", "woken"} /\ Top.mode = m /\ Top.hasDispatchPort
    BY DEF CallsInv, GuardInv, DispatchPortOnlyWhileAsleep, At
  <1> QED
    BY <1>1, <1>2, <1>3, <1>4

LEMMA SetTopReports ==
  ASSUME CallsInv, TypeOK', depth > 0, NEW f, SetTop(f), Reports(f),
         f.pc \in {"mainQueue", "source1"} => f.afterBlocks = "decide"
  PROVE  ReportInv'
  <1>1. /\ depth' = depth /\ frame'[depth] = f
        /\ \A d \in 1..depth : d # depth => frame'[d] = frame[d]
    BY SetTopEffect DEF CallsInv, GuardInv
  <1>2. \A d \in 1..depth : Reports(frame'[d])
    BY <1>1 DEF CallsInv, ReportInv
  <1>3. CalledAfterSleep'
    BY <1>1 DEF CallsInv, ReportInv, CalledAfterSleep
  <1> QED
    BY <1>1, <1>2, <1>3 DEF ReportInv, Reports, NothingServedYet

\* A step of the innermost activation that does not begin or end servicing the
\* main queue, nor take its port.
LEMMA SetTopCalls ==
  ASSUME CallsInv, TypeOK', depth > 0, NEW f, SetTop(f), Reports(f),
         f.hasDispatchPort = Top.hasDispatchPort,
         Top.pc # "mainQueue", f.pc # "mainQueue",
         f.pc = "source1" => f.afterBlocks = "decide",
         f.livePort = "dispatch" => f.hasDispatchPort,
         inMainQueue' = inMainQueue,
         \A m \in dispatchIn' : f.pc \in {"asleep", "woken"} /\ f.mode = m /\ f.hasDispatchPort
  PROVE  CallsInv'
  <1>1. /\ Top' = f /\ depth' = depth /\ depth \in 1..MaxDepth
        /\ frame'[depth] = f
        /\ \A d \in 1..depth : d # depth => frame'[d] = frame[d]
    BY SetTopEffect DEF CallsInv, GuardInv
  <1>2. Top = frame[depth]
    BY DEF Top
  <1>3. ServingNeedsThePort'
    BY <1>1 DEF CallsInv, GuardInv, ServingNeedsThePort
  <1>4. NothingBelowIsServing'
    BY <1>1, <1>2 DEF CallsInv, GuardInv, NothingBelowIsServing
  <1>5. MainQueueNotReentered'
    BY <1>1, <1>2 DEF CallsInv, GuardInv, MainQueueNotReentered
  <1>6. DispatchPortOnlyWhileAsleep'
    BY <1>1 DEF DispatchPortOnlyWhileAsleep, At
  <1>7. ReportInv'
    BY SetTopReports
  <1> QED
    BY <1>3, <1>4, <1>5, <1>6, <1>7 DEF CallsInv, GuardInv

LEMMA InitCalls == Init => CallsInv
  <1> SUFFICES ASSUME Init PROVE CallsInv
    OBVIOUS
  <1>1. TypeOK /\ 1..depth = {} /\ dispatchIn = {} /\ inMainQueue = FALSE
    BY InitType DEF Init
  <1> QED
    BY <1>1 DEF CallsInv, GuardInv, ReportInv, CalledAfterSleep, ServingNeedsThePort,
       NothingBelowIsServing,
       MainQueueNotReentered, DispatchPortOnlyWhileAsleep

LEMMA ObserversReturnCalls == ASSUME CallsInv, TypeOK', ObserversReturn PROVE CallsInv'
  <1>1. /\ depth > 0 /\ Top \in Frame /\ TypeOK /\ Reports(Top)
        /\ Top.livePort = "dispatch" => Top.hasDispatchPort
        /\ Top.pc = "source1" => Top.afterBlocks = "decide"
        /\ Top.pc \notin {"asleep", "woken"} => dispatchIn = {}
        /\ \A m \in dispatchIn : Top.mode = m /\ Top.hasDispatchPort
    BY TopCalls DEF ObserversReturn, At
  <1> DEFINE f == [Top EXCEPT !.pc = AfterObservers[Top.pc],
                        !.afterBlocks = IF Top.pc = "sourcesObs" THEN "collect" ELSE @]
  <1>2. SetTop(f)
    BY DEF ObserversReturn
  <1>3. /\ Reports(f) /\ f.hasDispatchPort = Top.hasDispatchPort
        /\ Top.pc # "mainQueue" /\ f.pc \notin {"mainQueue", "source1"}
        /\ f.livePort = "dispatch" => f.hasDispatchPort
    BY <1>1, ObserverOrder DEF ObserversReturn, At, Reports, NothingServedYet, BlockPCs, Frame
  <1>4. /\ inMainQueue' = inMainQueue
        /\ \A m \in dispatchIn' : f.pc \in {"asleep", "woken"} /\ f.mode = m /\ f.hasDispatchPort
    BY <1>1 DEF ObserversReturn, At, Frame, ObserverPCs, ActivityAt
  <1> QED
    <2> HIDE DEF f
    <2> QED
      BY <1>1, <1>2, <1>3, <1>4, SetTopCalls

LEMMA BlockReturnsCalls == ASSUME CallsInv, TypeOK', BlockReturns PROVE CallsInv'
  <1>1. /\ depth > 0 /\ Top \in Frame /\ TypeOK /\ Reports(Top)
        /\ Top.livePort = "dispatch" => Top.hasDispatchPort
        /\ Top.pc = "source1" => Top.afterBlocks = "decide"
        /\ Top.pc \notin {"asleep", "woken"} => dispatchIn = {}
        /\ \A m \in dispatchIn : Top.mode = m /\ Top.hasDispatchPort
    BY TopCalls DEF BlockReturns, At
  <1> DEFINE f == [Top EXCEPT !.pc = "blockList"]
  <1>2. SetTop(f)
    BY DEF BlockReturns
  <1>3. /\ Reports(f) /\ f.hasDispatchPort = Top.hasDispatchPort
        /\ Top.pc # "mainQueue" /\ f.pc \notin {"mainQueue", "source1"}
        /\ f.livePort = "dispatch" => f.hasDispatchPort
    BY <1>1 DEF BlockReturns, At, Reports, NothingServedYet, BlockPCs, Frame
  <1>4. /\ inMainQueue' = inMainQueue
        /\ \A m \in dispatchIn' : f.pc \in {"asleep", "woken"} /\ f.mode = m /\ f.hasDispatchPort
    BY <1>1 DEF BlockReturns, At, Frame, ObserverPCs, ActivityAt
  <1> QED
    <2> HIDE DEF f
    <2> QED
      BY <1>1, <1>2, <1>3, <1>4, SetTopCalls

LEMMA ReattachBlocksCalls == ASSUME CallsInv, TypeOK', ReattachBlocks PROVE CallsInv'
  <1>1. /\ depth > 0 /\ Top \in Frame /\ TypeOK /\ Reports(Top)
        /\ Top.livePort = "dispatch" => Top.hasDispatchPort
        /\ Top.pc = "source1" => Top.afterBlocks = "decide"
        /\ Top.pc \notin {"asleep", "woken"} => dispatchIn = {}
        /\ \A m \in dispatchIn : Top.mode = m /\ Top.hasDispatchPort
    BY TopCalls DEF ReattachBlocks, At
  <1> DEFINE f == [Top EXCEPT !.detached = <<>>, !.pc = Top.afterBlocks]
  <1>2. SetTop(f)
    BY DEF ReattachBlocks
  <1>3. /\ Reports(f) /\ f.hasDispatchPort = Top.hasDispatchPort
        /\ Top.pc # "mainQueue" /\ f.pc \notin {"mainQueue", "source1"}
        /\ f.livePort = "dispatch" => f.hasDispatchPort
    BY <1>1 DEF ReattachBlocks, At, Reports, NothingServedYet, BlockPCs, Frame
  <1>4. /\ inMainQueue' = inMainQueue
        /\ \A m \in dispatchIn' : f.pc \in {"asleep", "woken"} /\ f.mode = m /\ f.hasDispatchPort
    BY <1>1 DEF ReattachBlocks, At, Frame, ObserverPCs, ActivityAt
  <1> QED
    <2> HIDE DEF f
    <2> QED
      BY <1>1, <1>2, <1>3, <1>4, SetTopCalls

LEMMA CollectSources0Calls == ASSUME CallsInv, TypeOK', CollectSources0 PROVE CallsInv'
  <1>1. /\ depth > 0 /\ Top \in Frame /\ TypeOK /\ Reports(Top)
        /\ Top.livePort = "dispatch" => Top.hasDispatchPort
        /\ Top.pc = "source1" => Top.afterBlocks = "decide"
        /\ Top.pc \notin {"asleep", "woken"} => dispatchIn = {}
        /\ \A m \in dispatchIn : Top.mode = m /\ Top.hasDispatchPort
    BY TopCalls DEF CollectSources0, At
  <1> DEFINE f == [Top EXCEPT !.sourceHandled = FALSE,
       !.collected = members[Top.mode] \cap Sources0 \cap valid \cap signaled,
       !.pc = IF members[Top.mode] \cap Sources0 \cap valid \cap signaled = {}
              THEN "poll" ELSE "sourceList"]
  <1>2. SetTop(f)
    BY DEF CollectSources0
  <1>3. /\ Reports(f) /\ f.hasDispatchPort = Top.hasDispatchPort
        /\ Top.pc # "mainQueue" /\ f.pc \notin {"mainQueue", "source1"}
        /\ f.livePort = "dispatch" => f.hasDispatchPort
    BY <1>1 DEF CollectSources0, At, Reports, NothingServedYet, BlockPCs, Frame
  <1>4. /\ inMainQueue' = inMainQueue
        /\ \A m \in dispatchIn' : f.pc \in {"asleep", "woken"} /\ f.mode = m /\ f.hasDispatchPort
    BY <1>1 DEF CollectSources0, At, Frame, ObserverPCs, ActivityAt
  <1> QED
    <2> HIDE DEF f
    <2> QED
      BY <1>1, <1>2, <1>3, <1>4, SetTopCalls

LEMMA Source0ReturnsCalls == ASSUME CallsInv, TypeOK', Source0Returns PROVE CallsInv'
  <1>1. /\ depth > 0 /\ Top \in Frame /\ TypeOK /\ Reports(Top)
        /\ Top.livePort = "dispatch" => Top.hasDispatchPort
        /\ Top.pc = "source1" => Top.afterBlocks = "decide"
        /\ Top.pc \notin {"asleep", "woken"} => dispatchIn = {}
        /\ \A m \in dispatchIn : Top.mode = m /\ Top.hasDispatchPort
    BY TopCalls DEF Source0Returns, At
  <1> DEFINE f == [Top EXCEPT !.pc = "sourceList", !.sourceHandled = TRUE, !.served = TRUE,
                        !.collected = StillToPerform]
  <1>2. SetTop(f)
    BY DEF Source0Returns
  <1>3. /\ Reports(f) /\ f.hasDispatchPort = Top.hasDispatchPort
        /\ Top.pc # "mainQueue" /\ f.pc \notin {"mainQueue", "source1"}
        /\ f.livePort = "dispatch" => f.hasDispatchPort
    BY <1>1 DEF Source0Returns, At, Reports, NothingServedYet, BlockPCs, Frame, StillToPerform
  <1>4. /\ inMainQueue' = inMainQueue
        /\ \A m \in dispatchIn' : f.pc \in {"asleep", "woken"} /\ f.mode = m /\ f.hasDispatchPort
    BY <1>1 DEF Source0Returns, At, Frame, StillToPerform, ObserverPCs, ActivityAt
  <1> QED
    <2> HIDE DEF f
    <2> QED
      BY <1>1, <1>2, <1>3, <1>4, SetTopCalls

LEMMA Sources0DoneCalls == ASSUME CallsInv, TypeOK', Sources0Done PROVE CallsInv'
  <1>1. /\ depth > 0 /\ Top \in Frame /\ TypeOK /\ Reports(Top)
        /\ Top.livePort = "dispatch" => Top.hasDispatchPort
        /\ Top.pc = "source1" => Top.afterBlocks = "decide"
        /\ Top.pc \notin {"asleep", "woken"} => dispatchIn = {}
        /\ \A m \in dispatchIn : Top.mode = m /\ Top.hasDispatchPort
    BY TopCalls DEF Sources0Done, At
  <1> DEFINE f == [Top EXCEPT !.afterBlocks = "poll",
                        !.pc = IF Top.sourceHandled THEN "doBlocks" ELSE "poll"]
  <1>2. SetTop(f)
    BY DEF Sources0Done
  <1>3. /\ Reports(f) /\ f.hasDispatchPort = Top.hasDispatchPort
        /\ Top.pc # "mainQueue" /\ f.pc \notin {"mainQueue", "source1"}
        /\ f.livePort = "dispatch" => f.hasDispatchPort
    BY <1>1 DEF Sources0Done, At, Reports, NothingServedYet, BlockPCs, Frame
  <1>4. /\ inMainQueue' = inMainQueue
        /\ \A m \in dispatchIn' : f.pc \in {"asleep", "woken"} /\ f.mode = m /\ f.hasDispatchPort
    BY <1>1 DEF Sources0Done, At, Frame, ObserverPCs, ActivityAt
  <1> QED
    <2> HIDE DEF f
    <2> QED
      BY <1>1, <1>2, <1>3, <1>4, SetTopCalls

LEMMA SleepCalls == ASSUME CallsInv, TypeOK', Sleep PROVE CallsInv'
  <1>1. /\ depth > 0 /\ Top \in Frame /\ TypeOK /\ Reports(Top)
        /\ Top.livePort = "dispatch" => Top.hasDispatchPort
        /\ Top.pc = "source1" => Top.afterBlocks = "decide"
        /\ Top.pc \notin {"asleep", "woken"} => dispatchIn = {}
        /\ \A m \in dispatchIn : Top.mode = m /\ Top.hasDispatchPort
    BY TopCalls DEF Sleep, At
  <1> DEFINE f == [Top EXCEPT !.pc = "asleep"]
  <1>2. SetTop(f)
    BY DEF Sleep
  <1>3. /\ Reports(f) /\ f.hasDispatchPort = Top.hasDispatchPort
        /\ Top.pc # "mainQueue" /\ f.pc \notin {"mainQueue", "source1"}
        /\ f.livePort = "dispatch" => f.hasDispatchPort
    BY <1>1 DEF Sleep, At, Reports, NothingServedYet, BlockPCs, Frame
  <1>4. /\ inMainQueue' = inMainQueue
        /\ \A m \in dispatchIn' : f.pc \in {"asleep", "woken"} /\ f.mode = m /\ f.hasDispatchPort
    BY <1>1 DEF Sleep, At, Frame, ObserverPCs, ActivityAt
  <1> QED
    <2> HIDE DEF f
    <2> QED
      BY <1>1, <1>2, <1>3, <1>4, SetTopCalls

LEMMA WokenUpCalls == ASSUME CallsInv, TypeOK', WokenUp PROVE CallsInv'
  <1>1. /\ depth > 0 /\ Top \in Frame /\ TypeOK /\ Reports(Top)
        /\ Top.livePort = "dispatch" => Top.hasDispatchPort
        /\ Top.pc = "source1" => Top.afterBlocks = "decide"
        /\ Top.pc \notin {"asleep", "woken"} => dispatchIn = {}
        /\ \A m \in dispatchIn : Top.mode = m /\ Top.hasDispatchPort
    BY TopCalls DEF WokenUp, At
  <1> DEFINE f == [Top EXCEPT !.ignoreWakeUps = TRUE,
                        !.pc = IF Top.poll THEN "handle" ELSE "afterObs"]
  <1>2. SetTop(f)
    BY DEF WokenUp
  <1>3. /\ Reports(f) /\ f.hasDispatchPort = Top.hasDispatchPort
        /\ Top.pc # "mainQueue" /\ f.pc \notin {"mainQueue", "source1"}
        /\ f.livePort = "dispatch" => f.hasDispatchPort
    BY <1>1 DEF WokenUp, At, Reports, NothingServedYet, BlockPCs, Frame, SetsAfterSleep
  <1>4. /\ inMainQueue' = inMainQueue
        /\ \A m \in dispatchIn' : f.pc \in {"asleep", "woken"} /\ f.mode = m /\ f.hasDispatchPort
    BY <1>1 DEF WokenUp, At, Frame, SetsAfterSleep, ObserverPCs, ActivityAt
  <1> QED
    <2> HIDE DEF f
    <2> QED
      BY <1>1, <1>2, <1>3, <1>4, SetTopCalls

LEMMA Source1ReturnsCalls == ASSUME CallsInv, TypeOK', Source1Returns PROVE CallsInv'
  <1>1. /\ depth > 0 /\ Top \in Frame /\ TypeOK /\ Reports(Top)
        /\ Top.livePort = "dispatch" => Top.hasDispatchPort
        /\ Top.pc = "source1" => Top.afterBlocks = "decide"
        /\ Top.pc \notin {"asleep", "woken"} => dispatchIn = {}
        /\ \A m \in dispatchIn : Top.mode = m /\ Top.hasDispatchPort
    BY TopCalls DEF Source1Returns, At
  <1> DEFINE f == [Top EXCEPT !.sourceHandled = TRUE, !.served = TRUE, !.pc = "doBlocks"]
  <1>2. SetTop(f)
    BY DEF Source1Returns
  <1>3. /\ Reports(f) /\ f.hasDispatchPort = Top.hasDispatchPort
        /\ Top.pc # "mainQueue" /\ f.pc \notin {"mainQueue", "source1"}
        /\ f.livePort = "dispatch" => f.hasDispatchPort
    BY <1>1 DEF Source1Returns, At, Reports, NothingServedYet, BlockPCs, Frame
  <1>4. /\ inMainQueue' = inMainQueue
        /\ \A m \in dispatchIn' : f.pc \in {"asleep", "woken"} /\ f.mode = m /\ f.hasDispatchPort
    BY <1>1 DEF Source1Returns, At, Frame, ObserverPCs, ActivityAt
  <1> QED
    <2> HIDE DEF f
    <2> QED
      BY <1>1, <1>2, <1>3, <1>4, SetTopCalls

LEMMA DetachBlocksCalls == ASSUME CallsInv, TypeOK', DetachBlocks PROVE CallsInv'
  <1>1. /\ depth > 0 /\ Top \in Frame /\ TypeOK /\ Reports(Top)
        /\ Top.livePort = "dispatch" => Top.hasDispatchPort
        /\ dispatchIn = {}
    BY TopCalls DEF DetachBlocks, At
  <1>2. inMainQueue' = inMainQueue /\ dispatchIn' = {}
    BY <1>1 DEF DetachBlocks
  <1>3. ASSUME queue = <<>> PROVE CallsInv'
    <2> DEFINE f == [Top EXCEPT !.pc = Top.afterBlocks]
    <2>1. SetTop(f)
      BY <1>3 DEF DetachBlocks
    <2>2. /\ Reports(f) /\ f.hasDispatchPort = Top.hasDispatchPort
          /\ Top.pc # "mainQueue" /\ f.pc \notin {"mainQueue", "source1"}
          /\ f.livePort = "dispatch" => f.hasDispatchPort
      BY <1>1, <1>3 DEF DetachBlocks, At, Reports, NothingServedYet, BlockPCs, Frame
    <2> QED
      <3> HIDE DEF f
      <3> QED
        BY <1>1, <1>2, <2>1, <2>2, SetTopCalls
  <1>4. ASSUME queue # <<>> PROVE CallsInv'
    <2> DEFINE f == [Top EXCEPT !.detached = queue, !.pc = "blockList"]
    <2>1. SetTop(f)
      BY <1>4 DEF DetachBlocks
    <2>2. /\ Reports(f) /\ f.hasDispatchPort = Top.hasDispatchPort
          /\ Top.pc # "mainQueue" /\ f.pc \notin {"mainQueue", "source1"}
          /\ f.livePort = "dispatch" => f.hasDispatchPort
      BY <1>1, <1>4 DEF DetachBlocks, At, Reports, NothingServedYet, BlockPCs, Frame
    <2> QED
      <3> HIDE DEF f
      <3> QED
        BY <1>1, <1>2, <2>1, <2>2, SetTopCalls
  <1> QED
    BY <1>3, <1>4 DEF DetachBlocks

LEMMA PollCalls == ASSUME CallsInv, TypeOK', Poll PROVE CallsInv'
  <1>1. /\ depth > 0 /\ Top \in Frame /\ TypeOK /\ Reports(Top)
        /\ Top.livePort = "dispatch" => Top.hasDispatchPort
        /\ dispatchIn = {}
    BY TopCalls DEF Poll, At
  <1>2. inMainQueue' = inMainQueue /\ dispatchIn' = {}
    BY <1>1 DEF Poll
  <1>3. ASSUME ServesMainQueueFirst PROVE CallsInv'
    <2> DEFINE f == [Top EXCEPT !.poll = MustPoll, !.livePort = "dispatch", !.pc = "handle"]
    <2>1. SetTop(f)
      BY <1>3 DEF Poll
    <2>2. /\ Reports(f) /\ f.hasDispatchPort = Top.hasDispatchPort
          /\ Top.pc # "mainQueue" /\ f.pc \notin {"mainQueue", "source1"}
          /\ f.livePort = "dispatch" => f.hasDispatchPort
      BY <1>1, <1>3 DEF Poll, At, Reports, NothingServedYet, BlockPCs, Frame, ServesMainQueueFirst
    <2> QED
      <3> HIDE DEF f
      <3> QED
        BY <1>1, <1>2, <2>1, <2>2, SetTopCalls
  <1>4. ASSUME ~ServesMainQueueFirst PROVE CallsInv'
    <2> DEFINE f == [Top EXCEPT !.poll = MustPoll, !.livePort = "null",
                       !.didDispatchPortLastTime = FALSE,
                       !.pc = IF MustPoll THEN "sleep" ELSE "waitObs"]
    <2>1. SetTop(f)
      BY <1>4 DEF Poll
    <2>2. /\ Reports(f) /\ f.hasDispatchPort = Top.hasDispatchPort
          /\ Top.pc # "mainQueue" /\ f.pc \notin {"mainQueue", "source1"}
          /\ f.livePort = "dispatch" => f.hasDispatchPort
      BY <1>1, <1>4 DEF Poll, At, Reports, NothingServedYet, BlockPCs, Frame, ServesMainQueueFirst
    <2> QED
      <3> HIDE DEF f
      <3> QED
        BY <1>1, <1>2, <2>1, <2>2, SetTopCalls
  <1> QED
    BY <1>3, <1>4 DEF Poll, ServesMainQueueFirst

LEMMA PerformNextCalls == ASSUME CallsInv, TypeOK', PerformNext PROVE CallsInv'
  <1>1. /\ depth > 0 /\ Top \in Frame /\ TypeOK /\ Reports(Top)
        /\ Top.livePort = "dispatch" => Top.hasDispatchPort
        /\ dispatchIn = {}
    BY TopCalls DEF PerformNext, At
  <1>2. inMainQueue' = inMainQueue /\ dispatchIn' = {}
    BY <1>1 DEF PerformNext
  <1>3. PICK i \in DOMAIN Top.detached :
          SetTop([Top EXCEPT !.pc = "block",
                    !.detached = SubSeq(@, 1, i - 1) \o SubSeq(@, i + 1, Len(@))])
    BY DEF PerformNext
  <1> DEFINE rest == SubSeq(Top.detached, 1, i - 1) \o SubSeq(Top.detached, i + 1, Len(Top.detached))
             f == [Top EXCEPT !.pc = "block", !.detached = rest]
  <1>4. SetTop(f)
    BY <1>3
  <1>5. /\ Reports(f) /\ f.hasDispatchPort = Top.hasDispatchPort
        /\ Top.pc # "mainQueue" /\ f.pc \notin {"mainQueue", "source1"}
        /\ f.livePort = "dispatch" => f.hasDispatchPort
    <2> HIDE DEF rest
    <2> QED
      BY <1>1 DEF PerformNext, At, Reports, NothingServedYet, BlockPCs, Frame
  <1> QED
    <2> HIDE DEF f
    <2> QED
      BY <1>1, <1>2, <1>4, <1>5, SetTopCalls

LEMMA DoSource0Calls == ASSUME CallsInv, TypeOK', DoSource0 PROVE CallsInv'
  <1>1. /\ depth > 0 /\ Top \in Frame /\ TypeOK /\ Reports(Top)
        /\ Top.livePort = "dispatch" => Top.hasDispatchPort
        /\ dispatchIn = {}
    BY TopCalls DEF DoSource0, At
  <1>2. inMainQueue' = inMainQueue /\ dispatchIn' = {}
    BY <1>1 DEF DoSource0
  <1>3. PICK s \in Top.collected :
          \/ SetTop([Top EXCEPT !.collected = @ \ {s}, !.pc = "source0"])
          \/ SetTop([Top EXCEPT !.collected = @ \ {s}, !.sourceHandled = FALSE])
    BY DEF DoSource0
  <1>4. ASSUME NEW f, SetTop(f),
               \/ f = [Top EXCEPT !.collected = @ \ {s}, !.pc = "source0"]
               \/ f = [Top EXCEPT !.collected = @ \ {s}, !.sourceHandled = FALSE]
        PROVE  CallsInv'
    <2>1. /\ Reports(f) /\ f.hasDispatchPort = Top.hasDispatchPort
          /\ Top.pc # "mainQueue" /\ f.pc \notin {"mainQueue", "source1"}
          /\ f.livePort = "dispatch" => f.hasDispatchPort
      BY <1>1, <1>3, <1>4 DEF DoSource0, At, Reports, NothingServedYet, BlockPCs, Frame
    <2> QED
      BY <1>1, <1>2, <1>4, <2>1, SetTopCalls
  <1> QED
    BY <1>3, <1>4

LEMMA ReceiveCalls == ASSUME CallsInv, TypeOK', Receive PROVE CallsInv'
  <1>1. /\ depth > 0 /\ Top \in Frame /\ TypeOK /\ Reports(Top)
        /\ \A m \in dispatchIn : Top.mode = m /\ Top.hasDispatchPort
    BY TopCalls DEF Receive, At
  <1>2. PICK p \in Ready \cup {n \in {"null"} : Top.poll /\ Ready = {}} :
          SetTop([Top EXCEPT !.livePort = p, !.pc = "woken"])
    BY DEF Receive
  <1> DEFINE f == [Top EXCEPT !.livePort = p, !.pc = "woken"]
  <1>3. SetTop(f)
    BY <1>2
  <1>4. p = "dispatch" => Top.hasDispatchPort
    <2>1. "dispatch" \notin arrived
      BY <1>1, SourcesAssumption DEF TypeOK, Sources
    <2>2. p = "dispatch" => Top.mode \in dispatchIn
      BY <1>2, <2>1 DEF Ready
    <2> QED
      BY <1>1, <2>2
  <1>5. /\ Reports(f) /\ f.hasDispatchPort = Top.hasDispatchPort
        /\ Top.pc # "mainQueue" /\ f.pc \notin {"mainQueue", "source1"}
        /\ f.livePort = "dispatch" => f.hasDispatchPort
    BY <1>1, <1>4 DEF Receive, At, Reports, NothingServedYet, BlockPCs, Frame
  <1>6. /\ inMainQueue' = inMainQueue
        /\ \A m \in dispatchIn' : f.pc \in {"asleep", "woken"} /\ f.mode = m /\ f.hasDispatchPort
    BY <1>1 DEF Receive, Frame
  <1> QED
    <2> HIDE DEF f
    <2> QED
      BY <1>1, <1>3, <1>5, <1>6, SetTopCalls

\* What the activation has to report it reports when it returns, and a new
\* iteration begins with nothing performed.
LEMMA ReturningReports ==
  ASSUME CallsInv, depth > 0, NEW r \in Results,
         r = "HandledSource" \/ ~(Top.stopAfterHandle /\ Top.served), NEW f,
         f = Returning(r) \/ f = [Returning(r) EXCEPT !.stopped = FALSE]
  PROVE  /\ Reports(f) /\ f.hasDispatchPort = Top.hasDispatchPort
         /\ f.pc = "exitObs" /\ f.livePort = "null"
  <1>1. Top \in Frame
    BY TopCalls
  <1>2. EndOfBody \in Frame
    BY <1>1 DEF EndOfBody, Frame
  <1>3. /\ EndOfBody.stopAfterHandle = Top.stopAfterHandle /\ EndOfBody.served = Top.served
        /\ EndOfBody.hasDispatchPort = Top.hasDispatchPort /\ EndOfBody.livePort = "null"
    BY <1>1 DEF EndOfBody, Frame
  <1>4. /\ Returning(r).retVal = r /\ Returning(r).pc = "exitObs"
        /\ Returning(r).stopAfterHandle = Top.stopAfterHandle /\ Returning(r).served = Top.served
        /\ Returning(r).hasDispatchPort = Top.hasDispatchPort /\ Returning(r).livePort = "null"
    BY <1>2, <1>3 DEF Returning, Frame
  <1>5. /\ f.retVal = r /\ f.pc = "exitObs"
        /\ f.stopAfterHandle = Top.stopAfterHandle /\ f.served = Top.served
        /\ f.hasDispatchPort = Top.hasDispatchPort /\ f.livePort = "null"
    <2>1. Returning(r) \in Frame
      BY <1>2 DEF Returning, Frame, ObserverPCs, ActivityAt
    <2> QED
      BY <1>4, <2>1 DEF Frame
  <1> QED
    BY <1>5 DEF Reports, NothingServedYet, BlockPCs

LEMMA NextIterationReports ==
  ASSUME CallsInv, depth > 0, NEW f, NEW port \in BOOLEAN,
         f = [NextIteration EXCEPT !.hasDispatchPort = port]
  PROVE  Reports(f) /\ f.hasDispatchPort = port /\ f.pc = "timersObs" /\ f.livePort = "null"
  <1>1. Top \in Frame /\ NextIteration \in Frame
    BY TopCalls, ReturningIsAFrame DEF Results
  <1>2. ~NextIteration.served /\ NextIteration.pc = "timersObs" /\ NextIteration.livePort = "null"
    BY <1>1 DEF NextIteration, EndOfBody, Frame
  <1>3. ~f.served /\ f.hasDispatchPort = port /\ f.pc = "timersObs" /\ f.livePort = "null"
    BY <1>1, <1>2 DEF Frame
  <1> QED
    BY <1>3 DEF Reports

LEMMA DecideCalls == ASSUME CallsInv, TypeOK', Decide PROVE CallsInv'
  <1>1. /\ depth > 0 /\ Top \in Frame /\ TypeOK /\ Reports(Top) /\ Top.pc = "decide"
        /\ dispatchIn = {}
    BY TopCalls DEF Decide, At
  <1>2. inMainQueue' = inMainQueue /\ dispatchIn' = {}
    BY <1>1 DEF Decide
  <1>3. Top.stopAfterHandle /\ Top.served => Top.sourceHandled
    BY <1>1 DEF Reports
  <1>4. ASSUME NEW f, SetTop(f),
               Reports(f) /\ f.hasDispatchPort = Top.hasDispatchPort
                 /\ f.pc \in {"exitObs", "timersObs"} /\ f.livePort = "null"
        PROVE  CallsInv'
    BY <1>1, <1>2, <1>4, SetTopCalls
  <1>5. ASSUME NEW r \in Results, NEW f, SetTop(f),
               r = "HandledSource" \/ ~(Top.stopAfterHandle /\ Top.sourceHandled),
               f = Returning(r) \/ f = [Returning(r) EXCEPT !.stopped = FALSE]
        PROVE  CallsInv'
    BY <1>1, <1>3, <1>4, <1>5, ReturningReports
  <1>6. CASE SetTop(NextIteration)
    <2>1. NextIteration \in Frame /\ NextIteration.hasDispatchPort = Top.hasDispatchPort
      BY <1>1, ReturningIsAFrame DEF Results, NextIteration, EndOfBody, Frame
    <2>2. NextIteration = [NextIteration EXCEPT !.hasDispatchPort = Top.hasDispatchPort]
      BY <2>1 DEF Frame
    <2>3. Top.hasDispatchPort \in BOOLEAN
      BY <1>1 DEF Frame
    <2> QED
      BY <1>1, <1>4, <1>6, <2>2, <2>3, NextIterationReports
  <1>7. \/ SetTop(Returning("HandledSource"))
        \/ /\ ~(Top.stopAfterHandle /\ Top.sourceHandled)
           /\ \/ SetTop(Returning("TimedOut")) \/ SetTop(Returning("Finished"))
              \/ SetTop(Returning("Stopped"))
              \/ SetTop([Returning("Stopped") EXCEPT !.stopped = FALSE])
        \/ SetTop(NextIteration)
    BY DEF Decide
  <1> QED
    BY <1>5, <1>6, <1>7 DEF Results

\* The port is given to an activation only while nothing services the queue.
LEMMA BeginCalls == ASSUME CallsInv, TypeOK', Begin PROVE CallsInv'
  <1>1. /\ depth > 0 /\ Top \in Frame /\ TypeOK /\ Reports(Top) /\ Top.pc = "begin"
        /\ dispatchIn = {}
    BY TopCalls DEF Begin, At
  <1>2. inMainQueue' = inMainQueue /\ dispatchIn' = {}
    BY <1>1 DEF Begin
  <1>3. ~(Top.stopAfterHandle /\ Top.served)
    BY <1>1 DEF Reports, NothingServedYet
  <1>4. CASE \/ SetTop(Returning("Stopped"))
             \/ SetTop([Returning("Stopped") EXCEPT !.stopped = FALSE])
    <2>1. PICK f : /\ SetTop(f)
                   /\ f = Returning("Stopped") \/ f = [Returning("Stopped") EXCEPT !.stopped = FALSE]
      BY <1>4
    <2>2. "Stopped" \in Results
      BY DEF Results
    <2>3. /\ Reports(f) /\ f.hasDispatchPort = Top.hasDispatchPort
          /\ f.pc = "exitObs" /\ f.livePort = "null"
      BY <1>1, <1>3, <2>1, <2>2, ReturningReports
    <2> QED
      BY <1>1, <1>2, <2>1, <2>3, SetTopCalls
  <1>5. CASE SetTop([NextIteration EXCEPT !.hasDispatchPort = MainQueueIsSafe(Top.mode)])
    <2> DEFINE f == [NextIteration EXCEPT !.hasDispatchPort = MainQueueIsSafe(Top.mode)]
    <2>1. MainQueueIsSafe(Top.mode) \in BOOLEAN
      BY DEF MainQueueIsSafe
    <2>2. /\ Reports(f) /\ f.hasDispatchPort = MainQueueIsSafe(Top.mode)
          /\ f.pc = "timersObs" /\ f.livePort = "null"
      BY <1>1, <2>1, NextIterationReports
    <2>3. /\ Top' = f /\ depth' = depth /\ depth \in 1..MaxDepth /\ frame'[depth] = f
          /\ \A d \in 1..depth : d # depth => frame'[d] = frame[d]
      BY <1>1, <1>5, SetTopEffect
    <2>4. Top = frame[depth]
      BY DEF Top
    <2>5. f.hasDispatchPort => \A d \in 1..depth : frame[d].pc # "mainQueue"
      BY <2>2 DEF MainQueueIsSafe, CallsInv, GuardInv, MainQueueNotReentered
    <2> HIDE DEF f
    <2>6. ServingNeedsThePort'
      BY <2>2, <2>3 DEF CallsInv, GuardInv, ServingNeedsThePort
    <2>7. NothingBelowIsServing'
      BY <2>2, <2>3, <2>4, <2>5 DEF CallsInv, GuardInv, NothingBelowIsServing
    <2>8. MainQueueNotReentered'
      BY <1>1, <1>2, <2>2, <2>3, <2>4 DEF CallsInv, GuardInv, MainQueueNotReentered
    <2>9. DispatchPortOnlyWhileAsleep'
      BY <1>2 DEF DispatchPortOnlyWhileAsleep
    <2>10. ReportInv'
      BY <1>1, <1>5, <2>2, SetTopReports DEF f
    <2> QED
      BY <2>6, <2>7, <2>8, <2>9, <2>10 DEF CallsInv, GuardInv
  <1> QED
    BY <1>4, <1>5 DEF Begin

\* Servicing begins with the port: no activation above or below does it.
LEMMA HandleMessageCalls == ASSUME CallsInv, TypeOK', HandleMessage PROVE CallsInv'
  <1>1. /\ depth > 0 /\ Top \in Frame /\ TypeOK /\ Reports(Top) /\ Top.pc = "handle"
        /\ Top.livePort = "dispatch" => Top.hasDispatchPort
        /\ dispatchIn = {}
    BY TopCalls DEF HandleMessage, At
  <1> DEFINE f == [Top EXCEPT !.ignoreWakeUps = TRUE, !.afterBlocks = "decide", !.pc = Callee]
  <1>2. SetTop(f) /\ inMainQueue' = (inMainQueue \/ Callee = "mainQueue") /\ dispatchIn' = {}
    BY <1>1 DEF HandleMessage
  <1>3. /\ Callee \in {"mainQueue", "source1", "doBlocks"}
        /\ Callee = "mainQueue" => Top.livePort = "dispatch"
    BY DEF Callee
  <1>4. /\ f.hasDispatchPort = Top.hasDispatchPort /\ f.livePort = Top.livePort
        /\ f.afterBlocks = "decide" /\ f.pc = Callee
    BY <1>1, <1>3 DEF Frame
  <1>5. Reports(f)
    BY <1>1, <1>3 DEF Reports, NothingServedYet, BlockPCs, Frame
  <1>6. /\ Top' = f /\ depth' = depth /\ depth \in 1..MaxDepth /\ frame'[depth] = f
        /\ \A d \in 1..depth : d # depth => frame'[d] = frame[d]
    BY <1>1, <1>2, SetTopEffect
  <1>7. Top = frame[depth]
    BY DEF Top
  <1> HIDE DEF f
  <1>8. ServingNeedsThePort'
    BY <1>1, <1>3, <1>4, <1>6 DEF CallsInv, GuardInv, ServingNeedsThePort
  <1>9. NothingBelowIsServing'
    BY <1>4, <1>6, <1>7 DEF CallsInv, GuardInv, NothingBelowIsServing
  <1>10. MainQueueNotReentered'
    <2>1. Callee = "mainQueue" => \A d \in 1..depth : d # depth => frame[d].pc # "mainQueue"
      BY <1>1, <1>3, <1>6, <1>7 DEF CallsInv, GuardInv, NothingBelowIsServing
    <2>2. CASE Callee = "mainQueue"
      <3>1. inMainQueue' /\ \A d \in 1..depth : frame'[d].pc = "mainQueue" <=> d = depth
        BY <1>2, <1>4, <1>6, <2>1, <2>2
      <3> QED
        BY <1>6, <3>1 DEF MainQueueNotReentered
    <2>3. CASE Callee # "mainQueue"
      <3>1. inMainQueue' = inMainQueue
        BY <1>1, <1>2, <2>3 DEF TypeOK
      <3>2. \A d \in 1..depth : frame'[d].pc = "mainQueue" <=> frame[d].pc = "mainQueue"
        BY <1>1, <1>4, <1>6, <1>7, <2>3
      <3> QED
        BY <1>6, <3>1, <3>2 DEF CallsInv, GuardInv, MainQueueNotReentered
    <2> QED
      BY <2>2, <2>3
  <1>11. DispatchPortOnlyWhileAsleep'
    BY <1>2 DEF DispatchPortOnlyWhileAsleep
  <1>12. ReportInv'
    BY <1>1, <1>2, <1>4, <1>5, SetTopReports
  <1> QED
    BY <1>8, <1>9, <1>10, <1>11, <1>12 DEF CallsInv, GuardInv

LEMMA MainQueueReturnsCalls == ASSUME CallsInv, TypeOK', MainQueueReturns PROVE CallsInv'
  <1>1. /\ depth > 0 /\ Top \in Frame /\ TypeOK /\ Top.pc = "mainQueue"
        /\ Top.hasDispatchPort /\ Top.afterBlocks = "decide" /\ dispatchIn = {}
    BY TopCalls DEF MainQueueReturns, At
  <1> DEFINE f == [Top EXCEPT !.sourceHandled = TRUE, !.served = TRUE,
                              !.didDispatchPortLastTime = TRUE, !.pc = "doBlocks"]
  <1>2. SetTop(f) /\ inMainQueue' = FALSE /\ dispatchIn' = {}
    BY <1>1 DEF MainQueueReturns
  <1>3. f.hasDispatchPort /\ f.pc = "doBlocks" /\ Reports(f)
    BY <1>1 DEF Frame, Reports, NothingServedYet, BlockPCs
  <1>4. /\ Top' = f /\ depth' = depth /\ depth \in 1..MaxDepth /\ frame'[depth] = f
        /\ \A d \in 1..depth : d # depth => frame'[d] = frame[d]
    BY <1>1, <1>2, SetTopEffect
  <1>5. Top = frame[depth]
    BY DEF Top
  <1> HIDE DEF f
  <1>6. \A d \in 1..depth : frame'[d].pc # "mainQueue"
    BY <1>1, <1>3, <1>4, <1>5 DEF CallsInv, GuardInv, MainQueueNotReentered
  <1>7. ServingNeedsThePort'
    BY <1>3, <1>4 DEF CallsInv, GuardInv, ServingNeedsThePort
  <1>8. NothingBelowIsServing'
    BY <1>4, <1>6 DEF NothingBelowIsServing
  <1>9. MainQueueNotReentered'
    BY <1>2, <1>4, <1>6 DEF MainQueueNotReentered
  <1>10. DispatchPortOnlyWhileAsleep'
    BY <1>2 DEF DispatchPortOnlyWhileAsleep
  <1>11. ReportInv'
    BY <1>1, <1>2, <1>3, SetTopReports
  <1> QED
    BY <1>7, <1>8, <1>9, <1>10, <1>11 DEF CallsInv, GuardInv

LEMMA PopCalls == ASSUME CallsInv, TypeOK', Pop PROVE CallsInv'
  <1>1. depth > 0 /\ TypeOK /\ Top.pc = "pop" /\ dispatchIn = {} /\ depth \in 1..MaxDepth
    BY TopCalls, RunsAssumption DEF Pop, At, TypeOK
  <1>2. /\ depth' = depth - 1 /\ dispatchIn' = {} /\ inMainQueue' = inMainQueue
        /\ \A d \in 1..depth' : d \in 1..depth /\ frame'[d] = frame[d]
    BY <1>1 DEF Pop, TypeOK
  <1>3. ServingNeedsThePort' /\ NothingBelowIsServing'
    BY <1>2 DEF CallsInv, GuardInv, ServingNeedsThePort, NothingBelowIsServing
  <1>4. MainQueueNotReentered'
    <2>1. \A d \in 1..depth : frame[d].pc = "mainQueue" => d \in 1..depth'
      BY <1>1, <1>2 DEF Top
    <2> QED
      BY <1>2, <2>1 DEF CallsInv, GuardInv, MainQueueNotReentered
  <1>5. DispatchPortOnlyWhileAsleep'
    BY <1>2 DEF DispatchPortOnlyWhileAsleep
  <1>6. ReportInv'
    BY <1>2 DEF CallsInv, ReportInv, CalledAfterSleep, Reports, NothingServedYet
  <1> QED
    BY <1>3, <1>4, <1>5, <1>6 DEF CallsInv, GuardInv

\* An activation is begun from client code, so nothing sleeps meanwhile, and it
\* does not yet have the port.
LEMMA RunCalls ==
  ASSUME CallsInv, TypeOK', NEW m \in Modes, NEW kind \in RunKinds, RunSpecific(m, kind)
  PROVE  CallsInv'
  <1>1. TypeOK /\ depth \in 0..MaxDepth /\ depth' = depth + 1
        /\ depth' \in 1..MaxDepth /\ 1..depth \subseteq 1..MaxDepth
    BY RunsAssumption DEF CallsInv, GuardInv, RunSpecific, TypeOK
  <1>2. dispatchIn' = {} /\ inMainQueue' = inMainQueue
    <2>1. ~At("asleep") /\ ~At("woken")
      BY DEF At, RunSpecific, InClientCode, CalloutPCs, ObserverPCs, ActivityAt
    <2> QED
      BY <2>1 DEF RunSpecific, CallsInv, GuardInv, DispatchPortOnlyWhileAsleep
  <1> DEFINE new == frame'[depth + 1]
  <1>3. /\ new.pc = "entryObs" /\ ~new.hasDispatchPort /\ new.livePort = "null" /\ ~new.served
    BY <1>1 DEF RunSpecific, NewFrame
  <1>4. \A d \in 1..depth : /\ frame'[d].pc = frame[d].pc
                            /\ frame'[d].hasDispatchPort = frame[d].hasDispatchPort
                            /\ frame'[d].livePort = frame[d].livePort
                            /\ frame'[d].afterBlocks = frame[d].afterBlocks
                            /\ Reports(frame'[d]) <=> Reports(frame[d])
    <2> SUFFICES ASSUME NEW d \in 1..depth
                 PROVE  /\ frame'[d].pc = frame[d].pc
                        /\ frame'[d].hasDispatchPort = frame[d].hasDispatchPort
                        /\ frame'[d].livePort = frame[d].livePort
                        /\ frame'[d].afterBlocks = frame[d].afterBlocks
                        /\ Reports(frame'[d]) <=> Reports(frame[d])
      OBVIOUS
    <2>1. frame[d] \in Frame /\ d \in 1..MaxDepth
      BY <1>1 DEF TypeOK
    <2>2. frame'[d] = frame[d] \/ frame'[d] = [frame[d] EXCEPT !.nested = TRUE]
      <3>1. CASE d = depth
        BY <2>1, <3>1, <1>1 DEF RunSpecific, Top
      <3>2. CASE d # depth
        BY <2>1, <3>2, <1>1 DEF RunSpecific
      <3> QED
        BY <3>1, <3>2
    <2> QED
      BY <2>1, <2>2 DEF Frame, Reports, NothingServedYet
  <1> HIDE DEF new
  <1>5. \A d \in 1..depth' : d \in 1..depth \/ (d = depth + 1 /\ frame'[d] = new)
    BY <1>1 DEF new
  <1>6. ServingNeedsThePort'
    BY <1>3, <1>4, <1>5 DEF CallsInv, GuardInv, ServingNeedsThePort
  <1>7. NothingBelowIsServing'
    BY <1>1, <1>3, <1>4, <1>5 DEF CallsInv, GuardInv, NothingBelowIsServing
  <1>8. MainQueueNotReentered'
    BY <1>1, <1>2, <1>3, <1>4, <1>5 DEF CallsInv, GuardInv, MainQueueNotReentered
  <1>9. DispatchPortOnlyWhileAsleep'
    BY <1>2 DEF DispatchPortOnlyWhileAsleep
  <1>10. CalledAfterSleep'
    BY <1>3, <1>4, <1>5 DEF CallsInv, ReportInv, CalledAfterSleep
  <1>11. \A d \in 1..depth' : Reports(frame'[d])
    BY <1>3, <1>4, <1>5 DEF CallsInv, ReportInv, Reports
  <1>12. ReportInv'
    BY <1>10, <1>11 DEF ReportInv, Reports, NothingServedYet
  <1> QED
    BY <1>6, <1>7, <1>8, <1>9, <1>12 DEF CallsInv, GuardInv

\* Nothing that happens outside the loop's thread touches what it reports.
LEMMA OthersCalls ==
  ASSUME CallsInv, TypeOK', depth' = depth, inMainQueue' = inMainQueue, dispatchIn' = dispatchIn,
         \/ frame' = frame
         \/ depth > 0 /\ SetTop([Top EXCEPT !.stopped = TRUE])
         \/ \E d \in 1..MaxDepth, v \in {"past", "fired"} : frame' = [frame EXCEPT ![d].termTSR = v]
  PROVE  CallsInv'
  <1>1. TypeOK /\ depth \in 0..MaxDepth /\ MaxDepth \in Nat
    BY RunsAssumption DEF CallsInv, GuardInv, TypeOK
  <1>2. ASSUME NEW d \in 1..MaxDepth
        PROVE  /\ frame'[d].pc = frame[d].pc /\ frame'[d].mode = frame[d].mode
               /\ frame'[d].hasDispatchPort = frame[d].hasDispatchPort
               /\ frame'[d].livePort = frame[d].livePort
               /\ frame'[d].afterBlocks = frame[d].afterBlocks
               /\ Reports(frame'[d]) <=> Reports(frame[d])
    <2>1. frame[d] \in Frame
      BY <1>1, <1>2 DEF TypeOK
    <2>2. \/ frame'[d] = frame[d]
          \/ frame'[d] = [frame[d] EXCEPT !.stopped = TRUE]
          \/ \E v : frame'[d] = [frame[d] EXCEPT !.termTSR = v]
      BY <1>1, <1>2 DEF SetTop, Top, TypeOK
    <2> QED
      BY <2>1, <2>2, ZenonT(30) DEF Frame, Reports, NothingServedYet
  <1>3. \A d \in 1..depth : d \in 1..MaxDepth
    BY <1>1
  <1>4. ServingNeedsThePort' /\ NothingBelowIsServing' /\ MainQueueNotReentered'
    BY <1>2, <1>3 DEF CallsInv, GuardInv, ServingNeedsThePort, NothingBelowIsServing,
       MainQueueNotReentered
  <1>5. DispatchPortOnlyWhileAsleep'
    <2>1. depth > 0 => /\ Top'.pc = Top.pc /\ Top'.mode = Top.mode
                       /\ Top'.hasDispatchPort = Top.hasDispatchPort
      BY <1>1, <1>2 DEF Top
    <2> QED
      BY <2>1 DEF CallsInv, GuardInv, DispatchPortOnlyWhileAsleep, At
  <1>6. CalledAfterSleep'
    BY <1>2, <1>3 DEF CallsInv, ReportInv, CalledAfterSleep
  <1>7. \A d \in 1..depth : Reports(frame'[d])
    BY <1>2, <1>3 DEF CallsInv, ReportInv
  <1>8. ReportInv'
    BY <1>6, <1>7 DEF ReportInv, Reports, NothingServedYet
  <1> QED
    BY <1>4, <1>5, <1>8 DEF CallsInv, GuardInv

LEMMA CallsStep == CallsInv /\ [Next]_vars => CallsInv'
  <1> SUFFICES ASSUME CallsInv, [Next]_vars PROVE CallsInv'
    OBVIOUS
  <1>1. TypeOK'
    BY TypeStep DEF CallsInv, GuardInv
  <1>2. CASE Step
    BY <1>1, <1>2, ObserversReturnCalls, BeginCalls, DetachBlocksCalls, PerformNextCalls,
       BlockReturnsCalls, ReattachBlocksCalls, CollectSources0Calls, DoSource0Calls,
       Source0ReturnsCalls, Sources0DoneCalls, PollCalls, SleepCalls, ReceiveCalls,
       WokenUpCalls, HandleMessageCalls, MainQueueReturnsCalls, Source1ReturnsCalls,
       DecideCalls, PopCalls DEF Step
  <1>3. CASE Run
    BY <1>1, <1>3, RunCalls DEF Run
  <1>4. ASSUME NEW t \in Threads, Give(t) PROVE CallsInv'
    <2>1. ASSUME NEW b \in Blocks, PerformBlock(t, b) PROVE CallsInv'
      BY <1>1, <2>1, OthersCalls DEF PerformBlock
    <2>2. CASE Stop(t)
      BY <1>1, <2>2, OthersCalls DEF Stop, SetTop
    <2>3. ASSUME NEW m \in Modes, StopMode(t, m) PROVE CallsInv'
      BY <1>1, <2>3, OthersCalls DEF StopMode
    <2>4. ASSUME NEW s \in Sources0, SignalSource(t, s) PROVE CallsInv'
      BY <1>1, <2>4, OthersCalls DEF SignalSource
    <2>5. ASSUME NEW s \in Sources, InvalidateSource(t, s) PROVE CallsInv'
      BY <1>1, <2>5, OthersCalls DEF InvalidateSource
    <2>6. ASSUME NEW d \in 1..MaxDepth, TimeoutFires(t, d) PROVE CallsInv'
      BY <1>1, <2>6, OthersCalls DEF TimeoutFires
    <2> QED
      BY <1>4, <2>1, <2>2, <2>3, <2>4, <2>5, <2>6 DEF Give
  <1>5. ASSUME NEW t \in Threads, RemoveFromRunLoop(t) \/ WakeUp(t) PROVE CallsInv'
    BY <1>1, <1>5, OthersCalls DEF RemoveFromRunLoop, WakeUp
  <1>6. CASE Outside
    <2>1. ASSUME NEW d \in 1..MaxDepth, DeadlinePasses(d) PROVE CallsInv'
      BY <1>1, <2>1, OthersCalls DEF DeadlinePasses
    <2>2. ASSUME NEW s \in Sources1, MessageArrives(s) PROVE CallsInv'
      BY <1>1, <2>2, OthersCalls DEF MessageArrives
    <2>3. CASE MainQueueEnqueue
      BY <1>1, <2>3, OthersCalls DEF MainQueueEnqueue
    <2> QED
      BY <1>6, <2>1, <2>2, <2>3 DEF Outside
  <1>7. CASE UNCHANGED vars
    BY <1>1, <1>7, OthersCalls DEF vars
  <1> QED
    BY <1>2, <1>3, <1>4, <1>5, <1>6, <1>7 DEF Next

LEMMA CallsAlways == Spec => []CallsInv
  BY InitCalls, CallsStep, PTL DEF Spec

\* __CFRunLoopRun services the main dispatch queue in one activation at a time
\* and listens to its port only while it sleeps (2666, 2829), however many
\* activations are nested in whatever callouts and modes.
THEOREM MainQueueGuarded == Spec => []MainQueueIsGuarded
  <1>1. CallsInv => MainQueueIsGuarded
    BY DEF CallsInv, GuardInv, MainQueueIsGuarded
  <1> QED
    BY <1>1, CallsAlways, PTL

\* A run with returnAfterSourceHandled reports the source it performed, whatever
\* stopped it, timed it out or emptied its mode meanwhile.
THEOREM ReportCorrect == Spec => []HandledSourceIsReported
  <1>1. CallsInv => HandledSourceIsReported
    BY TopCalls DEF HandledSourceIsReported, At, Reports
  <1> QED
    BY <1>1, CallsAlways, PTL

----------------------------------------------------------------------------
(* Wake-ups reach the sleeper: WakeUpInv is inductive and implies it.      *)

\* The conjuncts of the invariant that are about every activation.
EveryActivation == WakeUpsAccepted /\ CalledAfterSleep /\ NestingIsNoted

LEMMA EveryActivationStep ==
  ASSUME TypeOK, depth > 0, NEW f, SetTop(f), EveryActivation,
         OnTheWayToSleep(f) => ~f.ignoreWakeUps,
         f.pc \in {"mainQueue", "source1"} => f.afterBlocks = "decide"
  PROVE  EveryActivation'
  <1>1. WakeUpsAccepted'
    BY SetTopEffect DEF WakeUpsAccepted, OnTheWayToSleep, EveryActivation
  <1>2. CalledAfterSleep'
    BY SetTopEffect DEF CalledAfterSleep, EveryActivation
  <1>3. NestingIsNoted'
    BY SetTopEffect DEF NestingIsNoted, TypeOK, EveryActivation
  <1> QED
    BY <1>1, <1>2, <1>3 DEF EveryActivation

LEMMA TopOfEvery ==
  ASSUME TypeOK, depth > 0, EveryActivation
  PROVE  /\ OnTheWayToSleep(Top) => ~Top.ignoreWakeUps
         /\ Top.pc \in {"mainQueue", "source1"} => Top.afterBlocks = "decide"
  <1>1. depth \in 1..depth
    BY RunsAssumption DEF TypeOK
  <1> QED
    BY <1>1 DEF WakeUpsAccepted, CalledAfterSleep, Top, EveryActivation

\* With a wake-up to come, or off its way to sleep, nothing can be missed.
LEMMA NothingMissed ==
  ASSUME ~NoWakeUpToCome'
  PROVE  NoStopMissed' /\ NoTimeoutMissed' /\ NoBlockMissed' /\ NoSourceMissed'
  BY DEF NoStopMissed, NoTimeoutMissed, NoBlockMissed, NoSourceMissed

LEMMA ObserversReturnWake == ASSUME WakeUpInv, ObserversReturn PROVE WakeUpInv'
  <1>1. depth > 0 /\ Top \in Frame /\ TypeOK /\ TypeOK' /\ EveryActivation
    BY TopIsAFrame, ObserversReturnType DEF ObserversReturn, At, WakeUpInv, EveryActivation
  <1> DEFINE f == [Top EXCEPT !.pc = AfterObservers[Top.pc],
                        !.afterBlocks = IF Top.pc = "sourcesObs" THEN "collect" ELSE @]
  <1>2. SetTop(f)
    BY DEF ObserversReturn
  <1>3. Top' = f /\ depth' = depth
    BY <1>1, <1>2, SetTopEffect
  <1>4. /\ OnTheWayToSleep(f) => ~f.ignoreWakeUps
        /\ f.pc \in {"mainQueue", "source1"} => f.afterBlocks = "decide"
    BY ObserverOrder, <1>1, TopOfEvery DEF ObserversReturn, At, OnTheWayToSleep, BlockPCs, SleepPCs, Frame
  <1>5. EveryActivation'
    <2> HIDE DEF f
    <2> QED
      BY <1>1, <1>2, <1>4, EveryActivationStep
  <1>6. NoStopMissed'
    BY ObserverOrder, <1>1, <1>3 DEF WakeUpInv, NoStopMissed, ObserversReturn, At, Frame,
       NoWakeUpToCome, WakeUpPending, OnTheWayToSleep, BlockPCs, SleepPCs
  <1>7. NoTimeoutMissed'
    BY ObserverOrder, <1>1, <1>3 DEF WakeUpInv, NoTimeoutMissed, ObserversReturn, At, Frame,
       NoWakeUpToCome, WakeUpPending, OnTheWayToSleep, BlockPCs, SleepPCs
  <1>8. NoBlockMissed'
    <2>1. NoWakeUpToCome' /\ BlocksLookedAt' => NoWakeUpToCome /\ BlocksLookedAt
      BY ObserverOrder, <1>1, <1>3 DEF BlocksLookedAt, ObserversReturn, At, Frame,
         NoWakeUpToCome, WakeUpPending, OnTheWayToSleep, BlockPCs, SleepPCs
    <2>2. queue' = queue /\ Top'.mode = Top.mode
      BY <1>1, <1>3 DEF ObserversReturn, Frame
    <2> QED
      BY <2>1, <2>2 DEF WakeUpInv, NoBlockMissed, RunsIn
  <1>9. NoSourceMissed'
    BY ObserverOrder, <1>1, <1>3 DEF WakeUpInv, NoSourceMissed, SignaledHere, ObserversReturn, At, Frame,
       NoWakeUpToCome, WakeUpPending, OnTheWayToSleep, BlockPCs, SleepPCs
  <1> QED
    BY <1>1, <1>5, <1>6, <1>7, <1>8, <1>9 DEF WakeUpInv, EveryActivation

LEMMA BlockReturnsWake == ASSUME WakeUpInv, BlockReturns PROVE WakeUpInv'
  <1>1. depth > 0 /\ Top \in Frame /\ TypeOK /\ TypeOK' /\ EveryActivation
    BY TopIsAFrame, BlockReturnsType DEF BlockReturns, At, WakeUpInv, EveryActivation
  <1> DEFINE f == [Top EXCEPT !.pc = "blockList"]
  <1>2. SetTop(f)
    BY DEF BlockReturns
  <1>3. Top' = f /\ depth' = depth
    BY <1>1, <1>2, SetTopEffect
  <1>4. /\ OnTheWayToSleep(f) => ~f.ignoreWakeUps
        /\ f.pc \in {"mainQueue", "source1"} => f.afterBlocks = "decide"
    BY <1>1, TopOfEvery DEF BlockReturns, At, OnTheWayToSleep, BlockPCs, SleepPCs, Frame
  <1>5. EveryActivation'
    BY <1>1, <1>2, <1>4, EveryActivationStep
  <1>6. NoStopMissed'
    BY <1>1, <1>3 DEF WakeUpInv, NoStopMissed, BlockReturns, At, Frame,
       NoWakeUpToCome, WakeUpPending, OnTheWayToSleep, BlockPCs, SleepPCs
  <1>7. NoTimeoutMissed'
    BY <1>1, <1>3 DEF WakeUpInv, NoTimeoutMissed, BlockReturns, At, Frame,
       NoWakeUpToCome, WakeUpPending, OnTheWayToSleep, BlockPCs, SleepPCs
  <1>8. NoBlockMissed'
    <2>1. NoWakeUpToCome' /\ BlocksLookedAt' => NoWakeUpToCome /\ BlocksLookedAt
      BY <1>1, <1>3 DEF BlocksLookedAt, BlockReturns, At, Frame,
         NoWakeUpToCome, WakeUpPending, OnTheWayToSleep, BlockPCs, SleepPCs
    <2>2. queue' = queue /\ Top'.mode = Top.mode
      BY <1>1, <1>3 DEF BlockReturns, Frame
    <2> QED
      BY <2>1, <2>2 DEF WakeUpInv, NoBlockMissed, RunsIn
  <1>9. NoSourceMissed'
    BY <1>1, <1>3 DEF WakeUpInv, NoSourceMissed, SignaledHere, BlockReturns, At, Frame,
       NoWakeUpToCome, WakeUpPending, OnTheWayToSleep, BlockPCs, SleepPCs
  <1> QED
    BY <1>1, <1>5, <1>6, <1>7, <1>8, <1>9 DEF WakeUpInv, EveryActivation

LEMMA CollectSources0Wake == ASSUME WakeUpInv, CollectSources0 PROVE WakeUpInv'
  <1>1. depth > 0 /\ Top \in Frame /\ TypeOK /\ TypeOK' /\ EveryActivation
    BY TopIsAFrame, CollectSources0Type DEF CollectSources0, At, WakeUpInv, EveryActivation
  <1> DEFINE f == [Top EXCEPT !.sourceHandled = FALSE,
       !.collected = members[Top.mode] \cap Sources0 \cap valid \cap signaled,
       !.pc = IF members[Top.mode] \cap Sources0 \cap valid \cap signaled = {}
              THEN "poll" ELSE "sourceList"]
  <1>2. SetTop(f)
    BY DEF CollectSources0
  <1>3. Top' = f /\ depth' = depth
    BY <1>1, <1>2, SetTopEffect
  <1>4. /\ OnTheWayToSleep(f) => ~f.ignoreWakeUps
        /\ f.pc \in {"mainQueue", "source1"} => f.afterBlocks = "decide"
    BY <1>1, TopOfEvery DEF CollectSources0, At, OnTheWayToSleep, BlockPCs, SleepPCs, Frame
  <1>5. EveryActivation'
    BY <1>1, <1>2, <1>4, EveryActivationStep
  <1>6. NoStopMissed'
    BY <1>1, <1>3 DEF WakeUpInv, NoStopMissed, CollectSources0, At, Frame,
       NoWakeUpToCome, WakeUpPending, OnTheWayToSleep, BlockPCs, SleepPCs
  <1>7. NoTimeoutMissed'
    BY <1>1, <1>3 DEF WakeUpInv, NoTimeoutMissed, CollectSources0, At, Frame,
       NoWakeUpToCome, WakeUpPending, OnTheWayToSleep, BlockPCs, SleepPCs
  <1>8. NoBlockMissed'
    <2>1. NoWakeUpToCome' /\ BlocksLookedAt' => NoWakeUpToCome /\ BlocksLookedAt
      BY <1>1, <1>3 DEF BlocksLookedAt, CollectSources0, At, Frame,
         NoWakeUpToCome, WakeUpPending, OnTheWayToSleep, BlockPCs, SleepPCs
    <2>2. queue' = queue /\ Top'.mode = Top.mode
      BY <1>1, <1>3 DEF CollectSources0, Frame
    <2> QED
      BY <2>1, <2>2 DEF WakeUpInv, NoBlockMissed, RunsIn
  <1>9. NoSourceMissed'
    BY <1>1, <1>3 DEF WakeUpInv, NoSourceMissed, SignaledHere, CollectSources0, At, Frame,
       NoWakeUpToCome, WakeUpPending, OnTheWayToSleep, BlockPCs, SleepPCs
  <1> QED
    BY <1>1, <1>5, <1>6, <1>7, <1>8, <1>9 DEF WakeUpInv, EveryActivation

LEMMA Source0ReturnsWake == ASSUME WakeUpInv, Source0Returns PROVE WakeUpInv'
  <1>1. depth > 0 /\ Top \in Frame /\ TypeOK /\ TypeOK' /\ EveryActivation
    BY TopIsAFrame, Source0ReturnsType DEF Source0Returns, At, WakeUpInv, EveryActivation
  <1> DEFINE f == [Top EXCEPT !.pc = "sourceList", !.sourceHandled = TRUE, !.served = TRUE,
                        !.collected = StillToPerform]
  <1>2. SetTop(f)
    BY DEF Source0Returns
  <1>3. Top' = f /\ depth' = depth
    BY <1>1, <1>2, SetTopEffect
  <1>4. /\ OnTheWayToSleep(f) => ~f.ignoreWakeUps
        /\ f.pc \in {"mainQueue", "source1"} => f.afterBlocks = "decide"
    BY <1>1, TopOfEvery DEF Source0Returns, At, OnTheWayToSleep, BlockPCs, SleepPCs, Frame, StillToPerform
  <1>5. EveryActivation'
    BY <1>1, <1>2, <1>4, EveryActivationStep
  <1>6. NoStopMissed'
    BY <1>1, <1>3 DEF WakeUpInv, NoStopMissed, Source0Returns, At, Frame,
       NoWakeUpToCome, WakeUpPending, OnTheWayToSleep, BlockPCs, SleepPCs, StillToPerform
  <1>7. NoTimeoutMissed'
    BY <1>1, <1>3 DEF WakeUpInv, NoTimeoutMissed, Source0Returns, At, Frame,
       NoWakeUpToCome, WakeUpPending, OnTheWayToSleep, BlockPCs, SleepPCs, StillToPerform
  <1>8. NoBlockMissed'
    <2>1. NoWakeUpToCome' /\ BlocksLookedAt' => NoWakeUpToCome /\ BlocksLookedAt
      BY <1>1, <1>3 DEF BlocksLookedAt, Source0Returns, At, Frame,
         NoWakeUpToCome, WakeUpPending, OnTheWayToSleep, BlockPCs, SleepPCs, StillToPerform
    <2>2. queue' = queue /\ Top'.mode = Top.mode
      BY <1>1, <1>3 DEF Source0Returns, Frame, StillToPerform
    <2> QED
      BY <2>1, <2>2 DEF WakeUpInv, NoBlockMissed, RunsIn
  <1>9. NoSourceMissed'
    BY <1>1, <1>3 DEF WakeUpInv, NoSourceMissed, SignaledHere, Source0Returns, At, Frame,
       NoWakeUpToCome, WakeUpPending, OnTheWayToSleep, BlockPCs, SleepPCs, StillToPerform
  <1> QED
    BY <1>1, <1>5, <1>6, <1>7, <1>8, <1>9 DEF WakeUpInv, EveryActivation

LEMMA Sources0DoneWake == ASSUME WakeUpInv, Sources0Done PROVE WakeUpInv'
  <1>1. depth > 0 /\ Top \in Frame /\ TypeOK /\ TypeOK' /\ EveryActivation
    BY TopIsAFrame, Sources0DoneType DEF Sources0Done, At, WakeUpInv, EveryActivation
  <1> DEFINE f == [Top EXCEPT !.afterBlocks = "poll",
                        !.pc = IF Top.sourceHandled THEN "doBlocks" ELSE "poll"]
  <1>2. SetTop(f)
    BY DEF Sources0Done
  <1>3. Top' = f /\ depth' = depth
    BY <1>1, <1>2, SetTopEffect
  <1>4. /\ OnTheWayToSleep(f) => ~f.ignoreWakeUps
        /\ f.pc \in {"mainQueue", "source1"} => f.afterBlocks = "decide"
    BY <1>1, TopOfEvery DEF Sources0Done, At, OnTheWayToSleep, BlockPCs, SleepPCs, Frame
  <1>5. EveryActivation'
    BY <1>1, <1>2, <1>4, EveryActivationStep
  <1>6. NoStopMissed'
    BY <1>1, <1>3 DEF WakeUpInv, NoStopMissed, Sources0Done, At, Frame,
       NoWakeUpToCome, WakeUpPending, OnTheWayToSleep, BlockPCs, SleepPCs
  <1>7. NoTimeoutMissed'
    BY <1>1, <1>3 DEF WakeUpInv, NoTimeoutMissed, Sources0Done, At, Frame,
       NoWakeUpToCome, WakeUpPending, OnTheWayToSleep, BlockPCs, SleepPCs
  <1>8. NoBlockMissed'
    <2>1. NoWakeUpToCome' /\ BlocksLookedAt' => NoWakeUpToCome /\ BlocksLookedAt
      BY <1>1, <1>3 DEF BlocksLookedAt, Sources0Done, At, Frame,
         NoWakeUpToCome, WakeUpPending, OnTheWayToSleep, BlockPCs, SleepPCs
    <2>2. queue' = queue /\ Top'.mode = Top.mode
      BY <1>1, <1>3 DEF Sources0Done, Frame
    <2> QED
      BY <2>1, <2>2 DEF WakeUpInv, NoBlockMissed, RunsIn
  <1>9. NoSourceMissed'
    BY <1>1, <1>3 DEF WakeUpInv, NoSourceMissed, SignaledHere, Sources0Done, At, Frame,
       NoWakeUpToCome, WakeUpPending, OnTheWayToSleep, BlockPCs, SleepPCs
  <1> QED
    BY <1>1, <1>5, <1>6, <1>7, <1>8, <1>9 DEF WakeUpInv, EveryActivation

LEMMA SleepWake == ASSUME WakeUpInv, Sleep PROVE WakeUpInv'
  <1>1. depth > 0 /\ Top \in Frame /\ TypeOK /\ TypeOK' /\ EveryActivation
    BY TopIsAFrame, SleepType DEF Sleep, At, WakeUpInv, EveryActivation
  <1> DEFINE f == [Top EXCEPT !.pc = "asleep"]
  <1>2. SetTop(f)
    BY DEF Sleep
  <1>3. Top' = f /\ depth' = depth
    BY <1>1, <1>2, SetTopEffect
  <1>4. /\ OnTheWayToSleep(f) => ~f.ignoreWakeUps
        /\ f.pc \in {"mainQueue", "source1"} => f.afterBlocks = "decide"
    BY <1>1, TopOfEvery DEF Sleep, At, OnTheWayToSleep, BlockPCs, SleepPCs, Frame
  <1>5. EveryActivation'
    BY <1>1, <1>2, <1>4, EveryActivationStep
  <1>6. NoStopMissed'
    BY <1>1, <1>3 DEF WakeUpInv, NoStopMissed, Sleep, At, Frame,
       NoWakeUpToCome, WakeUpPending, OnTheWayToSleep, BlockPCs, SleepPCs
  <1>7. NoTimeoutMissed'
    BY <1>1, <1>3 DEF WakeUpInv, NoTimeoutMissed, Sleep, At, Frame,
       NoWakeUpToCome, WakeUpPending, OnTheWayToSleep, BlockPCs, SleepPCs
  <1>8. NoBlockMissed'
    <2>1. NoWakeUpToCome' /\ BlocksLookedAt' => NoWakeUpToCome /\ BlocksLookedAt
      BY <1>1, <1>3 DEF BlocksLookedAt, Sleep, At, Frame,
         NoWakeUpToCome, WakeUpPending, OnTheWayToSleep, BlockPCs, SleepPCs
    <2>2. queue' = queue /\ Top'.mode = Top.mode
      BY <1>1, <1>3 DEF Sleep, Frame
    <2> QED
      BY <2>1, <2>2 DEF WakeUpInv, NoBlockMissed, RunsIn
  <1>9. NoSourceMissed'
    BY <1>1, <1>3 DEF WakeUpInv, NoSourceMissed, SignaledHere, Sleep, At, Frame,
       NoWakeUpToCome, WakeUpPending, OnTheWayToSleep, BlockPCs, SleepPCs
  <1> QED
    BY <1>1, <1>5, <1>6, <1>7, <1>8, <1>9 DEF WakeUpInv, EveryActivation

LEMMA WokenUpWake == ASSUME WakeUpInv, WokenUp PROVE WakeUpInv'
  <1>1. depth > 0 /\ Top \in Frame /\ TypeOK /\ TypeOK' /\ EveryActivation
    BY TopIsAFrame, WokenUpType DEF WokenUp, At, WakeUpInv, EveryActivation
  <1> DEFINE f == [Top EXCEPT !.ignoreWakeUps = TRUE,
                        !.pc = IF Top.poll THEN "handle" ELSE "afterObs"]
  <1>2. SetTop(f)
    BY DEF WokenUp
  <1>3. Top' = f /\ depth' = depth
    BY <1>1, <1>2, SetTopEffect
  <1>4. /\ OnTheWayToSleep(f) => ~f.ignoreWakeUps
        /\ f.pc \in {"mainQueue", "source1"} => f.afterBlocks = "decide"
    BY <1>1, TopOfEvery DEF WokenUp, At, OnTheWayToSleep, BlockPCs, SleepPCs, Frame
  <1>5. EveryActivation'
    BY <1>1, <1>2, <1>4, EveryActivationStep
  <1>6. ~NoWakeUpToCome'
    BY <1>1, <1>3, <1>4, TopOfEvery DEF NoWakeUpToCome, WakeUpPending, OnTheWayToSleep, BlockPCs, SleepPCs, Frame, WokenUp, At
  <1> QED
    BY <1>1, <1>5, <1>6, NothingMissed DEF WakeUpInv, EveryActivation

LEMMA HandleMessageWake == ASSUME WakeUpInv, HandleMessage PROVE WakeUpInv'
  <1>1. depth > 0 /\ Top \in Frame /\ TypeOK /\ TypeOK' /\ EveryActivation
    BY TopIsAFrame, HandleMessageType DEF HandleMessage, At, WakeUpInv, EveryActivation
  <1> DEFINE f == [Top EXCEPT !.ignoreWakeUps = TRUE, !.afterBlocks = "decide", !.pc = Callee]
  <1>2. SetTop(f)
    BY DEF HandleMessage
  <1>3. Top' = f /\ depth' = depth
    BY <1>1, <1>2, SetTopEffect
  <1>4. /\ OnTheWayToSleep(f) => ~f.ignoreWakeUps
        /\ f.pc \in {"mainQueue", "source1"} => f.afterBlocks = "decide"
    BY <1>1, TopOfEvery DEF HandleMessage, At, OnTheWayToSleep, BlockPCs, SleepPCs, Frame, Callee
  <1>5. EveryActivation'
    BY <1>1, <1>2, <1>4, EveryActivationStep
  <1>6. ~NoWakeUpToCome'
    BY <1>1, <1>3, <1>4, TopOfEvery DEF NoWakeUpToCome, WakeUpPending, OnTheWayToSleep, BlockPCs, SleepPCs, Frame, HandleMessage, At, Callee
  <1> QED
    BY <1>1, <1>5, <1>6, NothingMissed DEF WakeUpInv, EveryActivation

LEMMA MainQueueReturnsWake == ASSUME WakeUpInv, MainQueueReturns PROVE WakeUpInv'
  <1>1. depth > 0 /\ Top \in Frame /\ TypeOK /\ TypeOK' /\ EveryActivation
    BY TopIsAFrame, MainQueueReturnsType DEF MainQueueReturns, At, WakeUpInv, EveryActivation
  <1> DEFINE f == [Top EXCEPT !.sourceHandled = TRUE, !.served = TRUE,
                        !.didDispatchPortLastTime = TRUE, !.pc = "doBlocks"]
  <1>2. SetTop(f)
    BY DEF MainQueueReturns
  <1>3. Top' = f /\ depth' = depth
    BY <1>1, <1>2, SetTopEffect
  <1>4. /\ OnTheWayToSleep(f) => ~f.ignoreWakeUps
        /\ f.pc \in {"mainQueue", "source1"} => f.afterBlocks = "decide"
    BY <1>1, TopOfEvery DEF MainQueueReturns, At, OnTheWayToSleep, BlockPCs, SleepPCs, Frame
  <1>5. EveryActivation'
    BY <1>1, <1>2, <1>4, EveryActivationStep
  <1>6. ~NoWakeUpToCome'
    BY <1>1, <1>3, <1>4, TopOfEvery DEF NoWakeUpToCome, WakeUpPending, OnTheWayToSleep, BlockPCs, SleepPCs, Frame, MainQueueReturns, At
  <1> QED
    BY <1>1, <1>5, <1>6, NothingMissed DEF WakeUpInv, EveryActivation

LEMMA Source1ReturnsWake == ASSUME WakeUpInv, Source1Returns PROVE WakeUpInv'
  <1>1. depth > 0 /\ Top \in Frame /\ TypeOK /\ TypeOK' /\ EveryActivation
    BY TopIsAFrame, Source1ReturnsType DEF Source1Returns, At, WakeUpInv, EveryActivation
  <1> DEFINE f == [Top EXCEPT !.sourceHandled = TRUE, !.served = TRUE, !.pc = "doBlocks"]
  <1>2. SetTop(f)
    BY DEF Source1Returns
  <1>3. Top' = f /\ depth' = depth
    BY <1>1, <1>2, SetTopEffect
  <1>4. /\ OnTheWayToSleep(f) => ~f.ignoreWakeUps
        /\ f.pc \in {"mainQueue", "source1"} => f.afterBlocks = "decide"
    BY <1>1, TopOfEvery DEF Source1Returns, At, OnTheWayToSleep, BlockPCs, SleepPCs, Frame
  <1>5. EveryActivation'
    BY <1>1, <1>2, <1>4, EveryActivationStep
  <1>6. ~NoWakeUpToCome'
    BY <1>1, <1>3, <1>4, TopOfEvery DEF NoWakeUpToCome, WakeUpPending, OnTheWayToSleep, BlockPCs, SleepPCs, Frame, Source1Returns, At
  <1> QED
    BY <1>1, <1>5, <1>6, NothingMissed DEF WakeUpInv, EveryActivation

LEMMA DetachBlocksWake == ASSUME WakeUpInv, DetachBlocks PROVE WakeUpInv'
  <1>1. depth > 0 /\ Top \in Frame /\ TypeOK /\ TypeOK' /\ EveryActivation
    BY TopIsAFrame, DetachBlocksType DEF DetachBlocks, At, WakeUpInv, EveryActivation
  <1> DEFINE f == IF queue = <<>> THEN [Top EXCEPT !.pc = Top.afterBlocks]
                  ELSE [Top EXCEPT !.detached = queue, !.pc = "blockList"]
  <1>2. SetTop(f)
    BY DEF DetachBlocks
  <1>3. Top' = f /\ depth' = depth
    BY <1>1, <1>2, SetTopEffect
  <1>4. /\ OnTheWayToSleep(f) => ~f.ignoreWakeUps
        /\ f.pc \in {"mainQueue", "source1"} => f.afterBlocks = "decide"
    BY <1>1, TopOfEvery DEF DetachBlocks, At, OnTheWayToSleep, BlockPCs, SleepPCs, Frame
  <1>5. EveryActivation'
    BY <1>1, <1>2, <1>4, EveryActivationStep
  <1>6. NoStopMissed'
    BY <1>1, <1>3 DEF WakeUpInv, NoStopMissed, DetachBlocks, At, Frame,
       NoWakeUpToCome, WakeUpPending, OnTheWayToSleep, BlockPCs, SleepPCs
  <1>7. NoTimeoutMissed'
    BY <1>1, <1>3 DEF WakeUpInv, NoTimeoutMissed, DetachBlocks, At, Frame,
       NoWakeUpToCome, WakeUpPending, OnTheWayToSleep, BlockPCs, SleepPCs
  <1>8. NoBlockMissed'
    BY DEF NoBlockMissed, DetachBlocks
  <1>9. NoSourceMissed'
    <2>1. SignaledHere' = SignaledHere
      BY <1>1, <1>3 DEF SignaledHere, DetachBlocks, Frame
    <2> QED
      BY <2>1, <1>1, <1>3 DEF WakeUpInv, NoSourceMissed, DetachBlocks, At, Frame,
         NoWakeUpToCome, WakeUpPending, OnTheWayToSleep, BlockPCs, SleepPCs
  <1> QED
    BY <1>1, <1>5, <1>6, <1>7, <1>8, <1>9 DEF WakeUpInv, EveryActivation

LEMMA PerformNextWake == ASSUME WakeUpInv, PerformNext PROVE WakeUpInv'
  <1>1. depth > 0 /\ Top \in Frame /\ TypeOK /\ TypeOK' /\ EveryActivation
    BY TopIsAFrame, PerformNextType DEF PerformNext, At, WakeUpInv, EveryActivation
  <1>0. PICK i \in DOMAIN Top.detached :
          SetTop([Top EXCEPT !.pc = "block",
                    !.detached = SubSeq(@, 1, i - 1) \o SubSeq(@, i + 1, Len(@))])
    BY DEF PerformNext
  <1> DEFINE rest == SubSeq(Top.detached, 1, i - 1) \o SubSeq(Top.detached, i + 1, Len(Top.detached))
             f == [Top EXCEPT !.pc = "block", !.detached = rest]
  <1> HIDE DEF rest
  <1>2. SetTop(f)
    BY <1>0 DEF rest
  <1>3. Top' = f /\ depth' = depth
    BY <1>1, <1>2, SetTopEffect
  <1>4. /\ OnTheWayToSleep(f) => ~f.ignoreWakeUps
        /\ f.pc \in {"mainQueue", "source1"} => f.afterBlocks = "decide"
    BY <1>1, TopOfEvery DEF PerformNext, At, OnTheWayToSleep, BlockPCs, SleepPCs, Frame
  <1>5. EveryActivation'
    BY <1>1, <1>2, <1>4, EveryActivationStep
  <1>6. NoStopMissed'
    BY <1>1, <1>3 DEF WakeUpInv, NoStopMissed, PerformNext, At, Frame,
       NoWakeUpToCome, WakeUpPending, OnTheWayToSleep, BlockPCs, SleepPCs
  <1>7. NoTimeoutMissed'
    BY <1>1, <1>3 DEF WakeUpInv, NoTimeoutMissed, PerformNext, At, Frame,
       NoWakeUpToCome, WakeUpPending, OnTheWayToSleep, BlockPCs, SleepPCs
  <1>8. NoBlockMissed'
    <2>1. NoWakeUpToCome' /\ BlocksLookedAt' => NoWakeUpToCome /\ BlocksLookedAt
      BY <1>1, <1>3 DEF BlocksLookedAt, PerformNext, At, Frame,
         NoWakeUpToCome, WakeUpPending, OnTheWayToSleep, BlockPCs, SleepPCs
    <2>2. queue' = queue /\ Top'.mode = Top.mode
      BY <1>1, <1>3 DEF PerformNext, Frame
    <2> QED
      BY <2>1, <2>2 DEF WakeUpInv, NoBlockMissed, RunsIn
  <1>9. NoSourceMissed'
    BY <1>1, <1>3 DEF WakeUpInv, NoSourceMissed, SignaledHere, PerformNext, At, Frame,
       NoWakeUpToCome, WakeUpPending, OnTheWayToSleep, BlockPCs, SleepPCs
  <1> QED
    BY <1>1, <1>5, <1>6, <1>7, <1>8, <1>9 DEF WakeUpInv, EveryActivation

LEMMA ReattachBlocksWake == ASSUME WakeUpInv, ReattachBlocks PROVE WakeUpInv'
  <1>1. depth > 0 /\ Top \in Frame /\ TypeOK /\ TypeOK' /\ EveryActivation
    BY TopIsAFrame, ReattachBlocksType DEF ReattachBlocks, At, WakeUpInv, EveryActivation
  <1> DEFINE f == [Top EXCEPT !.detached = <<>>, !.pc = Top.afterBlocks]
  <1>2. SetTop(f)
    BY DEF ReattachBlocks
  <1>3. Top' = f /\ depth' = depth
    BY <1>1, <1>2, SetTopEffect
  <1>4. /\ OnTheWayToSleep(f) => ~f.ignoreWakeUps
        /\ f.pc \in {"mainQueue", "source1"} => f.afterBlocks = "decide"
    BY <1>1, TopOfEvery DEF ReattachBlocks, At, OnTheWayToSleep, BlockPCs, SleepPCs, Frame
  <1>5. EveryActivation'
    BY <1>1, <1>2, <1>4, EveryActivationStep
  <1>6. NoStopMissed'
    BY <1>1, <1>3 DEF WakeUpInv, NoStopMissed, ReattachBlocks, At, Frame,
       NoWakeUpToCome, WakeUpPending, OnTheWayToSleep, BlockPCs, SleepPCs
  <1>7. NoTimeoutMissed'
    BY <1>1, <1>3 DEF WakeUpInv, NoTimeoutMissed, ReattachBlocks, At, Frame,
       NoWakeUpToCome, WakeUpPending, OnTheWayToSleep, BlockPCs, SleepPCs
  <1>8. NoBlockMissed'
    <2>1. NoWakeUpToCome' => NoWakeUpToCome /\ BlocksLookedAt
      BY <1>1, <1>3 DEF BlocksLookedAt, ReattachBlocks, At, Frame,
         NoWakeUpToCome, WakeUpPending, OnTheWayToSleep, BlockPCs, SleepPCs
    <2>2. queue' = Top.detached \o queue /\ Top'.mode = Top.mode
      BY <1>1, <1>3 DEF ReattachBlocks, Reattached, Frame
    <2>3. Top.detached \in Seq(Blocks) /\ queue \in Seq(Blocks)
      BY <1>1 DEF Frame, TypeOK
    <2>4. ASSUME NEW i \in DOMAIN queue', NoWakeUpToCome'
          PROVE  ~RunsIn(queue'[i], Top.mode)
      <3>1. CASE i <= Len(Top.detached)
        BY <3>1, <2>2, <2>3, <2>4 DEF ReattachBlocks
      <3>2. CASE i > Len(Top.detached)
        <4>1. i - Len(Top.detached) \in DOMAIN queue /\ queue'[i] = queue[i - Len(Top.detached)]
          BY <3>2, <2>2, <2>3, <2>4
        <4> QED
          BY <4>1, <2>1, <2>4 DEF WakeUpInv, NoBlockMissed
      <3> QED
        BY <3>1, <3>2, <2>2, <2>3
    <2> QED
      BY <2>2, <2>4 DEF NoBlockMissed, RunsIn
  <1>9. NoSourceMissed'
    <2>1. SignaledHere' = SignaledHere
      BY <1>1, <1>3 DEF SignaledHere, ReattachBlocks, Frame
    <2> QED
      BY <2>1, <1>1, <1>3 DEF WakeUpInv, NoSourceMissed, ReattachBlocks, At, Frame,
         NoWakeUpToCome, WakeUpPending, OnTheWayToSleep, BlockPCs, SleepPCs
  <1> QED
    BY <1>1, <1>5, <1>6, <1>7, <1>8, <1>9 DEF WakeUpInv, EveryActivation

LEMMA DoSource0Wake == ASSUME WakeUpInv, DoSource0 PROVE WakeUpInv'
  <1>1. depth > 0 /\ Top \in Frame /\ TypeOK /\ TypeOK' /\ EveryActivation
    BY TopIsAFrame, DoSource0Type DEF DoSource0, At, WakeUpInv, EveryActivation
  <1>0. PICK s \in Top.collected :
          /\ signaled' = signaled \ {s}
          /\ IF s \in signaled /\ s \in valid
             THEN SetTop([Top EXCEPT !.collected = @ \ {s}, !.pc = "source0"])
             ELSE SetTop([Top EXCEPT !.collected = @ \ {s}, !.sourceHandled = FALSE])
    BY DEF DoSource0
  <1> DEFINE f == IF s \in signaled /\ s \in valid
                  THEN [Top EXCEPT !.collected = @ \ {s}, !.pc = "source0"]
                  ELSE [Top EXCEPT !.collected = @ \ {s}, !.sourceHandled = FALSE]
  <1>2. SetTop(f)
    BY <1>0
  <1>3. Top' = f /\ depth' = depth
    BY <1>1, <1>2, SetTopEffect
  <1>4. /\ OnTheWayToSleep(f) => ~f.ignoreWakeUps
        /\ f.pc \in {"mainQueue", "source1"} => f.afterBlocks = "decide"
    BY <1>1, TopOfEvery DEF DoSource0, At, OnTheWayToSleep, BlockPCs, SleepPCs, Frame
  <1>5. EveryActivation'
    BY <1>1, <1>2, <1>4, EveryActivationStep
  <1>6. NoStopMissed'
    BY <1>1, <1>3 DEF WakeUpInv, NoStopMissed, DoSource0, At, Frame,
       NoWakeUpToCome, WakeUpPending, OnTheWayToSleep, BlockPCs, SleepPCs
  <1>7. NoTimeoutMissed'
    BY <1>1, <1>3 DEF WakeUpInv, NoTimeoutMissed, DoSource0, At, Frame,
       NoWakeUpToCome, WakeUpPending, OnTheWayToSleep, BlockPCs, SleepPCs
  <1>8. NoBlockMissed'
    <2>1. NoWakeUpToCome' /\ BlocksLookedAt' => NoWakeUpToCome /\ BlocksLookedAt
      BY <1>1, <1>3 DEF BlocksLookedAt, DoSource0, At, Frame,
         NoWakeUpToCome, WakeUpPending, OnTheWayToSleep, BlockPCs, SleepPCs
    <2>2. queue' = queue /\ Top'.mode = Top.mode
      BY <1>1, <1>3 DEF DoSource0, Frame
    <2> QED
      BY <2>1, <2>2 DEF WakeUpInv, NoBlockMissed, RunsIn
  <1>9. NoSourceMissed'
    <2>1. SignaledHere' \subseteq SignaledHere \ {s}
      BY <1>0, <1>1, <1>3 DEF SignaledHere, DoSource0, Frame
    <2>2. NoWakeUpToCome' => NoWakeUpToCome
      BY <1>1, <1>3 DEF DoSource0, At, Frame, NoWakeUpToCome, WakeUpPending,
         OnTheWayToSleep, BlockPCs, SleepPCs
    <2>3. NoWakeUpToCome => SignaledHere \subseteq Top.collected
      BY <1>0 DEF WakeUpInv, NoSourceMissed, DoSource0, At
    <2>4. NoWakeUpToCome' => SignaledHere' \subseteq Top'.collected
      BY <1>1, <1>3, <2>1, <2>2, <2>3 DEF Frame
    <2>5. Top'.pc \in {"source0", "sourceList"}
      BY <1>1, <1>3 DEF DoSource0, At, Frame
    <2> QED
      BY <2>4, <2>5 DEF NoSourceMissed, SleepPCs, BlockPCs
  <1> QED
    BY <1>1, <1>5, <1>6, <1>7, <1>8, <1>9 DEF WakeUpInv, EveryActivation

LEMMA PollWake == ASSUME WakeUpInv, Poll PROVE WakeUpInv'
  <1>1. depth > 0 /\ Top \in Frame /\ TypeOK /\ TypeOK' /\ EveryActivation
    BY TopIsAFrame, PollType DEF Poll, At, WakeUpInv, EveryActivation
  <1> DEFINE f == IF ServesMainQueueFirst
                  THEN [Top EXCEPT !.poll = MustPoll, !.livePort = "dispatch", !.pc = "handle"]
                  ELSE [Top EXCEPT !.poll = MustPoll, !.livePort = "null",
                                   !.didDispatchPortLastTime = FALSE,
                                   !.pc = IF MustPoll THEN "sleep" ELSE "waitObs"]
  <1>2. SetTop(f)
    BY DEF Poll
  <1>3. Top' = f /\ depth' = depth
    BY <1>1, <1>2, SetTopEffect
  <1>4. /\ OnTheWayToSleep(f) => ~f.ignoreWakeUps
        /\ f.pc \in {"mainQueue", "source1"} => f.afterBlocks = "decide"
    BY <1>1, TopOfEvery DEF Poll, At, OnTheWayToSleep, BlockPCs, SleepPCs, Frame
  <1>5. EveryActivation'
    BY <1>1, <1>2, <1>4, EveryActivationStep
  <1>6. NoStopMissed'
    BY <1>1, <1>3 DEF WakeUpInv, NoStopMissed, Poll, At, Frame,
       NoWakeUpToCome, WakeUpPending, OnTheWayToSleep, BlockPCs, SleepPCs, MustPoll, ServesMainQueueFirst
  <1>7. NoTimeoutMissed'
    BY <1>1, <1>3 DEF WakeUpInv, NoTimeoutMissed, Poll, At, Frame,
       NoWakeUpToCome, WakeUpPending, OnTheWayToSleep, BlockPCs, SleepPCs, MustPoll, ServesMainQueueFirst
  <1>8. NoBlockMissed'
    <2>1. NoWakeUpToCome' /\ BlocksLookedAt' => NoWakeUpToCome /\ BlocksLookedAt
      BY <1>1, <1>3 DEF BlocksLookedAt, Poll, At, Frame,
         NoWakeUpToCome, WakeUpPending, OnTheWayToSleep, BlockPCs, SleepPCs, MustPoll, ServesMainQueueFirst
    <2>2. queue' = queue /\ Top'.mode = Top.mode
      BY <1>1, <1>3 DEF Poll, Frame, MustPoll, ServesMainQueueFirst
    <2> QED
      BY <2>1, <2>2 DEF WakeUpInv, NoBlockMissed, RunsIn
  <1>9. NoSourceMissed'
    BY <1>1, <1>3 DEF WakeUpInv, NoSourceMissed, SignaledHere, Poll, At, Frame,
       NoWakeUpToCome, WakeUpPending, OnTheWayToSleep, BlockPCs, SleepPCs, MustPoll, ServesMainQueueFirst
  <1> QED
    BY <1>1, <1>5, <1>6, <1>7, <1>8, <1>9 DEF WakeUpInv, EveryActivation

LEMMA ReceiveWake == ASSUME WakeUpInv, Receive PROVE WakeUpInv'
  <1>1. depth > 0 /\ Top \in Frame /\ TypeOK /\ TypeOK' /\ EveryActivation
    BY TopIsAFrame, ReceiveType DEF Receive, At, WakeUpInv, EveryActivation
  <1>0. PICK p : SetTop([Top EXCEPT !.livePort = p, !.pc = "woken"])
    BY DEF Receive
  <1> DEFINE f == [Top EXCEPT !.livePort = p, !.pc = "woken"]
  <1>2. SetTop(f)
    BY <1>0
  <1>3. Top' = f /\ depth' = depth
    BY <1>1, <1>2, SetTopEffect
  <1>4. ~OnTheWayToSleep(f) /\ f.pc \notin {"mainQueue", "source1"}
    BY <1>1 DEF OnTheWayToSleep, BlockPCs, SleepPCs, Frame
  <1>5. EveryActivation'
    BY <1>1, <1>2, <1>4, EveryActivationStep
  <1>6. ~NoWakeUpToCome'
    BY <1>1, <1>3, <1>4 DEF NoWakeUpToCome, OnTheWayToSleep, BlockPCs, SleepPCs, Frame
  <1> QED
    BY <1>1, <1>5, <1>6, NothingMissed DEF WakeUpInv, EveryActivation

\* An activation that returns is off its way to sleep, one that begins an
\* iteration accepts wake-ups.
LEMMA IterationEnds ==
  ASSUME TypeOK, TypeOK', depth > 0, EveryActivation,
         NEW f, SetTop(f), f \in Frame, f.pc = "exitObs"
  PROVE  WakeUpInv'
  <1>1. Top' = f /\ depth' = depth
    BY SetTopEffect
  <1>2. ~OnTheWayToSleep(f) /\ f.pc \notin {"mainQueue", "source1"}
    BY DEF OnTheWayToSleep, BlockPCs, SleepPCs
  <1>3. EveryActivation'
    BY <1>2, EveryActivationStep
  <1>4. ~NoWakeUpToCome'
    BY <1>1, <1>2 DEF NoWakeUpToCome, OnTheWayToSleep, BlockPCs, SleepPCs
  <1> QED
    BY <1>3, <1>4, NothingMissed DEF WakeUpInv, EveryActivation

LEMMA IterationBegins ==
  ASSUME TypeOK, TypeOK', depth > 0, EveryActivation,
         NEW f, SetTop(f), f \in Frame, f.pc = "timersObs", ~f.ignoreWakeUps,
         ~f.stopped, f.mode \notin modeStopped'
  PROVE  WakeUpInv'
  <1>1. Top' = f /\ depth' = depth
    BY SetTopEffect
  <1>2. EveryActivation'
    BY EveryActivationStep
  <1>3. NoStopMissed' /\ NoTimeoutMissed' /\ NoBlockMissed' /\ NoSourceMissed'
    BY <1>1 DEF NoStopMissed, NoTimeoutMissed, NoBlockMissed, BlocksLookedAt, NoSourceMissed,
       SleepPCs, BlockPCs
  <1> QED
    BY <1>2, <1>3 DEF WakeUpInv, EveryActivation

LEMMA EndOfBodyFields ==
  ASSUME TypeOK, depth > 0, NEW r \in Results
  PROVE  /\ Returning(r).pc = "exitObs" /\ [Returning(r) EXCEPT !.stopped = FALSE].pc = "exitObs"
         /\ NextIteration.pc = "timersObs" /\ ~NextIteration.ignoreWakeUps
         /\ NextIteration.stopped = Top.stopped /\ NextIteration.mode = Top.mode
  BY TopIsAFrame DEF Returning, NextIteration, EndOfBody, Frame

LEMMA DecideWake == ASSUME WakeUpInv, Decide PROVE WakeUpInv'
  <1>1. depth > 0 /\ TypeOK /\ TypeOK' /\ EveryActivation
    BY DecideType DEF Decide, At, WakeUpInv, EveryActivation
  <1>2. ASSUME NEW r \in Results,
               SetTop(Returning(r)) \/ SetTop([Returning(r) EXCEPT !.stopped = FALSE])
        PROVE  WakeUpInv'
    BY <1>1, <1>2, ReturningIsAFrame, EndOfBodyFields, IterationEnds
  <1>3. ASSUME SetTop(NextIteration), ~Top.stopped, Top.mode \notin modeStopped'
        PROVE  WakeUpInv'
    BY <1>1, <1>3, ReturningIsAFrame, EndOfBodyFields, IterationBegins DEF Results
  <1> QED
    BY <1>2, <1>3 DEF Decide, Results

LEMMA BeginWake == ASSUME WakeUpInv, Begin PROVE WakeUpInv'
  <1>1. depth > 0 /\ TypeOK /\ TypeOK' /\ EveryActivation
    BY BeginType DEF Begin, At, WakeUpInv, EveryActivation
  <1>2. ASSUME SetTop(Returning("Stopped"))
               \/ SetTop([Returning("Stopped") EXCEPT !.stopped = FALSE])
        PROVE  WakeUpInv'
    BY <1>1, <1>2, ReturningIsAFrame, EndOfBodyFields, IterationEnds DEF Results
  <1>3. ASSUME SetTop([NextIteration EXCEPT !.hasDispatchPort = MainQueueIsSafe(Top.mode)]),
               ~Top.stopped, Top.mode \notin modeStopped'
        PROVE  WakeUpInv'
    <2> DEFINE f == [NextIteration EXCEPT !.hasDispatchPort = MainQueueIsSafe(Top.mode)]
    <2>1. NextIteration \in Frame /\ MainQueueIsSafe(Top.mode) \in BOOLEAN
      BY <1>1, ReturningIsAFrame DEF Results, MainQueueIsSafe
    <2>2. f \in Frame /\ f.pc = "timersObs" /\ ~f.ignoreWakeUps
          /\ f.stopped = Top.stopped /\ f.mode = Top.mode
      BY <1>1, <2>1, EndOfBodyFields DEF Frame, Results
    <2> HIDE DEF f
    <2>3. SetTop(f)
      BY <1>3 DEF f
    <2> QED
      BY <1>1, <1>3, <2>2, <2>3, IterationBegins
  <1> QED
    BY <1>2, <1>3 DEF Begin

\* An activation that is popped leaves one in which it was nested.
LEMMA PopWake == ASSUME WakeUpInv, Pop PROVE WakeUpInv'
  <1>1. depth \in 1..MaxDepth /\ TypeOK /\ TypeOK' /\ EveryActivation
    BY RunsAssumption, PopType DEF Pop, At, WakeUpInv, EveryActivation, TypeOK
  <1>2. depth' = depth - 1 /\ \A d \in 1..depth' : frame'[d] = frame[d]
    BY <1>1 DEF Pop, TypeOK
  <1>3. WakeUpsAccepted' /\ CalledAfterSleep' /\ NestingIsNoted'
    BY <1>1, <1>2 DEF EveryActivation, WakeUpsAccepted, CalledAfterSleep, NestingIsNoted,
       OnTheWayToSleep
  <1>4. depth' > 0 => Top'.nested
    <2>1. depth' > 0 => depth - 1 \in 1..(depth - 1)
      BY <1>1, <1>2
    <2> QED
      BY <1>1, <1>2, <2>1 DEF EveryActivation, NestingIsNoted, Top
  <1>5. ~NoWakeUpToCome'
    BY <1>4 DEF NoWakeUpToCome
  <1> QED
    BY <1>1, <1>3, <1>5, NothingMissed DEF WakeUpInv, EveryActivation

LEMMA RunSpecificWake ==
  ASSUME WakeUpInv, NEW m \in Modes, NEW kind \in RunKinds, RunSpecific(m, kind)
  PROVE  WakeUpInv'
  <1>1. TypeOK /\ TypeOK' /\ EveryActivation /\ depth \in 0..MaxDepth
    BY RunSpecificType DEF WakeUpInv, EveryActivation, TypeOK
  <1>2. depth' = depth + 1 /\ depth' \in 1..MaxDepth
    BY <1>1, RunsAssumption DEF RunSpecific
  <1>3. frame'[depth'].pc = "entryObs"
    BY <1>2 DEF RunSpecific, NewFrame
  <1>4. ASSUME NEW d \in 1..depth
        PROVE  /\ d \in 1..MaxDepth /\ frame[d] \in Frame
               /\ frame'[d] = IF d = depth THEN [frame[d] EXCEPT !.nested = TRUE] ELSE frame[d]
    <2>1. d \in 1..MaxDepth /\ d # depth + 1
      BY <1>1, RunsAssumption
    <2> QED
      BY <2>1, <1>1 DEF RunSpecific, Top, TypeOK
  <1>5. ASSUME NEW d \in 1..depth
        PROVE  /\ frame'[d].ignoreWakeUps = frame[d].ignoreWakeUps
               /\ frame'[d].pc = frame[d].pc /\ frame'[d].afterBlocks = frame[d].afterBlocks
               /\ frame[d].nested \/ d = depth => frame'[d].nested
    BY <1>4, ZenonT(30) DEF OnTheWayToSleep, Frame
  <1>6. ~OnTheWayToSleep(frame'[depth'])
    BY <1>3 DEF OnTheWayToSleep, SleepPCs, BlockPCs
  <1>7. \A d \in 1..depth' : d \in 1..depth \/ d = depth'
    BY <1>1, <1>2
  <1>8. WakeUpsAccepted'
    BY <1>1, <1>5, <1>6, <1>7 DEF EveryActivation, WakeUpsAccepted, OnTheWayToSleep
  <1>9. CalledAfterSleep'
    BY <1>1, <1>3, <1>5, <1>7 DEF EveryActivation, CalledAfterSleep
  <1>10. NestingIsNoted'
    <2>1. ASSUME NEW d \in 1..depth PROVE d = depth \/ d \in 1..(depth - 1)
      BY <1>1
    <2>2. 1..(depth' - 1) = 1..depth
      BY <1>1, <1>2
    <2> QED
      BY <1>1, <1>5, <2>1, <2>2 DEF EveryActivation, NestingIsNoted
  <1>11. ~NoWakeUpToCome'
    BY <1>6 DEF NoWakeUpToCome, Top, OnTheWayToSleep
  <1> QED
    BY <1>1, <1>8, <1>9, <1>10, <1>11, NothingMissed DEF WakeUpInv, EveryActivation

\* The other threads.  One that leaves the loop something to do, or stops it,
\* is about to wake it up.
LEMMA SameActivations ==
  ASSUME EveryActivation, UNCHANGED loop PROVE EveryActivation'
  BY DEF EveryActivation, WakeUpsAccepted, CalledAfterSleep, NestingIsNoted, OnTheWayToSleep

LEMMA WakeUpIsPending ==
  ASSUME TypeOK, NEW t \in Threads, WillWakeUp(t)
  PROVE  ~NoWakeUpToCome'
  BY DEF WillWakeUp, TypeOK, NoWakeUpToCome, WakeUpPending

\* Setting the limit of one activation changes none of EveryActivation.
LEMMA SameButTerm ==
  ASSUME TypeOK, EveryActivation, NEW d \in 1..MaxDepth, NEW x,
         frame' = [frame EXCEPT ![d].termTSR = x], depth' = depth
  PROVE  EveryActivation'
  <1>0. depth \in 0..MaxDepth
    BY DEF TypeOK
  <1>1. ASSUME NEW e \in 1..depth
        PROVE  /\ OnTheWayToSleep(frame'[e]) = OnTheWayToSleep(frame[e])
               /\ frame'[e].ignoreWakeUps = frame[e].ignoreWakeUps
               /\ frame'[e].pc = frame[e].pc /\ frame'[e].afterBlocks = frame[e].afterBlocks
               /\ frame'[e].nested = frame[e].nested
    <2>1. e \in 1..MaxDepth /\ frame[e] \in Frame
      BY <1>0, RunsAssumption DEF TypeOK
    <2>2. frame'[e] = IF e = d THEN [frame[e] EXCEPT !.termTSR = x] ELSE frame[e]
      BY <2>1 DEF TypeOK
    <2> QED
      BY <2>1, <2>2 DEF OnTheWayToSleep, Frame
  <1>2. 1..(depth - 1) \subseteq 1..depth
    BY <1>0
  <1> QED
    BY <1>1, <1>2 DEF EveryActivation, WakeUpsAccepted, CalledAfterSleep, NestingIsNoted,
       OnTheWayToSleep

\* Fewer signaled sources and no other change: nothing is missed.
LEMMA FewerSources ==
  ASSUME WakeUpInv, TypeOK', UNCHANGED <<loop, blocks, modeStopped>>,
         WakeUpPending => WakeUpPending',
         depth > 0 => SignaledHere' \subseteq SignaledHere
  PROVE  WakeUpInv'
  <1>1. EveryActivation'
    BY SameActivations DEF WakeUpInv, EveryActivation
  <1>2. NoWakeUpToCome' => NoWakeUpToCome /\ SignaledHere' \subseteq SignaledHere
    BY DEF NoWakeUpToCome, OnTheWayToSleep, Top
  <1>3. Top' = Top /\ BlocksLookedAt' = BlocksLookedAt
    BY DEF Top, BlocksLookedAt
  <1>4. NoStopMissed' /\ NoTimeoutMissed'
    BY <1>2, <1>3 DEF WakeUpInv, NoStopMissed, NoTimeoutMissed
  <1>5. NoBlockMissed'
    BY <1>2, <1>3 DEF WakeUpInv, NoBlockMissed, RunsIn
  <1>6. NoSourceMissed'
    BY <1>2, <1>3 DEF WakeUpInv, NoSourceMissed
  <1> QED
    BY <1>1, <1>4, <1>5, <1>6 DEF WakeUpInv, EveryActivation

LEMMA InvalidateSourceWake ==
  ASSUME WakeUpInv, NEW t \in Threads, NEW s \in Sources, InvalidateSource(t, s), TypeOK'
  PROVE  WakeUpInv'
  <1>1. WakeUpPending => WakeUpPending'
    BY DEF InvalidateSource, WakeUpPending, WakeUpInv, TypeOK
  <1>2. SignaledHere' \subseteq SignaledHere
    BY DEF InvalidateSource, SignaledHere, Top
  <1> QED
    BY <1>1, <1>2, FewerSources DEF InvalidateSource

LEMMA RemoveFromRunLoopWake ==
  ASSUME WakeUpInv, NEW t \in Threads, RemoveFromRunLoop(t), TypeOK'
  PROVE  WakeUpInv'
  <1>1. WakeUpPending => WakeUpPending'
    <2>1. doing[t] # "wake"
      BY SourcesAssumption DEF RemoveFromRunLoop
    <2> QED
      BY <2>1 DEF RemoveFromRunLoop, WakeUpPending, WakeUpInv, TypeOK
  <1>2. depth > 0 => SignaledHere' \subseteq SignaledHere
    <2>1. depth > 0 => Top.mode \in Modes
      BY TopIsAFrame DEF WakeUpInv, Frame
    <2> QED
      BY <2>1 DEF RemoveFromRunLoop, SignaledHere, Top
  <1> QED
    BY <1>1, <1>2, FewerSources DEF RemoveFromRunLoop

LEMMA GiveWake ==
  ASSUME WakeUpInv, NEW t \in Threads, Give(t) PROVE WakeUpInv'
  <1>1. TypeOK /\ TypeOK' /\ EveryActivation
    BY GiveType DEF WakeUpInv, EveryActivation
  <1>2. ASSUME WillWakeUp(t), EveryActivation' PROVE WakeUpInv'
    BY <1>1, <1>2, WakeUpIsPending, NothingMissed DEF WakeUpInv, EveryActivation
  <1>3. ASSUME NEW b \in Blocks, PerformBlock(t, b) PROVE WakeUpInv'
    BY <1>1, <1>2, <1>3, SameActivations DEF PerformBlock
  <1>4. CASE Stop(t)
    <2>1. Top \in Frame /\ depth > 0 /\ SetTop([Top EXCEPT !.stopped = TRUE])
      BY <1>1, <1>4, TopIsAFrame DEF Stop
    <2> DEFINE f == [Top EXCEPT !.stopped = TRUE]
    <2>2. /\ OnTheWayToSleep(f) => ~f.ignoreWakeUps
          /\ f.pc \in {"mainQueue", "source1"} => f.afterBlocks = "decide"
      BY <1>1, <2>1, TopOfEvery DEF OnTheWayToSleep, BlockPCs, SleepPCs, Frame
    <2>3. EveryActivation'
      BY <1>1, <2>1, <2>2, EveryActivationStep
    <2> QED
      BY <1>2, <1>4, <2>3 DEF Stop
  <1>5. ASSUME NEW m \in Modes, StopMode(t, m) PROVE WakeUpInv'
    BY <1>1, <1>2, <1>5, SameActivations DEF StopMode
  <1>6. ASSUME NEW s \in Sources0, SignalSource(t, s) PROVE WakeUpInv'
    BY <1>1, <1>2, <1>6, SameActivations DEF SignalSource
  <1>7. ASSUME NEW s \in Sources, InvalidateSource(t, s) PROVE WakeUpInv'
    BY <1>1, <1>7, InvalidateSourceWake
  <1>8. ASSUME NEW d \in 1..MaxDepth, TimeoutFires(t, d) PROVE WakeUpInv'
    BY <1>1, <1>2, <1>8, SameButTerm DEF TimeoutFires
  <1> QED
    BY <1>3, <1>4, <1>5, <1>6, <1>7, <1>8 DEF Give

\* CFRunLoopWakeUp is in vain only when the loop is not on its way to sleep.
LEMMA WakeUpWake ==
  ASSUME WakeUpInv, NEW t \in Threads, WakeUp(t) PROVE WakeUpInv'
  <1>1. TypeOK /\ TypeOK' /\ EveryActivation /\ EveryActivation'
    BY SameActivations DEF WakeUp, WakeUpInv, EveryActivation, TypeOK
  <1>2. ~NoWakeUpToCome'
    <2>1. CASE ~IgnoringWakeUps
      BY <2>1 DEF WakeUp, NoWakeUpToCome, WakeUpPending
    <2>2. CASE depth = 0
      BY <2>2 DEF WakeUp, NoWakeUpToCome
    <2>3. CASE depth > 0 /\ IgnoringWakeUps
      <3>1. ~OnTheWayToSleep(Top)
        BY <1>1, <2>3, TopOfEvery DEF IgnoringWakeUps
      <3> QED
        BY <3>1 DEF WakeUp, NoWakeUpToCome, OnTheWayToSleep, Top
    <2> QED
      BY <1>1, <2>1, <2>2, <2>3 DEF TypeOK
  <1> QED
    BY <1>1, <1>2, NothingMissed DEF WakeUpInv, EveryActivation

LEMMA OutsideWake == ASSUME WakeUpInv, Outside PROVE WakeUpInv'
  <1>1. TypeOK /\ TypeOK' /\ EveryActivation
    BY OutsideType DEF WakeUpInv, EveryActivation
  <1>2. ASSUME NEW d \in 1..MaxDepth, DeadlinePasses(d) PROVE WakeUpInv'
    <2>1. EveryActivation'
      BY <1>1, <1>2, SameButTerm DEF DeadlinePasses
    <2>2. ASSUME depth > 0
          PROVE  /\ Top'.pc = Top.pc /\ Top'.mode = Top.mode /\ Top'.stopped = Top.stopped
                 /\ Top'.poll = Top.poll /\ Top'.afterBlocks = Top.afterBlocks
                 /\ Top'.collected = Top.collected /\ Top'.sourceHandled = Top.sourceHandled
                 /\ Top'.nested = Top.nested
                 /\ Top'.termTSR = "fired" => Top.termTSR = "fired"
      <3>1. depth \in 1..MaxDepth /\ Top \in Frame
        BY <1>1, <2>2, TopIsAFrame DEF TypeOK
      <3>2. Top' = IF d = depth THEN [Top EXCEPT !.termTSR = "past"] ELSE Top
        BY <1>1, <1>2, <3>1 DEF DeadlinePasses, Top, TypeOK
      <3> QED
        BY <3>1, <3>2 DEF Frame
    <2>3. NoWakeUpToCome' => NoWakeUpToCome /\ depth > 0
      BY <1>2, <2>2 DEF DeadlinePasses, NoWakeUpToCome, OnTheWayToSleep, WakeUpPending
    <2>4. UNCHANGED <<sources, blocks, modeStopped>>
      BY <1>2 DEF DeadlinePasses
    <2>5. NoStopMissed' /\ NoTimeoutMissed'
      BY <2>2, <2>3, <2>4 DEF WakeUpInv, NoStopMissed, NoTimeoutMissed
    <2>6. NoBlockMissed'
      BY <2>2, <2>3, <2>4 DEF WakeUpInv, NoBlockMissed, RunsIn, BlocksLookedAt
    <2>7. NoSourceMissed'
      BY <2>2, <2>3, <2>4 DEF WakeUpInv, NoSourceMissed, SignaledHere
    <2> QED
      BY <1>1, <2>1, <2>5, <2>6, <2>7 DEF WakeUpInv, EveryActivation
  <1>3. ASSUME NEW s \in Sources1, MessageArrives(s) PROVE WakeUpInv'
    BY <1>1, <1>3, FewerSources DEF MessageArrives, SignaledHere, Top, WakeUpPending
  <1>4. CASE MainQueueEnqueue
    BY <1>1, <1>4, FewerSources DEF MainQueueEnqueue, SignaledHere, Top, WakeUpPending
  <1> QED
    BY <1>2, <1>3, <1>4 DEF Outside

LEMMA InitWake == Init => WakeUpInv
  <1> SUFFICES ASSUME Init PROVE WakeUpInv
    OBVIOUS
  <1>1. EveryActivation
    BY DEF Init, EveryActivation, WakeUpsAccepted, CalledAfterSleep, NestingIsNoted
  <1>2. ~NoWakeUpToCome
    BY DEF Init, NoWakeUpToCome
  <1> QED
    BY <1>1, <1>2, InitType DEF WakeUpInv, EveryActivation, NoStopMissed, NoTimeoutMissed,
       NoBlockMissed, NoSourceMissed

LEMMA WakeUpStep == WakeUpInv /\ [Next]_vars => WakeUpInv'
  <1> SUFFICES ASSUME WakeUpInv, [Next]_vars PROVE WakeUpInv'
    OBVIOUS
  <1>1. TypeOK'
    BY TypeStep DEF WakeUpInv
  <1>2. CASE Step
    BY <1>2, ObserversReturnWake, BeginWake, DetachBlocksWake, PerformNextWake,
       BlockReturnsWake, ReattachBlocksWake, CollectSources0Wake, DoSource0Wake,
       Source0ReturnsWake, Sources0DoneWake, PollWake, SleepWake, ReceiveWake,
       WokenUpWake, HandleMessageWake, MainQueueReturnsWake, Source1ReturnsWake,
       DecideWake, PopWake DEF Step
  <1>3. CASE Run
    BY <1>3, RunSpecificWake DEF Run
  <1>4. ASSUME NEW t \in Threads, Give(t) PROVE WakeUpInv'
    BY <1>4, GiveWake
  <1>5. ASSUME NEW t \in Threads, RemoveFromRunLoop(t) PROVE WakeUpInv'
    BY <1>1, <1>5, RemoveFromRunLoopWake
  <1>6. ASSUME NEW t \in Threads, WakeUp(t) PROVE WakeUpInv'
    BY <1>6, WakeUpWake
  <1>7. CASE Outside
    BY <1>7, OutsideWake
  <1>8. CASE UNCHANGED vars
    BY <1>1, <1>8, FewerSources DEF vars, SignaledHere, Top, WakeUpPending
  <1> QED
    BY <1>2, <1>3, <1>4, <1>5, <1>6, <1>7, <1>8 DEF Next

\* WakeUpInv is what a loop that has no wake-up to come has looked at.
LEMMA WakeUpInvSuffices == WakeUpInv => WakeUpsReachTheSleeper
  <1> SUFFICES ASSUME WakeUpInv, SleepsInVain, ~Top.nested PROVE FALSE
    BY DEF WakeUpsReachTheSleeper
  <1>1. NoWakeUpToCome /\ Top.pc = "asleep" /\ ~Top.poll
    BY DEF SleepsInVain, NoWakeUpToCome, At, OnTheWayToSleep, SleepPCs
  <1>2. SignaledHere = {} /\ ~Top.stopped /\ Top.mode \notin modeStopped
        /\ Top.termTSR # "fired" /\ \A i \in DOMAIN queue : ~RunsIn(queue[i], Top.mode)
    BY <1>1 DEF WakeUpInv, NoStopMissed, NoTimeoutMissed, NoBlockMissed, BlocksLookedAt,
       NoSourceMissed, SleepPCs
  <1> QED
    BY <1>2 DEF SleepsInVain, HasWork, SignaledHere

\* A loop that sleeps without a wake-up to come has nothing to do for the
\* threads that called into it, unless an activation nested in this iteration
\* took the wake-up: CFRunLoopWakeUp, _per_run_data's ignoreWakeUps and the
\* order in which an iteration looks at its work see to that, for any number
\* of threads, sources, blocks and nested activations.
THEOREM WakeUpCorrect == Spec => []WakeUpsReachTheSleeper
  <1>1. Spec => []WakeUpInv
    BY InitWake, WakeUpStep, PTL DEF Spec
  <1> QED
    BY <1>1, WakeUpInvSuffices, PTL

----------------------------------------------------------------------------
(* The blocks given to a run loop: none is lost or performed twice          *)
(* (RunLoop implements BlockWork), and they run in the order in which they *)
(* were enqueued.  BlocksInv is inductive.                                 *)

(* The lists. *)

LEMMA HeldType ==
  ASSUME TypeOK, NEW d \in Lists
  PROVE  Held[d] \in Seq(Blocks)
  <1>1. CASE d = MaxDepth + 1
    BY <1>1 DEF Held, TypeOK
  <1>2. CASE d # MaxDepth + 1
    <2>1. d \in 1..MaxDepth
      BY <1>2, RunsAssumption DEF Lists
    <2> QED
      BY <1>2, <2>1 DEF Held, TypeOK, Frame
  <1> QED
    BY <1>1, <1>2

LEMMA HeldByLists ==
  ASSUME TypeOK
  PROVE  /\ Held[MaxDepth + 1] = queue
         /\ \A d \in 1..MaxDepth : d \in Lists /\ d # MaxDepth + 1 /\ Held[d] = frame[d].detached
         /\ \A d \in Lists : d = MaxDepth + 1 \/ d \in 1..MaxDepth
         /\ MaxDepth + 1 \in Lists
  BY RunsAssumption DEF Held, Lists

LEMMA PendingIsHeld ==
  ASSUME TypeOK, NEW b
  PROVE  b \in PendingBlocks <=> \E d \in Lists : \E i \in DOMAIN Held[d] : Held[d][i] = b
  BY HeldByLists DEF PendingBlocks

\* The order of enqueueing is one: it does not go back.
LEMMA OrderIsStrict ==
  ASSUME EnqueuedOnce, TypeOK, NEW i \in DOMAIN enqueued, NEW k \in DOMAIN enqueued, i <= k
  PROVE  ~Before(enqueued[k], enqueued[i])
  BY DEF Before, EnqueuedOnce, TypeOK

LEMMA NotBeforeItself == ASSUME EnqueuedOnce, TypeOK, NEW b PROVE ~Before(b, b)
  BY DEF Before, EnqueuedOnce, TypeOK

\* A list without one of its elements, put together from what is before and
\* after it.
LEMMA JoinedAround ==
  ASSUME NEW s \in Seq(Blocks), NEW x \in 1..Len(s), 
         NEW a \in Seq(Blocks), Len(a) = x - 1, \A j \in 1..(x - 1) : a[j] = s[j],
         NEW b \in Seq(Blocks), Len(b) = Len(s) - x, \A j \in 1..(Len(s) - x) : b[j] = s[x + j]
  PROVE  /\ a \o b \in Seq(Blocks) /\ Len(a \o b) = Len(s) - 1
         /\ \A j \in DOMAIN (a \o b) : (a \o b)[j] = IF j < x THEN s[j] ELSE s[j + 1]
  <1>0. x \in Int /\ 1 <= x /\ x <= Len(s) /\ Len(s) \in Nat
    OBVIOUS
  <1>1. a \o b \in Seq(Blocks) /\ Len(a \o b) = Len(s) - 1
    <2>1. a \o b \in Seq(Blocks) /\ Len(a \o b) = Len(a) + Len(b)
      BY ONLY a \in Seq(Blocks), b \in Seq(Blocks), ConcatProperties
    <2>2. (x - 1) + (Len(s) - x) = Len(s) - 1
      BY <1>0
    <2> QED
      BY <2>1, <2>2
  <1>2. ASSUME NEW j \in 1..(Len(s) - 1) PROVE (a \o b)[j] = IF j < x THEN s[j] ELSE s[j + 1]
    <2>0. j \in Int /\ 1 <= j /\ j <= Len(s) - 1
      BY <1>0
    <2>1. CASE j < x
      BY <1>0, <2>0, <2>1
    <2>2. CASE ~(j < x)
      <3>1. (a \o b)[j] = b[j - (x - 1)]
        BY <1>0, <2>0, <2>2
      <3>2. b[j - (x - 1)] = s[x + (j - (x - 1))]
        BY <1>0, <2>0, <2>2
      <3>3. x + (j - (x - 1)) = j + 1
        BY <1>0, <2>0
      <3> QED
        BY <2>2, <3>1, <3>2, <3>3
    <2> QED
      BY <2>1, <2>2
  <1>3. DOMAIN (a \o b) = 1..(Len(s) - 1)
    BY <1>1
  <1> QED
    BY <1>1, <1>2, <1>3

LEMMA WithoutOne ==
  ASSUME NEW s \in Seq(Blocks), NEW x \in 1..Len(s)
  PROVE  LET r == SubSeq(s, 1, x - 1) \o SubSeq(s, x + 1, Len(s)) IN
         /\ r \in Seq(Blocks) /\ Len(r) = Len(s) - 1
         /\ \A j \in DOMAIN r : r[j] = IF j < x THEN s[j] ELSE s[j + 1]
  <1> DEFINE a == SubSeq(s, 1, x - 1)
             b == SubSeq(s, x + 1, Len(s))
  <1>1. x \in Int /\ 1 <= x /\ x <= Len(s) /\ Len(s) \in Nat
    OBVIOUS
  <1>2. a \in Seq(Blocks) /\ Len(a) = x - 1 /\ \A j \in 1..(x - 1) : a[j] = s[j]
    BY <1>1
  <1>3. b \in Seq(Blocks) /\ Len(b) = Len(s) - x /\ \A j \in 1..(Len(s) - x) : b[j] = s[x + j]
    BY <1>1
  <1> HIDE DEF a, b
  <1>4. /\ a \o b \in Seq(Blocks) /\ Len(a \o b) = Len(s) - 1
        /\ \A j \in DOMAIN (a \o b) : (a \o b)[j] = IF j < x THEN s[j] ELSE s[j + 1]
    BY <1>2, <1>3, JoinedAround
  <1> QED
    BY <1>4 DEF a, b

----------------------------------------------------------------------------
(* Steps that leave the lists alone. *)

Quiet == BlocksInv' /\ PendingBlocks' = PendingBlocks /\ DoneBlocks' = DoneBlocks

LEMMA SameLists ==
  ASSUME BlocksInv, TypeOK', queue' = queue, enqueued' = enqueued, performed' = performed,
         \A d \in 1..MaxDepth : frame'[d].detached = frame[d].detached,
         TakenWithinDoBlocks'
  PROVE  Quiet
  <1>1. \A d \in Lists : Held'[d] = Held[d]
    BY RunsAssumption DEF Held, Lists
  <1>2. HeldInOrder'
    BY <1>1 DEF BlocksInv, HeldInOrder, Before
  <1>3. PendingBlocks' = PendingBlocks /\ DoneBlocks' = DoneBlocks
    BY DEF PendingBlocks, DoneBlocks
  <1>4. EnqueuedOnce' /\ HeldOrDone'
    BY <1>3 DEF BlocksInv, EnqueuedOnce, HeldOrDone
  <1> QED
    BY <1>2, <1>3, <1>4 DEF Quiet, BlocksInv

\* Outside __CFRunLoopDoBlocks an activation has no list, and keeps none.
LEMMA SetTopQuiet ==
  ASSUME BlocksInv, TypeOK', depth > 0, NEW f, SetTop(f), f.detached = Top.detached,
         Top.pc \notin {"blockList", "block"} \/ f.pc \in {"blockList", "block"},
         queue' = queue, enqueued' = enqueued, performed' = performed
  PROVE  Quiet
  <1>1. /\ depth' = depth /\ depth \in 1..MaxDepth /\ frame'[depth] = f /\ Top = frame[depth]
        /\ \A d \in 1..MaxDepth : d # depth => frame'[d] = frame[d]
    BY RunsAssumption DEF BlocksInv, TypeOK, SetTop, Top
  <1>2. TakenWithinDoBlocks'
    BY <1>1 DEF BlocksInv, TakenWithinDoBlocks
  <1> QED
    BY <1>1, <1>2, SameLists

----------------------------------------------------------------------------
(* __CFRunLoopDoBlocks and CFRunLoopPerformBlock. *)

LEMMA DetachBlocksKeeps == ASSUME BlocksInv, TypeOK', DetachBlocks PROVE Quiet
  <1>1. /\ TypeOK /\ depth \in 1..MaxDepth /\ Top = frame[depth] /\ Top \in Frame
        /\ Top.pc = "doBlocks" /\ Top.detached = <<>>
    <2>1. TypeOK /\ depth \in 1..MaxDepth /\ Top = frame[depth] /\ Top.pc = "doBlocks"
      BY RunsAssumption DEF BlocksInv, TypeOK, DetachBlocks, At, Top
    <2>2. Top \in Frame
      BY <2>1, RunsAssumption, TopIsAFrame
    <2> QED
      BY <2>1, <2>2 DEF BlocksInv, TakenWithinDoBlocks
  <1>2. CASE queue = <<>>
    <2> DEFINE f == [Top EXCEPT !.pc = Top.afterBlocks]
    <2>1. SetTop(f) /\ queue' = queue /\ enqueued' = enqueued /\ performed' = performed
      BY <1>2 DEF DetachBlocks
    <2>2. f.detached = Top.detached
      BY <1>1 DEF Frame
    <2> HIDE DEF f
    <2> QED
      BY <1>1, <2>1, <2>2, SetTopQuiet
  <1>3. CASE queue # <<>>
    <2> DEFINE f == [Top EXCEPT !.detached = queue, !.pc = "blockList"]
    <2>1. /\ SetTop(f) /\ queue' = <<>>
          /\ enqueued' = enqueued /\ performed' = performed /\ DoneBlocks' = DoneBlocks
      BY <1>3 DEF DetachBlocks, DoneBlocks
    <2>2. f.detached = queue /\ f.pc = "blockList"
      BY <1>1 DEF Frame
    <2> HIDE DEF f
    <2>3. /\ depth' = depth /\ frame'[depth] = f
          /\ \A d \in 1..MaxDepth : d # depth => frame'[d] = frame[d]
      BY <1>1, <2>1 DEF SetTop, TypeOK
    <2>4. TakenWithinDoBlocks'
      BY <1>1, <2>2, <2>3 DEF BlocksInv, TakenWithinDoBlocks
    <2>5. /\ Held'[depth] = Held[MaxDepth + 1] /\ Held[depth] = <<>>
          /\ Held'[MaxDepth + 1] = <<>> /\ DOMAIN <<>> = {}
          /\ \A d \in Lists : d # depth /\ d # MaxDepth + 1 => Held'[d] = Held[d]
      BY <1>1, <2>1, <2>2, <2>3, RunsAssumption DEF Held, Lists
    <2>6. \A d \in Lists : depth < d /\ d # MaxDepth + 1 => Held[d] = <<>>
      BY <1>1, RunsAssumption DEF BlocksInv, TakenWithinDoBlocks, Held, Lists
    <2>7. HeldInOrder'
      <3> SUFFICES ASSUME NEW d \in Lists, NEW e \in Lists,
                          NEW i \in DOMAIN Held'[d], NEW k \in DOMAIN Held'[e],
                          d < e \/ (d = e /\ i < k)
                   PROVE  Before(Held'[d][i], Held'[e][k])
        BY <2>1 DEF HeldInOrder, Before
      <3> DEFINE from(c) == IF c = depth THEN MaxDepth + 1 ELSE c
      <3>1. /\ d # MaxDepth + 1 /\ e # MaxDepth + 1
            /\ Held'[d] = Held[from(d)] /\ Held'[e] = Held[from(e)]
        BY <2>5
      <3>2. d <= depth /\ e <= depth
        BY <1>1, <2>5, <2>6, <3>1, RunsAssumption DEF Lists
      <3>3. from(d) \in Lists /\ from(e) \in Lists
        BY RunsAssumption DEF Lists
      <3>4. from(d) < from(e) \/ (from(d) = from(e) /\ i < k)
        <4>1. d \in Int /\ e \in Int /\ depth \in Int /\ MaxDepth \in Int /\ depth <= MaxDepth
          BY <1>1, RunsAssumption DEF Lists
        <4>2. d < e => from(d) < from(e)
          BY <3>2, <4>1
        <4>3. d = e => from(d) = from(e)
          OBVIOUS
        <4> QED
          BY <4>2, <4>3
      <3> HIDE DEF from
      <3> QED
        BY <3>1, <3>3, <3>4 DEF BlocksInv, HeldInOrder
    <2>8. PendingBlocks' = PendingBlocks
      <3>1. ASSUME NEW b PROVE b \in PendingBlocks' <=> b \in PendingBlocks
        <4>1. b \in PendingBlocks' <=> \E d \in Lists : \E i \in DOMAIN Held'[d] : Held'[d][i] = b
          BY RunsAssumption DEF PendingBlocks, Held, Lists
        <4>2. depth \in Lists /\ MaxDepth + 1 \in Lists /\ depth # MaxDepth + 1
          BY <1>1, RunsAssumption DEF Lists
        <4>3. ASSUME NEW d \in Lists, NEW i \in DOMAIN Held[d], Held[d][i] = b
              PROVE  b \in PendingBlocks'
          <5>1. CASE d = MaxDepth + 1
            BY <2>5, <4>1, <4>2, <4>3, <5>1
          <5>2. CASE d # MaxDepth + 1
            <6>1. d # depth
              BY <2>5, <4>3
            <6>2. Held'[d] = Held[d]
              BY <2>5, <5>2, <6>1
            <6>3. i \in DOMAIN Held'[d] /\ Held'[d][i] = b
              BY <4>3, <6>2
            <6> QED
              BY <4>1, <6>3
          <5> QED
            BY <5>1, <5>2
        <4>4. ASSUME NEW d \in Lists, NEW i \in DOMAIN Held'[d], Held'[d][i] = b
              PROVE  b \in PendingBlocks
          <5>1. CASE d = depth
            BY <1>1, <2>5, <4>2, <4>4, <5>1, PendingIsHeld
          <5>2. CASE d # depth
            <6>1. d # MaxDepth + 1
              BY <2>5, <4>4
            <6>2. Held'[d] = Held[d]
              BY <2>5, <5>2, <6>1
            <6>3. i \in DOMAIN Held[d] /\ Held[d][i] = b
              BY <4>4, <6>2
            <6> QED
              BY <1>1, <6>3, PendingIsHeld
          <5> QED
            BY <5>1, <5>2
        <4> QED
          BY <1>1, <4>1, <4>3, <4>4, PendingIsHeld
      <3> QED
        BY <3>1
    <2>9. EnqueuedOnce' /\ HeldOrDone'
      BY <2>1, <2>8 DEF BlocksInv, EnqueuedOnce, HeldOrDone
    <2> QED
      BY <2>1, <2>4, <2>7, <2>8, <2>9 DEF Quiet, BlocksInv
  <1> QED
    BY <1>2, <1>3

\* Performing a block takes it out of one list, where it was in its only place.
LEMMA PerformNextKeeps ==
  ASSUME BlocksInv, TypeOK', PerformNext
  PROVE  BlocksInv' /\ \E b \in Blocks : Work!Perform(b)
  <1>1. /\ TypeOK /\ depth \in 1..MaxDepth /\ Top = frame[depth] /\ Top \in Frame
        /\ Top.pc = "blockList" /\ Top.detached \in Seq(Blocks)
    <2>1. TypeOK /\ depth \in 1..MaxDepth /\ Top = frame[depth] /\ Top.pc = "blockList"
      BY RunsAssumption DEF BlocksInv, TypeOK, PerformNext, At, Top
    <2>2. Top \in Frame
      BY <2>1, RunsAssumption, TopIsAFrame
    <2> QED
      BY <2>1, <2>2 DEF Frame
  <1>2. PICK x \in DOMAIN Top.detached :
          /\ SetTop([Top EXCEPT !.pc = "block",
                    !.detached = SubSeq(@, 1, x - 1) \o SubSeq(@, x + 1, Len(@))])
          /\ performed' = Append(performed, [block |-> Top.detached[x], mode |-> Top.mode])
    BY DEF PerformNext
  <1> DEFINE old == Top.detached
             rest == SubSeq(old, 1, x - 1) \o SubSeq(old, x + 1, Len(old))
             b == old[x]
             f == [Top EXCEPT !.pc = "block", !.detached = rest]
  <1>3. SetTop(f) /\ queue' = queue /\ enqueued' = enqueued
    BY <1>2 DEF PerformNext
  <1>4. x \in 1..Len(old) /\ b \in Blocks
    BY <1>1
  <1>5. /\ rest \in Seq(Blocks) /\ Len(rest) = Len(old) - 1
        /\ \A j \in DOMAIN rest : rest[j] = IF j < x THEN old[j] ELSE old[j + 1]
    BY <1>1, <1>4, WithoutOne
  <1> HIDE DEF rest
  <1>6. f.detached = rest /\ f.pc = "block"
    BY <1>1 DEF Frame
  <1> HIDE DEF f
  <1>7. /\ depth' = depth /\ frame'[depth] = f
        /\ \A d \in 1..MaxDepth : d # depth => frame'[d] = frame[d]
    BY <1>1, <1>3 DEF SetTop, TypeOK
  <1>8. TakenWithinDoBlocks'
    BY <1>1, <1>6, <1>7 DEF BlocksInv, TakenWithinDoBlocks
  <1>9. /\ depth \in Lists /\ Held[depth] = old /\ Held'[depth] = rest
        /\ \A d \in Lists : d # depth => Held'[d] = Held[d]
    BY <1>1, <1>3, <1>6, <1>7, RunsAssumption DEF Held, Lists
  <1> HIDE DEF old, b
  \* Where an element of a list was before the step.
  <1> DEFINE was(d, j) == IF d = depth /\ ~(j < x) THEN j + 1 ELSE j
  <1>10. ASSUME NEW d \in Lists, NEW j \in DOMAIN Held'[d]
         PROVE  /\ j \in Nat /\ was(d, j) \in DOMAIN Held[d] /\ was(d, j) \in Nat
                /\ Held'[d][j] = Held[d][was(d, j)]
                /\ d = depth => was(d, j) # x
    <2>1. Held[d] \in Seq(Blocks)
      BY <1>1, HeldType
    <2>2. CASE d = depth
      <3>1. j \in 1..(Len(old) - 1) /\ Len(old) \in Nat /\ x \in Nat /\ old \in Seq(Blocks)
        BY <1>4, <1>5, <1>9, <1>10, <2>1, <2>2
      <3>2. rest[j] = IF j < x THEN old[j] ELSE old[j + 1]
        BY <1>5, <1>9, <1>10, <2>2
      <3>3. j \in 1..Len(old) /\ j + 1 \in 1..Len(old) /\ DOMAIN old = 1..Len(old)
        BY <3>1
      <3> QED
        BY <1>9, <2>2, <3>1, <3>2, <3>3
    <2>3. CASE d # depth
      BY <1>9, <1>10, <2>1, <2>3
    <2> QED
      BY <2>2, <2>3
  <1>11. HeldInOrder'
    <2> SUFFICES ASSUME NEW d \in Lists, NEW e \in Lists,
                        NEW i \in DOMAIN Held'[d], NEW k \in DOMAIN Held'[e],
                        d < e \/ (d = e /\ i < k)
                 PROVE  Before(Held'[d][i], Held'[e][k])
      BY <1>3 DEF HeldInOrder, Before
    <2>1. i \in Nat /\ k \in Nat /\ x \in Nat
      BY <1>4, <1>10
    <2>2. d < e \/ (d = e /\ was(d, i) < was(e, k))
      BY <2>1
    <2>3. Before(Held[d][was(d, i)], Held[e][was(e, k)])
      <3>1. was(d, i) \in DOMAIN Held[d] /\ was(e, k) \in DOMAIN Held[e]
        BY <1>10
      <3> HIDE DEF was
      <3> QED
        BY <2>2, <3>1 DEF BlocksInv, HeldInOrder
    <2> QED
      BY <1>10, <2>3
  <1>12. b \in PendingBlocks
    BY <1>1, <1>4, <1>9, PendingIsHeld DEF b, old
  \* The place where the block was is the only one.
  <1>13. ASSUME NEW d \in Lists, NEW i \in DOMAIN Held[d], Held[d][i] = b
         PROVE  d = depth /\ i = x
    <2>1. /\ Held[depth][x] = b /\ x \in DOMAIN Held[depth]
          /\ d \in Int /\ depth \in Int /\ i \in Int /\ x \in Int
      <3>1. Held[d] \in Seq(Blocks)
        BY <1>1, HeldType
      <3>2. d \in Int /\ depth \in Int /\ i \in Int
        BY <1>1, <3>1, RunsAssumption DEF Lists
      <3> QED
        BY <1>1, <1>4, <1>9, <3>2 DEF b, old
    <2>2. ~Before(b, b)
      BY <1>1, NotBeforeItself DEF BlocksInv
    <2>3. CASE d < depth \/ (d = depth /\ i < x)
      BY <1>9, <1>13, <2>1, <2>2, <2>3 DEF BlocksInv, HeldInOrder
    <2>4. CASE depth < d \/ (d = depth /\ x < i)
      BY <1>9, <1>13, <2>1, <2>2, <2>4 DEF BlocksInv, HeldInOrder
    <2> QED
      BY <2>1, <2>3, <2>4
  <1>14. PendingBlocks' = PendingBlocks \ {b}
    <2>1. ASSUME NEW c PROVE c \in PendingBlocks' <=> c \in PendingBlocks /\ c # b
      <3>1. c \in PendingBlocks' <=> \E d \in Lists : \E i \in DOMAIN Held'[d] : Held'[d][i] = c
        BY RunsAssumption DEF PendingBlocks, Held, Lists
      <3>2. ASSUME NEW d \in Lists, NEW i \in DOMAIN Held'[d], Held'[d][i] = c
            PROVE  c \in PendingBlocks /\ c # b
        <4>1. was(d, i) \in DOMAIN Held[d] /\ Held[d][was(d, i)] = c /\ (d = depth => was(d, i) # x)
          BY <1>10, <3>2
        <4> HIDE DEF was
        <4>2. c \in PendingBlocks
          BY <1>1, <4>1, PendingIsHeld
        <4>3. c # b
          BY <1>13, <4>1
        <4> QED
          BY <4>2, <4>3
      <3>3. ASSUME NEW d \in Lists, NEW i \in DOMAIN Held[d], Held[d][i] = c, c # b
            PROVE  c \in PendingBlocks'
        <4>1. CASE d # depth
          <5>1. i \in DOMAIN Held'[d] /\ Held'[d][i] = c
            BY <1>9, <3>3, <4>1
          <5> QED
            BY <3>1, <5>1
        <4>2. CASE d = depth
          <5> DEFINE j == IF i < x THEN i ELSE i - 1
          <5>1. i \in 1..Len(old) /\ i # x /\ x \in 1..Len(old) /\ Len(old) \in Nat
            BY <1>1, <1>4, <1>9, <3>3, <4>2 DEF b, old
          <5>2. j \in 1..(Len(old) - 1) /\ (IF j < x THEN j ELSE j + 1) = i
            BY <5>1
          <5>3. DOMAIN rest = 1..(Len(old) - 1)
            BY <1>5
          <5> HIDE DEF j
          <5>4. j \in DOMAIN rest /\ rest[j] = old[i]
            BY <1>5, <5>2, <5>3
          <5>5. j \in DOMAIN Held'[depth] /\ Held'[depth][j] = c
            BY <1>9, <3>3, <4>2, <5>4
          <5> QED
            BY <1>9, <3>1, <5>5
        <4> QED
          BY <4>1, <4>2
      <3> QED
        BY <1>1, <3>1, <3>2, <3>3, PendingIsHeld
    <2> QED
      BY <2>1
  <1>15. DoneBlocks' = DoneBlocks \cup {b}
    <2>1. performed \in Seq([block : Blocks, mode : Modes])
      BY <1>1 DEF TypeOK
    <2>2. [block |-> b, mode |-> Top.mode] \in [block : Blocks, mode : Modes]
      BY <1>1, <1>4 DEF Frame
    <2>3. performed' = Append(performed, [block |-> b, mode |-> Top.mode])
      BY <1>2 DEF b, old
    <2>4. /\ DOMAIN performed' = 1..(Len(performed) + 1) /\ DOMAIN performed = 1..Len(performed)
          /\ Len(performed) \in Nat
          /\ \A i \in DOMAIN performed : performed'[i] = performed[i]
          /\ performed'[Len(performed) + 1].block = b
      BY <2>1, <2>2, <2>3
    <2> QED
      BY <2>4 DEF DoneBlocks
  <1>16. EnqueuedOnce' /\ HeldOrDone'
    BY <1>3, <1>12, <1>14, <1>15 DEF BlocksInv, EnqueuedOnce, HeldOrDone
  <1>17. Work!Perform(b)
    BY <1>12, <1>14, <1>15 DEF Work!Perform
  <1> QED
    BY <1>4, <1>8, <1>11, <1>16, <1>17 DEF BlocksInv

\* What is left goes back before what was enqueued meanwhile, which is later.
LEMMA ReattachBlocksKeeps == ASSUME BlocksInv, TypeOK', ReattachBlocks PROVE Quiet
  <1>1. /\ TypeOK /\ depth \in 1..MaxDepth /\ Top = frame[depth] /\ Top \in Frame
        /\ Top.pc = "blockList" /\ Top.detached \in Seq(Blocks) /\ queue \in Seq(Blocks)
    <2>1. TypeOK /\ depth \in 1..MaxDepth /\ Top = frame[depth] /\ Top.pc = "blockList"
      BY RunsAssumption DEF BlocksInv, TypeOK, ReattachBlocks, At, Top
    <2>2. Top \in Frame
      BY <2>1, RunsAssumption, TopIsAFrame
    <2> QED
      BY <2>1, <2>2 DEF Frame, TypeOK
  <1> DEFINE old == Top.detached
             f == [Top EXCEPT !.detached = <<>>, !.pc = Top.afterBlocks]
  <1>2. /\ SetTop(f) /\ queue' = old \o queue
        /\ enqueued' = enqueued /\ performed' = performed /\ DoneBlocks' = DoneBlocks
    BY DEF ReattachBlocks, Reattached, DoneBlocks
  <1>3. f.detached = <<>>
    BY <1>1 DEF Frame
  <1> HIDE DEF f
  <1>4. /\ depth' = depth /\ frame'[depth] = f
        /\ \A d \in 1..MaxDepth : d # depth => frame'[d] = frame[d]
    BY <1>1, <1>2 DEF SetTop, TypeOK
  <1>5. TakenWithinDoBlocks'
    BY <1>1, <1>3, <1>4 DEF BlocksInv, TakenWithinDoBlocks
  <1>6. /\ depth \in Lists /\ MaxDepth + 1 \in Lists /\ depth # MaxDepth + 1
        /\ Held[depth] = old /\ Held[MaxDepth + 1] = queue
        /\ Held'[depth] = <<>> /\ Held'[MaxDepth + 1] = old \o queue /\ DOMAIN <<>> = {}
        /\ \A d \in Lists : d # depth /\ d # MaxDepth + 1 => Held'[d] = Held[d]
    BY <1>1, <1>2, <1>3, <1>4, RunsAssumption DEF Held, Lists
  <1>7. \A d \in Lists : depth < d /\ d # MaxDepth + 1 => Held[d] = <<>>
    BY <1>1, RunsAssumption DEF BlocksInv, TakenWithinDoBlocks, Held, Lists
  <1> HIDE DEF old
  <1>8. /\ Len(old) \in Nat /\ Len(queue) \in Nat
        /\ DOMAIN old = 1..Len(old) /\ DOMAIN queue = 1..Len(queue)
        /\ DOMAIN (old \o queue) = 1..(Len(old) + Len(queue))
        /\ \A j \in 1..(Len(old) + Len(queue)) :
             (old \o queue)[j] = IF j <= Len(old) THEN old[j] ELSE queue[j - Len(old)]
    <2>1. old \in Seq(Blocks) /\ queue \in Seq(Blocks)
      BY <1>1 DEF old
    <2> QED
      BY ONLY <2>1, ConcatProperties
  \* Where an element of a list was before the step.
  <1> DEFINE list(d, j) == IF d = MaxDepth + 1 /\ j <= Len(old) THEN depth ELSE d
             was(d, j) == IF d = MaxDepth + 1 /\ ~(j <= Len(old)) THEN j - Len(old) ELSE j
  <1>9. ASSUME NEW d \in Lists, NEW j \in DOMAIN Held'[d]
        PROVE  /\ d # depth /\ j \in Nat /\ d \in Nat
               /\ list(d, j) \in Lists /\ was(d, j) \in DOMAIN Held[list(d, j)]
               /\ Held'[d][j] = Held[list(d, j)][was(d, j)]
    <2>1. d # depth /\ Held[d] \in Seq(Blocks) /\ d \in Nat
      BY <1>1, <1>6, <1>9, HeldType, RunsAssumption DEF Lists
    <2>2. CASE d = MaxDepth + 1
      <3>1. j \in 1..(Len(old) + Len(queue))
        BY <1>6, <1>8, <1>9, <2>2
      <3>2. CASE j <= Len(old)
        BY <1>6, <1>8, <2>1, <2>2, <3>1, <3>2
      <3>3. CASE ~(j <= Len(old))
        <4>1. j - Len(old) \in 1..Len(queue)
          BY <1>8, <3>1, <3>3
        <4> QED
          BY <1>6, <1>8, <2>1, <2>2, <3>1, <3>3, <4>1
      <3> QED
        BY <3>2, <3>3
    <2>3. CASE d # MaxDepth + 1
      BY <1>6, <1>9, <2>1, <2>3
    <2> QED
      BY <2>2, <2>3
  <1>10. HeldInOrder'
    <2> SUFFICES ASSUME NEW d \in Lists, NEW e \in Lists,
                        NEW i \in DOMAIN Held'[d], NEW k \in DOMAIN Held'[e],
                        d < e \/ (d = e /\ i < k)
                 PROVE  Before(Held'[d][i], Held'[e][k])
      BY <1>2 DEF HeldInOrder, Before
    <2>1. i \in Nat /\ k \in Nat /\ d \in Nat /\ e \in Nat /\ depth \in Nat /\ MaxDepth \in Nat
          /\ d <= MaxDepth + 1 /\ e <= MaxDepth + 1 /\ depth <= MaxDepth
      BY <1>1, <1>9, RunsAssumption DEF Lists
    <2>2. d < depth \/ d = MaxDepth + 1
      BY <1>6, <1>7, <1>9, <2>1
    <2>3. \/ list(d, i) < list(e, k)
          \/ list(d, i) = list(e, k) /\ was(d, i) < was(e, k)
      <3>1. e < depth \/ e = MaxDepth + 1
        BY <1>6, <1>7, <1>9, <2>1
      <3>2. CASE d < depth
        BY <1>8, <2>1, <3>1, <3>2
      <3>3. CASE d = MaxDepth + 1
        <4>1. e = MaxDepth + 1 /\ i < k
          BY <2>1, <3>3
        <4> QED
          BY <1>8, <2>1, <3>3, <4>1
      <3> QED
        BY <2>2, <3>2, <3>3
    <2>4. Before(Held[list(d, i)][was(d, i)], Held[list(e, k)][was(e, k)])
      <3>1. /\ list(d, i) \in Lists /\ was(d, i) \in DOMAIN Held[list(d, i)]
            /\ list(e, k) \in Lists /\ was(e, k) \in DOMAIN Held[list(e, k)]
        BY <1>9
      <3> HIDE DEF list, was
      <3> QED
        BY <2>3, <3>1 DEF BlocksInv, HeldInOrder
    <2> QED
      BY <1>9, <2>4
  <1>11. PendingBlocks' = PendingBlocks
    <2>1. ASSUME NEW c PROVE c \in PendingBlocks' <=> c \in PendingBlocks
      <3>1. c \in PendingBlocks' <=> \E d \in Lists : \E i \in DOMAIN Held'[d] : Held'[d][i] = c
        BY RunsAssumption DEF PendingBlocks, Held, Lists
      <3>2. ASSUME NEW d \in Lists, NEW i \in DOMAIN Held'[d], Held'[d][i] = c
            PROVE  c \in PendingBlocks
        <4>1. /\ list(d, i) \in Lists /\ was(d, i) \in DOMAIN Held[list(d, i)]
              /\ Held[list(d, i)][was(d, i)] = c
          BY <1>9, <3>2
        <4> HIDE DEF list, was
        <4> QED
          BY <1>1, <4>1, PendingIsHeld
      <3>3. ASSUME NEW d \in Lists, NEW i \in DOMAIN Held[d], Held[d][i] = c
            PROVE  c \in PendingBlocks'
        <4>1. CASE d # depth /\ d # MaxDepth + 1
          <5>1. i \in DOMAIN Held'[d] /\ Held'[d][i] = c
            BY <1>6, <3>3, <4>1
          <5> QED
            BY <3>1, <5>1
        <4>2. CASE d = depth
          <5>1. i \in 1..(Len(old) + Len(queue)) /\ i <= Len(old)
            BY <1>6, <1>8, <3>3, <4>2
          <5>2. i \in DOMAIN Held'[MaxDepth + 1] /\ Held'[MaxDepth + 1][i] = c
            BY <1>6, <1>8, <3>3, <4>2, <5>1
          <5> QED
            BY <1>6, <3>1, <5>2
        <4>3. CASE d = MaxDepth + 1
          <5> DEFINE j == i + Len(old)
          <5>1. i \in 1..Len(queue)
            BY <1>6, <1>8, <3>3, <4>3
          <5>2. j \in 1..(Len(old) + Len(queue)) /\ ~(j <= Len(old)) /\ j - Len(old) = i
            BY <1>8, <5>1
          <5> HIDE DEF j
          <5>3. (old \o queue)[j] = queue[i]
            BY <1>8, <5>2
          <5>4. j \in DOMAIN Held'[MaxDepth + 1] /\ Held'[MaxDepth + 1][j] = c
            BY <1>6, <1>8, <3>3, <4>3, <5>2, <5>3
          <5> QED
            BY <1>6, <3>1, <5>4
        <4> QED
          BY <4>1, <4>2, <4>3
      <3> QED
        BY <1>1, <3>1, <3>2, <3>3, PendingIsHeld
    <2> QED
      BY <2>1
  <1>12. EnqueuedOnce' /\ HeldOrDone'
    BY <1>2, <1>11 DEF BlocksInv, EnqueuedOnce, HeldOrDone
  <1> QED
    BY <1>2, <1>5, <1>10, <1>11, <1>12 DEF Quiet, BlocksInv

\* A new block goes to the end of the last list.
LEMMA PerformBlockKeeps ==
  ASSUME BlocksInv, TypeOK', NEW t \in Threads, NEW b \in Blocks, PerformBlock(t, b)
  PROVE  BlocksInv' /\ Work!HandOver(b)
  <1>1. /\ TypeOK /\ queue \in Seq(Blocks) /\ enqueued \in Seq(Blocks)
        /\ queue' = Append(queue, b) /\ enqueued' = Append(enqueued, b)
        /\ frame' = frame /\ depth' = depth /\ performed' = performed
        /\ \A i \in DOMAIN enqueued : enqueued[i] # b
    BY DEF BlocksInv, TypeOK, PerformBlock
  <1>2. /\ Len(queue) \in Nat /\ DOMAIN queue = 1..Len(queue)
        /\ DOMAIN queue' = 1..(Len(queue) + 1)
        /\ \A i \in DOMAIN queue : queue'[i] = queue[i]
        /\ queue'[Len(queue) + 1] = b
    BY <1>1
  <1>3. /\ Len(enqueued) \in Nat /\ DOMAIN enqueued = 1..Len(enqueued)
        /\ DOMAIN enqueued' = 1..(Len(enqueued) + 1)
        /\ \A i \in DOMAIN enqueued : enqueued'[i] = enqueued[i]
        /\ enqueued'[Len(enqueued) + 1] = b
    BY <1>1
  <1>4. /\ MaxDepth + 1 \in Lists
        /\ Held[MaxDepth + 1] = queue /\ Held'[MaxDepth + 1] = queue'
        /\ \A d \in Lists : d # MaxDepth + 1 => Held'[d] = Held[d]
    BY <1>1, RunsAssumption DEF Held, Lists
  <1>5. \A c, e : Before(c, e) =>
          \E p, q \in DOMAIN enqueued' : p < q /\ enqueued'[p] = c /\ enqueued'[q] = e
    BY <1>3 DEF Before
  <1>6. TakenWithinDoBlocks' /\ EnqueuedOnce'
    BY <1>1, <1>3 DEF BlocksInv, TakenWithinDoBlocks, EnqueuedOnce
  <1>7. \A c \in PendingBlocks : c \in {enqueued[i] : i \in DOMAIN enqueued}
    BY DEF BlocksInv, HeldOrDone
  <1>8. HeldInOrder'
    <2> SUFFICES ASSUME NEW d \in Lists, NEW e \in Lists,
                        NEW i \in DOMAIN Held'[d], NEW k \in DOMAIN Held'[e],
                        d < e \/ (d = e /\ i < k)
                 PROVE  \E p, q \in DOMAIN enqueued' :
                          p < q /\ enqueued'[p] = Held'[d][i] /\ enqueued'[q] = Held'[e][k]
      BY DEF HeldInOrder, Before
    <2>1. CASE ~(e = MaxDepth + 1 /\ k = Len(queue) + 1)
      <3>1. k \in DOMAIN Held[e] /\ Held'[e][k] = Held[e][k]
        BY <1>2, <1>4, <2>1
      <3>2. i \in DOMAIN Held[d] /\ Held'[d][i] = Held[d][i]
        <4>1. CASE d # MaxDepth + 1
          BY <1>4, <4>1
        <4>2. CASE d = MaxDepth + 1
          <5>1. e = MaxDepth + 1 /\ i < k
            BY <4>2, RunsAssumption DEF Lists
          <5>2. i \in 1..(Len(queue) + 1) /\ k \in 1..Len(queue)
            BY <1>2, <1>4, <3>1, <4>2, <5>1
          <5> QED
            BY <1>2, <1>4, <4>2, <5>1, <5>2
        <4> QED
          BY <4>1, <4>2
      <3>3. Before(Held[d][i], Held[e][k])
        BY <3>1, <3>2 DEF BlocksInv, HeldInOrder
      <3> QED
        BY <1>5, <3>1, <3>2, <3>3
    <2>2. CASE e = MaxDepth + 1 /\ k = Len(queue) + 1
      <3>1. Held'[e][k] = b
        BY <1>2, <1>4, <2>2
      <3>2. i \in DOMAIN Held[d] /\ Held'[d][i] = Held[d][i]
        <4>1. CASE d # MaxDepth + 1
          BY <1>4, <4>1
        <4>2. CASE d = MaxDepth + 1
          <5>1. i \in 1..(Len(queue) + 1) /\ i < Len(queue) + 1
            BY <1>2, <1>4, <2>2, <4>2, RunsAssumption
          <5> QED
            BY <1>2, <1>4, <4>2, <5>1
        <4> QED
          BY <4>1, <4>2
      <3>3. PICK j \in DOMAIN enqueued : enqueued[j] = Held'[d][i]
        BY <1>1, <1>7, <3>2, PendingIsHeld
      <3>4. /\ j \in DOMAIN enqueued' /\ Len(enqueued) + 1 \in DOMAIN enqueued'
            /\ j < Len(enqueued) + 1 /\ enqueued'[j] = Held'[d][i]
        BY <1>3, <3>3
      <3> QED
        BY <1>3, <3>1, <3>4
    <2> QED
      BY <2>1, <2>2
  <1>9. b \notin PendingBlocks \cup DoneBlocks
    BY <1>1 DEF BlocksInv, HeldOrDone
  <1>10. DoneBlocks' = DoneBlocks
    BY <1>1 DEF DoneBlocks
  <1>11. {queue'[i] : i \in DOMAIN queue'} = {queue[i] : i \in DOMAIN queue} \cup {b}
    BY <1>2
  <1>12. PendingBlocks' = PendingBlocks \cup {b}
    <2> DEFINE taken ==
          UNION {{frame[d].detached[i] : i \in DOMAIN frame[d].detached} : d \in 1..MaxDepth}
    <2>1. /\ PendingBlocks = {queue[i] : i \in DOMAIN queue} \cup taken
          /\ PendingBlocks' = {queue'[i] : i \in DOMAIN queue'} \cup taken
      BY <1>1 DEF PendingBlocks
    <2> HIDE DEF taken
    <2> QED
      BY <1>11, <2>1
  <1>13. {enqueued'[i] : i \in DOMAIN enqueued'} = {enqueued[i] : i \in DOMAIN enqueued} \cup {b}
    BY <1>3
  <1>14. HeldOrDone'
    BY <1>9, <1>10, <1>12, <1>13 DEF BlocksInv, HeldOrDone
  <1>15. Work!HandOver(b)
    BY <1>9, <1>10, <1>12 DEF Work!HandOver
  <1> QED
    BY <1>6, <1>8, <1>14, <1>15 DEF BlocksInv

----------------------------------------------------------------------------
(* The other steps. *)

\* The steps of the innermost activation outside __CFRunLoopDoBlocks, and the
\* return of a block.
LEMMA OtherStepsKeep ==
  ASSUME BlocksInv, TypeOK', Step, ~DetachBlocks, ~PerformNext, ~ReattachBlocks
  PROVE  Quiet
  <1>1. depth > 0 /\ TypeOK /\ depth \in 1..MaxDepth /\ Top = frame[depth]
    <2>1. depth > 0
      BY DEF Step, ObserversReturn, Begin, BlockReturns, CollectSources0, DoSource0,
         Source0Returns, Sources0Done, Poll, Sleep, Receive, WokenUp, HandleMessage,
         MainQueueReturns, Source1Returns, Decide, Pop, At
    <2> QED
      BY <2>1, RunsAssumption DEF BlocksInv, TypeOK, Top
  <1>2. Top \in Frame
    BY <1>1, TopIsAFrame
  <1>3. CASE ObserversReturn
    <2> DEFINE f == [Top EXCEPT !.pc = AfterObservers[Top.pc],
                   !.afterBlocks = IF Top.pc = "sourcesObs" THEN "collect" ELSE @]
    <2>1. SetTop(f) /\ queue' = queue /\ enqueued' = enqueued /\ performed' = performed
      BY <1>3 DEF ObserversReturn
    <2>2. f.detached = Top.detached /\ Top.pc \notin {"blockList", "block"}
      BY <1>2, <1>3 DEF ObserversReturn, At, Frame, ObserverPCs, ActivityAt
    <2> HIDE DEF f
    <2> QED
      BY <1>1, <2>1, <2>2, SetTopQuiet
  <1>4. CASE BlockReturns
    <2> DEFINE f == [Top EXCEPT !.pc = "blockList"]
    <2>1. SetTop(f) /\ queue' = queue /\ enqueued' = enqueued /\ performed' = performed
      BY <1>4 DEF BlockReturns
    <2>2. f.detached = Top.detached /\ f.pc \in {"blockList", "block"}
      BY <1>2, <1>4 DEF BlockReturns, At, Frame
    <2> HIDE DEF f
    <2> QED
      BY <1>1, <2>1, <2>2, SetTopQuiet
  <1>5. CASE CollectSources0
    <2> DEFINE f == [Top EXCEPT !.sourceHandled = FALSE,
                   !.collected = members[Top.mode] \cap Sources0 \cap valid \cap signaled,
                   !.pc = IF members[Top.mode] \cap Sources0 \cap valid \cap signaled = {}
                          THEN "poll" ELSE "sourceList"]
    <2>1. SetTop(f) /\ queue' = queue /\ enqueued' = enqueued /\ performed' = performed
      BY <1>5 DEF CollectSources0
    <2>2. f.detached = Top.detached /\ Top.pc \notin {"blockList", "block"}
      BY <1>2, <1>5 DEF CollectSources0, At, Frame
    <2> HIDE DEF f
    <2> QED
      BY <1>1, <2>1, <2>2, SetTopQuiet
  <1>6. CASE Source0Returns
    <2> DEFINE f == [Top EXCEPT !.pc = "sourceList", !.sourceHandled = TRUE, !.served = TRUE,
                   !.collected = StillToPerform]
    <2>1. SetTop(f) /\ queue' = queue /\ enqueued' = enqueued /\ performed' = performed
      BY <1>6 DEF Source0Returns
    <2>2. f.detached = Top.detached /\ Top.pc \notin {"blockList", "block"}
      BY <1>2, <1>6 DEF Source0Returns, At, Frame
    <2> HIDE DEF f
    <2> QED
      BY <1>1, <2>1, <2>2, SetTopQuiet
  <1>7. CASE Sources0Done
    <2> DEFINE f == [Top EXCEPT !.afterBlocks = "poll",
                   !.pc = IF Top.sourceHandled THEN "doBlocks" ELSE "poll"]
    <2>1. SetTop(f) /\ queue' = queue /\ enqueued' = enqueued /\ performed' = performed
      BY <1>7 DEF Sources0Done
    <2>2. f.detached = Top.detached /\ Top.pc \notin {"blockList", "block"}
      BY <1>2, <1>7 DEF Sources0Done, At, Frame
    <2> HIDE DEF f
    <2> QED
      BY <1>1, <2>1, <2>2, SetTopQuiet
  <1>8. CASE Sleep
    <2> DEFINE f == [Top EXCEPT !.pc = "asleep"]
    <2>1. SetTop(f) /\ queue' = queue /\ enqueued' = enqueued /\ performed' = performed
      BY <1>8 DEF Sleep
    <2>2. f.detached = Top.detached /\ Top.pc \notin {"blockList", "block"}
      BY <1>2, <1>8 DEF Sleep, At, Frame
    <2> HIDE DEF f
    <2> QED
      BY <1>1, <2>1, <2>2, SetTopQuiet
  <1>9. CASE WokenUp
    <2> DEFINE f == [Top EXCEPT !.ignoreWakeUps = TRUE, !.pc = IF Top.poll THEN "handle" ELSE "afterObs"]
    <2>1. SetTop(f) /\ queue' = queue /\ enqueued' = enqueued /\ performed' = performed
      BY <1>9 DEF WokenUp
    <2>2. f.detached = Top.detached /\ Top.pc \notin {"blockList", "block"}
      BY <1>2, <1>9 DEF WokenUp, At, Frame
    <2> HIDE DEF f
    <2> QED
      BY <1>1, <2>1, <2>2, SetTopQuiet
  <1>10. CASE HandleMessage
    <2> DEFINE f == [Top EXCEPT !.ignoreWakeUps = TRUE, !.afterBlocks = "decide", !.pc = Callee]
    <2>1. SetTop(f) /\ queue' = queue /\ enqueued' = enqueued /\ performed' = performed
      BY <1>10 DEF HandleMessage
    <2>2. f.detached = Top.detached /\ Top.pc \notin {"blockList", "block"}
      BY <1>2, <1>10 DEF HandleMessage, At, Frame
    <2> HIDE DEF f
    <2> QED
      BY <1>1, <2>1, <2>2, SetTopQuiet
  <1>11. CASE MainQueueReturns
    <2> DEFINE f == [Top EXCEPT !.sourceHandled = TRUE, !.served = TRUE,
                   !.didDispatchPortLastTime = TRUE, !.pc = "doBlocks"]
    <2>1. SetTop(f) /\ queue' = queue /\ enqueued' = enqueued /\ performed' = performed
      BY <1>11 DEF MainQueueReturns
    <2>2. f.detached = Top.detached /\ Top.pc \notin {"blockList", "block"}
      BY <1>2, <1>11 DEF MainQueueReturns, At, Frame
    <2> HIDE DEF f
    <2> QED
      BY <1>1, <2>1, <2>2, SetTopQuiet
  <1>12. CASE Source1Returns
    <2> DEFINE f == [Top EXCEPT !.sourceHandled = TRUE, !.served = TRUE, !.pc = "doBlocks"]
    <2>1. SetTop(f) /\ queue' = queue /\ enqueued' = enqueued /\ performed' = performed
      BY <1>12 DEF Source1Returns
    <2>2. f.detached = Top.detached /\ Top.pc \notin {"blockList", "block"}
      BY <1>2, <1>12 DEF Source1Returns, At, Frame
    <2> HIDE DEF f
    <2> QED
      BY <1>1, <2>1, <2>2, SetTopQuiet
  <1>13. CASE DoSource0
    <2>1. queue' = queue /\ enqueued' = enqueued /\ performed' = performed
      BY <1>13 DEF DoSource0
    <2>2. ASSUME NEW f, SetTop(f),
             \E s \in Top.collected :
               \/ f = [Top EXCEPT !.collected = @ \ {s}, !.pc = "source0"]
               \/ f = [Top EXCEPT !.collected = @ \ {s}, !.sourceHandled = FALSE]
          PROVE  Quiet
      <3>1. f.detached = Top.detached /\ Top.pc \notin {"blockList", "block"}
        BY <1>2, <1>13, <2>2 DEF DoSource0, At, Frame
      <3> QED
        BY <1>1, <2>1, <2>2, <3>1, SetTopQuiet
    <2> QED
      BY <1>13, <2>2 DEF DoSource0
  <1>14. CASE Poll
    <2>1. queue' = queue /\ enqueued' = enqueued /\ performed' = performed
      BY <1>14 DEF Poll
    <2>2. ASSUME NEW f, SetTop(f),
             \/ f = [Top EXCEPT !.poll = MustPoll, !.livePort = "dispatch", !.pc = "handle"]
             \/ f = [Top EXCEPT !.poll = MustPoll, !.livePort = "null",
                       !.didDispatchPortLastTime = FALSE,
                       !.pc = IF MustPoll THEN "sleep" ELSE "waitObs"]
          PROVE  Quiet
      <3>1. f.detached = Top.detached /\ Top.pc \notin {"blockList", "block"}
        BY <1>2, <1>14, <2>2 DEF Poll, At, Frame
      <3> QED
        BY <1>1, <2>1, <2>2, <3>1, SetTopQuiet
    <2> QED
      BY <1>14, <2>2 DEF Poll
  <1>15. CASE Receive
    <2>1. queue' = queue /\ enqueued' = enqueued /\ performed' = performed
      BY <1>15 DEF Receive
    <2>2. ASSUME NEW f, SetTop(f),
             \E p : f = [Top EXCEPT !.livePort = p, !.pc = "woken"]
          PROVE  Quiet
      <3>1. f.detached = Top.detached /\ Top.pc \notin {"blockList", "block"}
        BY <1>2, <1>15, <2>2 DEF Receive, At, Frame
      <3> QED
        BY <1>1, <2>1, <2>2, <3>1, SetTopQuiet
    <2> QED
      BY <1>15, <2>2 DEF Receive
  <1>16. CASE Begin
    <2>1. queue' = queue /\ enqueued' = enqueued /\ performed' = performed
      BY <1>16 DEF Begin
    <2>2. ASSUME NEW f, SetTop(f),
             \/ f = [Returning("Stopped") EXCEPT !.stopped = FALSE] \/ f = Returning("Stopped")
             \/ f = [NextIteration EXCEPT !.hasDispatchPort = MainQueueIsSafe(Top.mode)]
          PROVE  Quiet
      <3>1. f.detached = Top.detached /\ Top.pc \notin {"blockList", "block"}
        BY <1>2, <1>16, <2>2 DEF Begin, At, Frame, Returning, NextIteration, EndOfBody
      <3> QED
        BY <1>1, <2>1, <2>2, <3>1, SetTopQuiet
    <2> QED
      BY <1>16, <2>2 DEF Begin
  <1>17. CASE Decide
    <2>1. queue' = queue /\ enqueued' = enqueued /\ performed' = performed
      BY <1>17 DEF Decide
    <2>2. ASSUME NEW f, SetTop(f),
             \/ \E r : f = Returning(r) \/ f = [Returning(r) EXCEPT !.stopped = FALSE]
             \/ f = NextIteration
          PROVE  Quiet
      <3>1. f.detached = Top.detached /\ Top.pc \notin {"blockList", "block"}
        BY <1>2, <1>17, <2>2 DEF Decide, At, Frame, Returning, NextIteration, EndOfBody
      <3> QED
        BY <1>1, <2>1, <2>2, <3>1, SetTopQuiet
    <2> QED
      BY <1>17, <2>2 DEF Decide
  <1>18. CASE Pop
    <2>1. Top.pc = "pop" /\ queue' = queue /\ enqueued' = enqueued /\ performed' = performed
          /\ frame' = [frame EXCEPT ![depth] = Unused] /\ depth' = depth - 1
      BY <1>18 DEF Pop, At
    <2>2. Unused.detached = <<>> /\ Top.detached = <<>>
      BY <1>1, <2>1 DEF Unused, NewFrame, BlocksInv, TakenWithinDoBlocks
    <2>3. \A d \in 1..MaxDepth : frame'[d].detached = frame[d].detached
      BY <1>1, <2>1, <2>2 DEF TypeOK
    <2>4. TakenWithinDoBlocks'
      BY <1>1, <2>1, <2>2 DEF TypeOK, BlocksInv, TakenWithinDoBlocks
    <2> QED
      BY <2>1, <2>3, <2>4, SameLists
  <1> QED
    BY <1>3, <1>4, <1>5, <1>6, <1>7, <1>8, <1>9, <1>10, <1>11, <1>12, <1>13, <1>14, <1>15, <1>16, <1>17, <1>18 DEF Step

\* A new activation has no list yet; the others keep theirs.
LEMMA RunKeeps ==
  ASSUME BlocksInv, TypeOK', NEW m \in Modes, NEW kind \in RunKinds, RunSpecific(m, kind)
  PROVE  Quiet
  <1>1. /\ TypeOK /\ depth \in Nat /\ MaxDepth \in Nat /\ depth < MaxDepth /\ depth' = depth + 1
        /\ queue' = queue /\ enqueued' = enqueued /\ performed' = performed
    BY RunsAssumption DEF BlocksInv, RunSpecific, TypeOK
  <1>2. ASSUME NEW d \in 1..MaxDepth
        PROVE  /\ frame'[d].detached = frame[d].detached
               /\ d <= depth => frame'[d].pc = frame[d].pc
    <2>1. frame[d] \in Frame
      BY <1>1 DEF TypeOK
    <2>2. CASE d = depth + 1
      <3>1. frame'[d].detached = <<>>
        BY <2>2 DEF RunSpecific, NewFrame
      <3>2. frame[d].detached = <<>>
        BY <1>1, <2>2 DEF BlocksInv, TakenWithinDoBlocks
      <3> QED
        BY <1>1, <2>2, <3>1, <3>2
    <2>3. CASE d = depth
      <3>1. frame'[d] = [frame[d] EXCEPT !.nested = TRUE]
        BY <1>1, <2>3 DEF RunSpecific, Top
      <3> QED
        BY <2>1, <3>1 DEF Frame
    <2>4. CASE d # depth /\ d # depth + 1
      BY <2>4 DEF RunSpecific
    <2> QED
      BY <2>2, <2>3, <2>4
  <1>3. TakenWithinDoBlocks'
    BY <1>1, <1>2 DEF BlocksInv, TakenWithinDoBlocks
  <1> QED
    BY <1>1, <1>2, <1>3, SameLists

\* Nothing that happens outside the loop's thread touches an activation's list.
LEMMA OthersKeep ==
  ASSUME BlocksInv, TypeOK', depth' = depth,
         queue' = queue, enqueued' = enqueued, performed' = performed,
         \/ frame' = frame
         \/ depth > 0 /\ SetTop([Top EXCEPT !.stopped = TRUE])
         \/ \E d \in 1..MaxDepth, v \in {"past", "fired"} : frame' = [frame EXCEPT ![d].termTSR = v]
  PROVE  Quiet
  <1>1. TypeOK
    BY DEF BlocksInv
  <1>2. ASSUME NEW d \in 1..MaxDepth
        PROVE  frame'[d].detached = frame[d].detached /\ frame'[d].pc = frame[d].pc
    <2>1. frame[d] \in Frame
      BY <1>1 DEF TypeOK
    <2>2. \/ frame'[d] = frame[d]
          \/ frame'[d] = [frame[d] EXCEPT !.stopped = TRUE]
          \/ \E v : frame'[d] = [frame[d] EXCEPT !.termTSR = v]
      BY <1>1, <1>2 DEF SetTop, Top, TypeOK
    <2> QED
      BY <2>1, <2>2 DEF Frame
  <1>3. TakenWithinDoBlocks'
    BY <1>2 DEF BlocksInv, TakenWithinDoBlocks
  <1> QED
    BY <1>2, <1>3, SameLists

----------------------------------------------------------------------------
\* Every step keeps the invariant and is one of BlockWork, or leaves the blocks.
LEMMA BlocksStep ==
  BlocksInv /\ [Next]_vars => BlocksInv' /\ [Work!Next]_<<PendingBlocks, DoneBlocks>>
  <1> SUFFICES ASSUME BlocksInv, [Next]_vars
               PROVE  BlocksInv' /\ [Work!Next]_<<PendingBlocks, DoneBlocks>>
    OBVIOUS
  <1> DEFINE Goal == BlocksInv' /\ [Work!Next]_<<PendingBlocks, DoneBlocks>>
  <1>1. TypeOK'
    BY TypeStep DEF BlocksInv
  <1>2. Quiet => Goal
    BY DEF Quiet
  <1>3. CASE Step
    <2>1. CASE PerformNext
      BY <1>1, <2>1, PerformNextKeeps DEF Work!Next
    <2>2. CASE DetachBlocks
      BY <1>1, <1>2, <2>2, DetachBlocksKeeps
    <2>3. CASE ReattachBlocks
      BY <1>1, <1>2, <2>3, ReattachBlocksKeeps
    <2> QED
      BY <1>1, <1>2, <1>3, <2>1, <2>2, <2>3, OtherStepsKeep
  <1>4. CASE Run
    BY <1>1, <1>2, <1>4, RunKeeps DEF Run
  <1>5. ASSUME NEW t \in Threads, Give(t) PROVE Goal
    <2>1. ASSUME NEW b \in Blocks, PerformBlock(t, b) PROVE Goal
      BY <1>1, <2>1, PerformBlockKeeps DEF Work!Next
    <2>2. CASE Stop(t)
      BY <1>1, <1>2, <2>2, OthersKeep DEF Stop, SetTop
    <2>3. ASSUME NEW m \in Modes, StopMode(t, m) PROVE Goal
      BY <1>1, <1>2, <2>3, OthersKeep DEF StopMode
    <2>4. ASSUME NEW s \in Sources0, SignalSource(t, s) PROVE Goal
      BY <1>1, <1>2, <2>4, OthersKeep DEF SignalSource
    <2>5. ASSUME NEW s \in Sources, InvalidateSource(t, s) PROVE Goal
      BY <1>1, <1>2, <2>5, OthersKeep DEF InvalidateSource
    <2>6. ASSUME NEW d \in 1..MaxDepth, TimeoutFires(t, d) PROVE Goal
      BY <1>1, <1>2, <2>6, OthersKeep DEF TimeoutFires
    <2> QED
      BY <1>5, <2>1, <2>2, <2>3, <2>4, <2>5, <2>6 DEF Give
  <1>6. ASSUME NEW t \in Threads, RemoveFromRunLoop(t) \/ WakeUp(t) PROVE Goal
    BY <1>1, <1>2, <1>6, OthersKeep DEF RemoveFromRunLoop, WakeUp
  <1>7. CASE Outside
    <2>1. ASSUME NEW d \in 1..MaxDepth, DeadlinePasses(d) PROVE Goal
      BY <1>1, <1>2, <2>1, OthersKeep DEF DeadlinePasses
    <2>2. ASSUME NEW s \in Sources1, MessageArrives(s) PROVE Goal
      BY <1>1, <1>2, <2>2, OthersKeep DEF MessageArrives
    <2>3. CASE MainQueueEnqueue
      BY <1>1, <1>2, <2>3, OthersKeep DEF MainQueueEnqueue
    <2> QED
      BY <1>7, <2>1, <2>2, <2>3 DEF Outside
  <1>8. CASE UNCHANGED vars
    BY <1>1, <1>2, <1>8, OthersKeep DEF vars
  <1> QED
    BY <1>3, <1>4, <1>5, <1>6, <1>7, <1>8 DEF Next

LEMMA InitBlocks == Init => BlocksInv /\ Work!Init
  <1> SUFFICES ASSUME Init PROVE BlocksInv /\ Work!Init
    OBVIOUS
  <1>1. TypeOK /\ queue = <<>> /\ performed = <<>> /\ enqueued = <<>> /\ DOMAIN <<>> = {}
    BY InitType DEF Init
  <1>2. \A d \in 1..MaxDepth : frame[d].detached = <<>>
    BY DEF Init, Unused, NewFrame
  <1>3. \A d \in Lists : Held[d] = <<>>
    BY <1>1, <1>2, RunsAssumption DEF Held, Lists
  <1>4. HeldInOrder /\ TakenWithinDoBlocks /\ EnqueuedOnce
    BY <1>1, <1>2, <1>3 DEF HeldInOrder, TakenWithinDoBlocks, EnqueuedOnce
  <1>5. PendingBlocks = {}
    BY <1>1, <1>3, PendingIsHeld
  <1>6. DoneBlocks = {}
    BY <1>1 DEF DoneBlocks
  <1>7. HeldOrDone
    BY <1>1, <1>5, <1>6 DEF HeldOrDone
  <1> QED
    BY <1>1, <1>4, <1>5, <1>6, <1>7 DEF BlocksInv, Work!Init

\* However activations of __CFRunLoopDoBlocks take the list of the loop, perform
\* some of it and put the rest back, nested in one another and while other
\* threads enqueue, a block is performed at most once and is held until then:
\* every step of the loop is a step of BlockWork or leaves its blocks alone.
THEOREM BlocksImplementWork == Spec => BlocksAreNeitherLostNorRepeated
  <1>1. Init => BlocksInv /\ Work!Init
    BY InitBlocks
  <1>2. BlocksInv /\ [Next]_vars => BlocksInv' /\ [Work!Next]_<<PendingBlocks, DoneBlocks>>
    BY BlocksStep
  <1> QED
    BY <1>1, <1>2, PTL DEF Spec, BlocksAreNeitherLostNorRepeated, Work!Spec

\* A block that could have run here is still held when a later one runs, and not
\* in the loop's list, nor in the one this activation took.
LEMMA OrderStep ==
  ASSUME BlocksInv, PerformNext, TypeOK',
         NEW i \in DOMAIN enqueued, NEW k \in DOMAIN enqueued, i < k,
         enqueued[k] = performed'[Len(performed')].block,
         RunsIn(enqueued[i], Top.mode), enqueued[i] \notin DoneBlocks
  PROVE  \E d \in 1..(depth - 1) :
           \E j \in DOMAIN frame[d].detached : frame[d].detached[j] = enqueued[i]
  <1>1. /\ TypeOK /\ depth \in 1..MaxDepth /\ Top = frame[depth] /\ Top \in Frame
        /\ Top.detached \in Seq(Blocks) /\ performed \in Seq([block : Blocks, mode : Modes])
    <2>1. TypeOK /\ depth \in 1..MaxDepth /\ Top = frame[depth]
      BY RunsAssumption DEF BlocksInv, TypeOK, PerformNext, At, Top
    <2>2. Top \in Frame
      BY <2>1, RunsAssumption, TopIsAFrame
    <2> QED
      BY <2>1, <2>2 DEF Frame, TypeOK
  <1>2. PICK x \in DOMAIN Top.detached :
          /\ performed' = Append(performed, [block |-> Top.detached[x], mode |-> Top.mode])
          /\ \A j \in 1..(x - 1) : ~RunsIn(Top.detached[j], Top.mode)
    BY DEF PerformNext
  <1>3. enqueued[k] = Top.detached[x]
    <2>1. Top.detached[x] \in Blocks /\ Top.mode \in Modes
      BY <1>1 DEF Frame
    <2>2. performed'[Len(performed')].block = Top.detached[x]
      BY <1>1, <1>2, <2>1
    <2> QED
      BY <2>2
  <1>4. enqueued[i] \in PendingBlocks
    BY DEF BlocksInv, HeldOrDone
  <1>5. PICK d \in Lists : \E j \in DOMAIN Held[d] : Held[d][j] = enqueued[i]
    BY <1>1, <1>4, PendingIsHeld
  <1>6. PICK j \in DOMAIN Held[d] : Held[d][j] = enqueued[i]
    BY <1>5
  <1>7. /\ depth \in Lists /\ Held[depth] = Top.detached
        /\ d \in Int /\ j \in Int /\ x \in Int /\ j >= 1
    <2>1. Held[d] \in Seq(Blocks)
      BY <1>1, HeldType
    <2>2. j \in Int /\ j >= 1 /\ x \in Int
      BY <1>1, <2>1
    <2> QED
      BY <1>1, <2>2, RunsAssumption DEF Held, Lists
  <1>8. /\ i \in Int /\ k \in Int
        /\ ~Before(enqueued[k], enqueued[i]) /\ enqueued[i] # enqueued[k]
    <2>1. i \in Int /\ k \in Int
      BY <1>1 DEF TypeOK
    <2> QED
      BY <1>1, <2>1, OrderIsStrict DEF BlocksInv, EnqueuedOnce
  <1>9. ~(depth < d) /\ ~(d = depth /\ x < j)
    BY <1>3, <1>6, <1>7, <1>8 DEF BlocksInv, HeldInOrder
  <1>10. ~(d = depth /\ j <= x)
    <2> SUFFICES ASSUME d = depth, j <= x PROVE FALSE
      OBVIOUS
    <2>1. Top.detached[j] = enqueued[i] /\ j # x
      BY <1>3, <1>6, <1>7, <1>8
    <2>2. j \in 1..(x - 1)
      BY <1>7, <2>1
    <2> QED
      BY <1>2, <2>1, <2>2
  <1>11. d \in 1..(depth - 1)
    BY <1>1, <1>7, <1>9, <1>10, RunsAssumption DEF Lists
  <1>12. Held[d] = frame[d].detached
    BY <1>1, <1>11, RunsAssumption DEF Held, Lists
  <1> QED
    BY <1>6, <1>11, <1>12

\* Blocks that __CFRunLoopDoBlocks may run in a mode run in the order in which
\* CFRunLoopPerformBlock enqueued them, but for those that an activation below
\* holds in the list it took.
THEOREM BlocksInOrder == Spec => BlocksRunInOrder
  <1>1. BlocksInv /\ [Next]_vars =>
          [\A i, k \in DOMAIN enqueued :
             (/\ i < k /\ PerformNext /\ enqueued[k] = performed'[Len(performed')].block
              /\ RunsIn(enqueued[i], Top.mode) /\ enqueued[i] \notin DoneBlocks)
               => \E d \in 1..(depth - 1) :
                    \E j \in DOMAIN frame[d].detached : frame[d].detached[j] = enqueued[i]]_vars
    BY TypeStep, OrderStep DEF BlocksInv
  <1>2. Init => BlocksInv
    BY InitBlocks
  <1>3. BlocksInv /\ [Next]_vars => BlocksInv'
    BY BlocksStep
  <1> QED
    BY <1>1, <1>2, <1>3, PTL DEF Spec, BlocksRunInOrder
============================================================================
