------------------------ MODULE RunLoopTimersProofs ------------------------
(***************************************************************************)
(* What holds of the timers of any instance of RunLoopTimers: no callback  *)
(* runs while it runs already, a timer that does not repeat calls back     *)
(* once, and a timer whose date nobody sets does not drift.  Then, after   *)
(* what the operators of TimerArray do to an array: the arrays of the      *)
(* modes and the modes of the timers agree, the arrays stay in order, and  *)
(* every mode has its timer armed in time.                                 *)
(***************************************************************************)
EXTENDS RunLoopTimers, FiniteSetTheorems, SequenceTheorems, WellFoundedInduction, TLAPS

\* The frames are functions and records, whatever is in them.
IsFrame(f) ==
  f = [mode |-> f.mode, pc |-> f.pc, due |-> f.due, oldFireTSR |-> f.oldFireTSR,
       handled |-> f.handled, modes |-> f.modes]
FramesInv ==
  /\ depth \in 0..MaxDepth /\ frame = [d \in 1..MaxDepth |-> frame[d]]
  /\ \A d \in 1..MaxDepth : IsFrame(frame[d])
  /\ valid \subseteq Timers /\ firing \subseteq Timers

\* An activation that has a timer marked as firing, and has had its callback
\* return.
Busy(f) == f.pc \in {"callout", "expired", "relock"}
HasReturned(f) == f.pc \in {"expired", "relock"}

----------------------------------------------------------------------------
(* What a step does to the timers that fire: it leaves them alone, or the  *)
(* innermost activation begins with one, has its callback return, or ends  *)
(* with it.                                                                *)

Untouched ==
  /\ firing' = firing /\ fired' = fired /\ valid' \subseteq valid /\ depth' \in 0..MaxDepth
  /\ \A d \in 1..depth' : Busy(frame'[d]) =>
       d \in 1..depth /\ frame'[d] = frame[d]

OthersStay == depth' = depth /\ \A d \in 1..depth : d # depth => frame'[d] = frame[d]

Calling ==
  LET t == Head(frame[depth].due)
  IN /\ depth > 0 /\ OthersStay
     /\ t \in valid \ firing /\ firing' = firing \cup {t}
     /\ fired' = fired \cup {t} /\ valid' = valid
     /\ frame'[depth].pc = "callout" /\ frame'[depth].due = frame[depth].due
     /\ frame[depth].due # <<>>
     /\ frame'[depth].oldFireTSR = fireTSR[t]

Returning ==
  LET t == Head(frame[depth].due)
  IN /\ depth > 0 /\ OthersStay
     /\ Busy(frame[depth]) /\ HasReturned(frame'[depth])
     /\ frame'[depth].due = frame[depth].due
     /\ frame'[depth].oldFireTSR = frame[depth].oldFireTSR
     /\ firing' = firing /\ fired' = fired /\ valid' \subseteq valid
     /\ HasReturned(frame[depth]) \/ Interval[t] # 0 \/ t \notin valid'

Ending ==
  /\ depth > 0 /\ OthersStay
  /\ HasReturned(frame[depth]) /\ ~Busy(frame'[depth])
  /\ firing' = firing \ {Head(frame[depth].due)}
  /\ fired' = fired /\ valid' = valid

LEMMA TopIsSet ==
  ASSUME FramesInv, depth > 0, NEW f, IsFrame(f), SetTop(f)
  PROVE  /\ depth' = depth /\ depth' \in 0..MaxDepth
         /\ frame' = [d \in 1..MaxDepth |-> frame'[d]]
         /\ \A d \in 1..MaxDepth : IsFrame(frame'[d])
         /\ frame'[depth] = f /\ OthersStay
  <1>1. depth \in 1..MaxDepth /\ depth' = depth /\ frame' = [frame EXCEPT ![depth] = f]
    BY TimersAssumption DEF FramesInv, SetTop
  <1>2. frame' = [d \in 1..MaxDepth |-> IF d = depth THEN f ELSE frame[d]]
    BY <1>1 DEF FramesInv
  <1> QED
    BY <1>1, <1>2, TimersAssumption, SMTT(30) DEF FramesInv, OthersStay

\* A frame in which one field has been assigned.
LEMMA FieldAssigned ==
  ASSUME NEW f, IsFrame(f), NEW v
  PROVE  /\ /\ IsFrame([f EXCEPT !.pc = v])
            /\ [f EXCEPT !.pc = v].pc = v /\ [f EXCEPT !.pc = v].due = f.due
            /\ [f EXCEPT !.pc = v].oldFireTSR = f.oldFireTSR
         /\ /\ IsFrame([f EXCEPT !.due = v]) /\ [f EXCEPT !.due = v].pc = f.pc
            /\ [f EXCEPT !.due = v].due = v
            /\ [f EXCEPT !.due = v].oldFireTSR = f.oldFireTSR
         /\ /\ IsFrame([f EXCEPT !.oldFireTSR = v]) /\ [f EXCEPT !.oldFireTSR = v].pc = f.pc
            /\ [f EXCEPT !.oldFireTSR = v].due = f.due
            /\ [f EXCEPT !.oldFireTSR = v].oldFireTSR = v
         /\ /\ IsFrame([f EXCEPT !.handled = v]) /\ [f EXCEPT !.handled = v].pc = f.pc
            /\ [f EXCEPT !.handled = v].due = f.due
            /\ [f EXCEPT !.handled = v].oldFireTSR = f.oldFireTSR
         /\ /\ IsFrame([f EXCEPT !.modes = v]) /\ [f EXCEPT !.modes = v].pc = f.pc
            /\ [f EXCEPT !.modes = v].due = f.due
            /\ [f EXCEPT !.modes = v].oldFireTSR = f.oldFireTSR
  <1> DEFINE m == f.mode  p == f.pc  d == f.due  o == f.oldFireTSR
             h == f.handled  n == f.modes
  <1>1. f = [mode |-> m, pc |-> p, due |-> d, oldFireTSR |-> o, handled |-> h, modes |-> n]
    BY DEF IsFrame
  <1> HIDE DEF m, p, d, o, h, n
  <1>2. [f EXCEPT !.pc = v] =
         [mode |-> m, pc |-> v, due |-> d, oldFireTSR |-> o, handled |-> h, modes |-> n]
    BY <1>1
  <1>3. [f EXCEPT !.due = v] =
         [mode |-> m, pc |-> p, due |-> v, oldFireTSR |-> o, handled |-> h, modes |-> n]
    BY <1>1
  <1>4. [f EXCEPT !.oldFireTSR = v] =
         [mode |-> m, pc |-> p, due |-> d, oldFireTSR |-> v, handled |-> h, modes |-> n]
    BY <1>1
  <1>5. [f EXCEPT !.handled = v] =
         [mode |-> m, pc |-> p, due |-> d, oldFireTSR |-> o, handled |-> v, modes |-> n]
    BY <1>1
  <1>6. [f EXCEPT !.modes = v] =
         [mode |-> m, pc |-> p, due |-> d, oldFireTSR |-> o, handled |-> h, modes |-> v]
    BY <1>1
  <1> QED
    BY <1>1, <1>2, <1>3, <1>4, <1>5, <1>6 DEF IsFrame

LEMMA TopIsFrame ==
  ASSUME FramesInv, depth > 0
  PROVE  IsFrame(Top)
  BY TimersAssumption DEF FramesInv, Top

\* A step of the innermost activation, to a frame that is not busy.
LEMMA QuietTop ==
  ASSUME FramesInv, depth > 0, NEW f, IsFrame(f), SetTop(f), ~Busy(f),
         UNCHANGED <<firing, fired, valid>>
  PROVE  FramesInv' /\ Untouched
  BY TopIsSet DEF FramesInv, Untouched, OthersStay

LEMMA NewFrameIsFrame ==
  ASSUME NEW m
  PROVE  IsFrame(NewFrame(m)) /\ ~Busy(NewFrame(m))
  <1>1. IsFrame(NewFrame(m))
    BY DEF IsFrame, NewFrame
  <1>2. NewFrame(m).pc = "away"
    BY DEF NewFrame
  <1> QED
    BY <1>1, <1>2 DEF Busy

\* Activations begin and return quietly.
LEMMA RunIsQuiet ==
  ASSUME FramesInv, NEW m, Run(m)
  PROVE  FramesInv' /\ Untouched
  <1> DEFINE f == NewFrame(m)
  <1>1. IsFrame(f) /\ ~Busy(f)
    BY NewFrameIsFrame
  <1>2. frame' = [frame EXCEPT ![depth + 1] = f]
    BY DEF Run
  <1>3. /\ depth' = depth + 1 /\ depth' \in 1..MaxDepth
        /\ UNCHANGED <<firing, fired, valid>>
    BY TimersAssumption DEF Run, FramesInv, timerVars
  <1> HIDE DEF f
  <1>4. frame' = [d \in 1..MaxDepth |-> IF d = depth + 1 THEN f ELSE frame[d]]
    BY <1>2 DEF FramesInv
  <1> QED
    BY <1>1, <1>3, <1>4, TimersAssumption DEF FramesInv, Untouched

LEMMA ReturnIsQuiet ==
  ASSUME FramesInv, Return
  PROVE  FramesInv' /\ Untouched
  <1> DEFINE f == NewFrame(Top.mode)
  <1>1. IsFrame(f) /\ ~Busy(f)
    BY NewFrameIsFrame
  <1>2. frame' = [frame EXCEPT ![depth] = f]
    BY DEF Return
  <1>3. /\ depth' = depth - 1 /\ depth \in 1..MaxDepth /\ depth' \in 0..MaxDepth
        /\ UNCHANGED <<firing, fired, valid>>
    BY TimersAssumption DEF Return, At, FramesInv, timerVars
  <1> HIDE DEF f
  <1>4. frame' = [d \in 1..MaxDepth |-> IF d = depth THEN f ELSE frame[d]]
    BY <1>2 DEF FramesInv
  <1> QED
    BY <1>1, <1>3, <1>4, TimersAssumption DEF FramesInv, Untouched

\* The activation is woken, collects the timers, skips one, or is done.
LEMMA WokenUpIsQuiet ==
  ASSUME FramesInv, WokenUp
  PROVE  FramesInv' /\ Untouched
  <1> DEFINE f == [Top EXCEPT !.pc = "woken"]
  <1>1. depth > 0 /\ SetTop(f) /\ UNCHANGED <<firing, fired, valid>>
    BY DEF WokenUp, At, timerVars
  <1>2. IsFrame(Top)
    BY <1>1, TopIsFrame
  <1>3. IsFrame(f) /\ f.pc = "woken"
    BY <1>2, FieldAssigned, Zenon
  <1> HIDE DEF f
  <1> QED
    BY <1>1, <1>3, QuietTop DEF Busy

LEMMA CollectTimersIsQuiet ==
  ASSUME FramesInv, CollectTimers
  PROVE  FramesInv' /\ Untouched
  <1> DEFINE due == Selected(timers[Top.mode], {t \in Timers : IsDue(t)})
             p == [Top EXCEPT !.pc = "timers"]
             h == [p EXCEPT !.handled = FALSE]
             f == [Top EXCEPT !.pc = "timers", !.handled = FALSE, !.due = due]
  <1>1. depth > 0 /\ SetTop(f) /\ UNCHANGED <<firing, fired, valid>>
    BY Zenon DEF CollectTimers, At, timerVars
  <1> HIDE DEF due
  <1>2. IsFrame(Top)
    BY <1>1, TopIsFrame
  <1>3. IsFrame(f) /\ f.pc = "timers"
    <2>1. IsFrame(p) /\ p.pc = "timers"
      BY <1>2, FieldAssigned, Zenon
    <2> HIDE DEF p
    <2>2. IsFrame(h) /\ h.pc = "timers"
      BY <2>1, FieldAssigned, ZenonT(30)
    <2> HIDE DEF h
    <2>3. f = [h EXCEPT !.due = due]
      BY Zenon DEF h, p
    <2> HIDE DEF f
    <2> QED
      BY <2>2, <2>3, FieldAssigned, Zenon
  <1> HIDE DEF f
  <1> QED
    BY <1>1, <1>3, QuietTop DEF Busy

LEMMA SkipTimerIsQuiet ==
  ASSUME FramesInv, SkipTimer
  PROVE  FramesInv' /\ Untouched
  <1> DEFINE f == Skipped(Top)
  <1>1. /\ depth > 0 /\ Top.pc = "timers" /\ SetTop(f)
        /\ UNCHANGED <<firing, fired, valid>>
    BY DEF SkipTimer, At, timerVars
  <1>2. IsFrame(Top)
    BY <1>1, TopIsFrame
  <1>3. IsFrame(f) /\ f.pc = "timers"
    BY <1>1, <1>2, FieldAssigned, Zenon DEF Skipped
  <1> HIDE DEF f
  <1> QED
    BY <1>1, <1>3, QuietTop DEF Busy

LEMMA TimersDoneIsQuiet ==
  ASSUME FramesInv, TimersDone
  PROVE  FramesInv' /\ Untouched
  <1> DEFINE p == [Top EXCEPT !.pc = "away"]
             f == [Top EXCEPT !.pc = "away", !.handled = FALSE]
  <1>1. depth > 0 /\ SetTop(f) /\ UNCHANGED <<firing, fired, valid>>
    BY DEF TimersDone, At, timerVars
  <1>2. IsFrame(Top)
    BY <1>1, TopIsFrame
  <1>3. IsFrame(f) /\ f.pc = "away"
    <2>1. IsFrame(p) /\ p.pc = "away"
      BY <1>2, FieldAssigned, Zenon
    <2>2. f = [p EXCEPT !.handled = FALSE]
      BY Zenon
    <2> HIDE DEF p, f
    <2> QED
      BY <2>1, <2>2, FieldAssigned, ZenonT(30)
  <1> HIDE DEF f
  <1> QED
    BY <1>1, <1>3, QuietTop DEF Busy

\* The innermost activation marks a timer and calls it back.
LEMMA FireTimerCalls ==
  ASSUME FramesInv, FireTimer
  PROVE  FramesInv' /\ Calling
  <1> DEFINE t == Head(Top.due)
             p == [Top EXCEPT !.pc = "callout"]
             f == [Top EXCEPT !.pc = "callout", !.oldFireTSR = fireTSR[t]]
  <1>1. depth > 0 /\ SetTop(f) /\ valid' = valid
    BY DEF FireTimer, At
  <1>2. /\ t \in valid \ firing /\ firing' = firing \cup {t} /\ fired' = fired \cup {t}
        /\ Top.due # <<>>
    BY DEF FireTimer, IsDue
  <1>3. IsFrame(Top)
    BY <1>1, TopIsFrame
  <1>4. /\ IsFrame(f) /\ f.pc = "callout" /\ f.due = Top.due
        /\ f.oldFireTSR = fireTSR[t]
    <2>1. IsFrame(p) /\ p.pc = "callout" /\ p.due = Top.due
      BY <1>3, FieldAssigned, Zenon
    <2>2. f = [p EXCEPT !.oldFireTSR = fireTSR[t]]
      BY Zenon
    <2> HIDE DEF p
    <2>3. /\ IsFrame([p EXCEPT !.oldFireTSR = fireTSR[t]]) /\ [p EXCEPT !.oldFireTSR = fireTSR[t]].pc = p.pc
         /\ [p EXCEPT !.oldFireTSR = fireTSR[t]].due = p.due /\ [p EXCEPT !.oldFireTSR = fireTSR[t]].oldFireTSR = fireTSR[t]
      BY <2>1, FieldAssigned, ZenonT(30)
    <2> HIDE DEF f
    <2> QED
      BY <2>1, <2>2, <2>3
  <1> HIDE DEF f
  <1> QED
    BY <1>1, <1>2, <1>4, TopIsSet DEF FramesInv, Calling, Top

\* The callback returns, and a timer that has expired is removed.
LEMMA CallbackReturnsAgain ==
  ASSUME FramesInv, CallbackReturns
  PROVE  FramesInv' /\ Returning
  <1> DEFINE t == Head(Top.due)
             p == [Top EXCEPT !.pc = "expired"]
             e == [Top EXCEPT !.pc = "expired", !.modes = rlModes[t]]
             r == [Top EXCEPT !.pc = "relock"]
  <1>1. /\ depth > 0 /\ Top.pc = "callout"
        /\ firing' = firing /\ fired' = fired
    BY DEF CallbackReturns, At
  <1>2. \/ valid' = valid \ {t} /\ SetTop(e)
        \/ (Interval[t] # 0 \/ t \notin valid) /\ valid' = valid /\ SetTop(r)
    BY DEF CallbackReturns
  <1>3. IsFrame(Top)
    BY <1>1, TopIsFrame
  <1>4. /\ IsFrame(e) /\ e.pc = "expired" /\ e.due = Top.due /\ e.oldFireTSR = Top.oldFireTSR
        /\ IsFrame(r) /\ r.pc = "relock" /\ r.due = Top.due /\ r.oldFireTSR = Top.oldFireTSR
    <2>1. IsFrame(p) /\ p.pc = "expired" /\ p.due = Top.due /\ p.oldFireTSR = Top.oldFireTSR
      BY <1>3, FieldAssigned, Zenon
    <2>2. e = [p EXCEPT !.modes = rlModes[t]]
      BY Zenon
    <2>3. IsFrame(r) /\ r.pc = "relock" /\ r.due = Top.due /\ r.oldFireTSR = Top.oldFireTSR
      BY <1>3, FieldAssigned, Zenon
    <2> HIDE DEF p
    <2>4. /\ IsFrame([p EXCEPT !.modes = rlModes[t]]) /\ [p EXCEPT !.modes = rlModes[t]].pc = p.pc
         /\ [p EXCEPT !.modes = rlModes[t]].due = p.due /\ [p EXCEPT !.modes = rlModes[t]].oldFireTSR = p.oldFireTSR
      BY <2>1, FieldAssigned, Zenon
    <2> HIDE DEF e, r
    <2> QED
      BY <2>1, <2>2, <2>3, <2>4
  <1> HIDE DEF e, r
  <1>5. CASE valid' = valid \ {t} /\ SetTop(e)
    BY <1>1, <1>4, <1>5, TopIsSet DEF FramesInv, Returning, Top, Busy, HasReturned
  <1>6. CASE (Interval[t] # 0 \/ t \notin valid) /\ valid' = valid /\ SetTop(r)
    BY <1>1, <1>4, <1>6, TopIsSet DEF FramesInv, Returning, Top, Busy, HasReturned
  <1> QED
    BY <1>2, <1>5, <1>6

LEMMA RemoveExpiredReturns ==
  ASSUME FramesInv, RemoveExpired
  PROVE  FramesInv' /\ Returning
  <1> DEFINE p == [Top EXCEPT !.pc = "relock"]
             f == [Top EXCEPT !.pc = "relock", !.modes = {}]
  <1>1. /\ depth > 0 /\ Top.pc = "expired" /\ SetTop(f)
        /\ firing' = firing /\ fired' = fired /\ valid' = valid
    BY DEF RemoveExpired, At
  <1>2. IsFrame(Top)
    BY <1>1, TopIsFrame
  <1>3. IsFrame(f) /\ f.pc = "relock" /\ f.due = Top.due /\ f.oldFireTSR = Top.oldFireTSR
    <2>1. IsFrame(p) /\ p.pc = "relock" /\ p.due = Top.due /\ p.oldFireTSR = Top.oldFireTSR
      BY <1>2, FieldAssigned, Zenon
    <2>2. f = [p EXCEPT !.modes = {}]
      BY Zenon
    <2> HIDE DEF p
    <2>3. /\ IsFrame([p EXCEPT !.modes = {}]) /\ [p EXCEPT !.modes = {}].pc = p.pc
         /\ [p EXCEPT !.modes = {}].due = p.due /\ [p EXCEPT !.modes = {}].oldFireTSR = p.oldFireTSR
      BY <2>1, FieldAssigned, Zenon
    <2> HIDE DEF f
    <2> QED
      BY <2>1, <2>2, <2>3
  <1> HIDE DEF f
  <1> QED
    BY <1>1, <1>3, TopIsSet DEF FramesInv, Returning, Top, Busy, HasReturned

\* The activation is done with the timer, and unmarks it.
LEMMA TimerDoneEnds ==
  ASSUME FramesInv, TimerDone
  PROVE  FramesInv' /\ Ending
  <1> DEFINE p == [Skipped(Top) EXCEPT !.pc = "timers"]
             f == [Skipped(Top) EXCEPT !.pc = "timers", !.handled = TRUE]
  <1>1. /\ depth > 0 /\ Top.pc = "relock" /\ SetTop(f)
        /\ firing' = firing \ {Head(Top.due)} /\ fired' = fired /\ valid' = valid
    BY DEF TimerDone, At
  <1>2. IsFrame(Top)
    BY <1>1, TopIsFrame
  <1>3. IsFrame(Skipped(Top))
    BY <1>2, FieldAssigned, Zenon DEF Skipped
  <1>4. IsFrame(f) /\ f.pc = "timers"
    <2>1. IsFrame(p) /\ p.pc = "timers"
      BY <1>3, FieldAssigned, Zenon
    <2>2. f = [p EXCEPT !.handled = TRUE]
      BY Zenon
    <2> HIDE DEF p, f
    <2> QED
      BY <2>1, <2>2, FieldAssigned, ZenonT(30)
  <1> HIDE DEF f
  <1> QED
    BY <1>1, <1>4, TopIsSet DEF FramesInv, Ending, Top, Busy, HasReturned

\* What other threads call, time and the kernel's timers leave the
\* activations alone.
LEMMA OthersAreQuiet ==
  ASSUME FramesInv,
         \/ Tick \/ \E m \in Modes : Expires(m)
         \/ \E c \in Callers : Begin(c) \/ Finish(c)
         \/ UNCHANGED vars
  PROVE  FramesInv' /\ Untouched
  <1>1. /\ UNCHANGED <<firing, fired, depth, frame>> /\ valid' \subseteq valid
    <2>1. CASE Tick \/ UNCHANGED vars
      BY <2>1 DEF Tick, vars, timerVars, loop
    <2>2. CASE \E m \in Modes : Expires(m)
      BY <2>2 DEF Expires, MkTimerExpires, DispatchTimerExpires, timerVars, loop
    <2>3. CASE \E c \in Callers : Begin(c)
      BY <2>3 DEF Begin, AddTimer, RemoveTimer, SetNextFireDate, SetTolerance,
                  Invalidate, timerVars, loop
    <2>4. CASE \E c \in Callers : Finish(c)
      BY <2>4 DEF Finish, AddTimerToMode, SetDateInModes, RemoveInvalid, loop
    <2> QED
      BY <2>1, <2>2, <2>3, <2>4
  <1> QED
    BY <1>1 DEF FramesInv, Untouched

LEMMA EveryStep ==
  ASSUME FramesInv, [Next]_vars
  PROVE  FramesInv' /\ (Untouched \/ Calling \/ Returning \/ Ending)
  <1>1. CASE Step
    BY <1>1, WokenUpIsQuiet, CollectTimersIsQuiet, SkipTimerIsQuiet, FireTimerCalls,
       CallbackReturnsAgain, RemoveExpiredReturns, TimerDoneEnds, TimersDoneIsQuiet
    DEF Step
  <1>2. CASE Return
    BY <1>2, ReturnIsQuiet
  <1>3. CASE \E m \in Modes : Run(m)
    BY <1>3, RunIsQuiet
  <1> QED
    BY <1>1, <1>2, <1>3, OthersAreQuiet DEF Next

----------------------------------------------------------------------------
(* No callback runs while it runs already.  What makes that so is that the *)
(* timer of every activation that is busy is marked as firing, and that an *)
(* activation unmarks no timer but its own.                                *)

FiringInv ==
  /\ FramesInv
  /\ \A d \in 1..depth : Busy(frame[d]) => Head(frame[d].due) \in firing
  /\ \A d, e \in 1..depth :
       Busy(frame[d]) /\ Busy(frame[e]) /\ Head(frame[d].due) = Head(frame[e].due) => d = e

LEMMA InitFiring == Init => FiringInv
  <1> SUFFICES ASSUME Init PROVE FiringInv
    OBVIOUS
  <1> DEFINE f == NewFrame(CHOOSE m \in Modes : TRUE)
  <1>1. IsFrame(f)
    BY NewFrameIsFrame
  <1>2. frame = [d \in 1..MaxDepth |-> f]
    BY DEF Init
  <1> HIDE DEF f
  <1>3. depth = 0 /\ valid = Timers /\ firing = {}
    BY DEF Init
  <1> QED
    BY <1>1, <1>2, <1>3, TimersAssumption DEF FiringInv, FramesInv

LEMMA NextFiring == FiringInv /\ [Next]_vars => FiringInv'
  <1> SUFFICES ASSUME FiringInv, [Next]_vars PROVE FiringInv'
    OBVIOUS
  <1>1. FramesInv /\ FramesInv' /\ (Untouched \/ Calling \/ Returning \/ Ending)
    BY EveryStep DEF FiringInv
  <1>2. CASE Untouched
    BY <1>1, <1>2 DEF FiringInv, Untouched
  <1>3. CASE Calling
    <2>1. /\ depth' = depth
          /\ \A d \in 1..depth : d # depth => frame'[d] = frame[d]
          /\ frame'[depth].due = frame[depth].due
          /\ Head(frame[depth].due) \notin firing
          /\ firing' = firing \cup {Head(frame[depth].due)}
      BY <1>3 DEF Calling, OthersStay
    <2> QED
      BY <1>1, <2>1 DEF FiringInv
  <1>4. CASE Returning
    <2>1. /\ depth' = depth /\ firing' = firing
          /\ \A d \in 1..depth : d # depth => frame'[d] = frame[d]
          /\ frame'[depth].due = frame[depth].due /\ Busy(frame[depth])
      BY <1>4 DEF Returning, OthersStay
    <2> QED
      BY <1>1, <2>1 DEF FiringInv
  <1>5. CASE Ending
    <2>1. /\ depth' = depth /\ firing' = firing \ {Head(frame[depth].due)}
          /\ \A d \in 1..depth : d # depth => frame'[d] = frame[d]
          /\ Busy(frame[depth]) /\ ~Busy(frame'[depth])
      BY <1>5 DEF Ending, OthersStay, Busy, HasReturned
    <2>d. depth \in 1..depth
      BY <1>5, <1>1, TimersAssumption DEF Ending, FramesInv
    <2>2. \A d \in 1..depth : Busy(frame'[d]) =>
            /\ d # depth /\ frame'[d] = frame[d] /\ Busy(frame[d])
            /\ Head(frame[d].due) \in firing
      BY <2>1 DEF FiringInv
    <2>3. \A d \in 1..depth : Busy(frame'[d]) =>
            Head(frame[d].due) # Head(frame[depth].due)
      BY <2>1, <2>d, <2>2 DEF FiringInv
    <2>4. \A d, e \in 1..depth :
            /\ Busy(frame'[d]) /\ Busy(frame'[e])
            /\ Head(frame'[d].due) = Head(frame'[e].due)
            => d = e
      BY <2>2 DEF FiringInv
    <2>5. \A d \in 1..depth : Busy(frame'[d]) => Head(frame'[d].due) \in firing'
      BY <2>1, <2>2, <2>3
    <2> QED
      BY <1>1, <2>1, <2>4, <2>5 DEF FiringInv
  <1> QED
    BY <1>1, <1>2, <1>3, <1>4, <1>5

\* A timer's callback does not run while it runs already, in whatever modes
\* the timer is, however the activations nest and whatever other threads call
\* meanwhile: __CFRunLoopDoTimer tests and sets the firing bit under the
\* timer's lock, and clears it only when it is done with the timer.
THEOREM NotReentered == Spec => []CallbackNotReentered
  <1>1. FiringInv => CallbackNotReentered
    BY DEF FiringInv, CallbackNotReentered, Busy
  <1> QED
    BY <1>1, InitFiring, NextFiring, PTL DEF Spec

----------------------------------------------------------------------------
(* A timer that does not repeat calls back once: from its callback on it   *)
(* is either marked as firing or invalid, and it is unmarked only by the   *)
(* activation that has made it invalid, or has found it so.                *)

ExpiredInv ==
  /\ \A t \in fired : Interval[t] = 0 => t \notin valid \/ t \in firing
  /\ \A d \in 1..depth :
       HasReturned(frame[d]) /\ Interval[Head(frame[d].due)] = 0
         => Head(frame[d].due) \notin valid

LEMMA NextExpired ==
  FiringInv /\ ExpiredInv /\ [Next]_vars
    => /\ ExpiredInv'
       /\ \A t \in fired : Interval[t] = 0 => t \notin firing' \ firing
  <1> SUFFICES ASSUME FiringInv, ExpiredInv, [Next]_vars
               PROVE  /\ ExpiredInv'
                      /\ \A t \in fired : Interval[t] = 0 => t \notin firing' \ firing
    OBVIOUS
  <1>1. FramesInv /\ FramesInv' /\ (Untouched \/ Calling \/ Returning \/ Ending)
    BY EveryStep DEF FiringInv
  <1>2. CASE Untouched
    BY <1>1, <1>2 DEF ExpiredInv, Untouched, Busy, HasReturned
  <1>3. CASE Calling
    <2>1. /\ depth' = depth /\ valid' = valid
          /\ \A d \in 1..depth : d # depth => frame'[d] = frame[d]
          /\ ~HasReturned(frame'[depth])
          /\ Head(frame[depth].due) \in valid \ firing
          /\ firing' = firing \cup {Head(frame[depth].due)}
          /\ fired' = fired \cup {Head(frame[depth].due)}
      BY <1>3 DEF Calling, OthersStay, HasReturned
    <2> QED
      BY <1>1, <2>1 DEF ExpiredInv
  <1>4. CASE Returning
    <2>1. /\ depth' = depth /\ firing' = firing /\ fired' = fired /\ valid' \subseteq valid
          /\ \A d \in 1..depth : d # depth => frame'[d] = frame[d]
          /\ frame'[depth].due = frame[depth].due
          /\ \/ HasReturned(frame[depth]) \/ Interval[Head(frame[depth].due)] # 0
             \/ Head(frame[depth].due) \notin valid'
      BY <1>4 DEF Returning, OthersStay
    <2> QED
      BY <1>1, <2>1 DEF ExpiredInv
  <1>5. CASE Ending
    <2>1. /\ depth' = depth /\ firing' = firing \ {Head(frame[depth].due)}
          /\ fired' = fired /\ valid' = valid
          /\ \A d \in 1..depth : d # depth => frame'[d] = frame[d]
          /\ HasReturned(frame[depth]) /\ ~HasReturned(frame'[depth])
      BY <1>5 DEF Ending, OthersStay, Busy, HasReturned
    <2>d. depth \in 1..depth
      BY <1>5, <1>1, TimersAssumption DEF Ending, FramesInv
    <2> QED
      BY <1>1, <2>1, <2>d DEF ExpiredInv
  <1> QED
    BY <1>1, <1>2, <1>3, <1>4, <1>5

\* A timer that does not repeat calls back once, whatever modes it is in and
\* whatever is called of it: it is invalidated before its firing bit is
\* cleared (__CFRunLoopDoTimer).
THEOREM FiresOnce == Spec => OneShotFiresOnce
  <1>1. Init => ExpiredInv
    BY DEF Init, ExpiredInv
  <1>2. FiringInv /\ ExpiredInv /\ [Next]_vars
          => [\A t \in fired : Interval[t] = 0 => t \notin firing' \ firing]_vars
    BY NextExpired
  <1> QED
    BY <1>1, <1>2, InitFiring, NextFiring, NextExpired, PTL DEF Spec, OneShotFiresOnce

----------------------------------------------------------------------------
(* A timer whose date nobody sets does not drift: the date an activation   *)
(* has remembered is the timer's until it sets the next, which is a        *)
(* multiple of the interval later.                                         *)

\* The first date that is still to come exists: the numbers of intervals that
\* reach beyond now have a least.
LEMMA FirstDateToCome ==
  ASSUME NEW date \in Nat, NEW interval \in Nat, interval > 0, now \in Nat
  PROVE  \E k \in 0..(now + 1) :
           /\ date + k * interval > now
           /\ k > 0 => date + (k - 1) * interval <= now
  <1> DEFINE T == {k \in Nat : date + k * interval > now}
             R == OpToRel(<, Nat)
  <1>w. IsWellFoundedOn(R, Nat)
    BY NatLessThanWellFounded, Zenon
  <1>o. R = {p \in Nat \X Nat : p[1] < p[2]}
    BY Zenon DEF OpToRel
  <1> HIDE DEF R
  <1>1. now + 1 \in T
    <2>1. \A n \in Nat : n * interval >= n
      OBVIOUS
    <2>2. (now + 1) * interval >= now + 1 /\ (now + 1) * interval \in Nat
      BY <2>1
    <2> QED
      BY <2>2
  <1>2. PICK k \in T : \A j \in T : ~(<<j, k>> \in R)
    <2>1. T \subseteq Nat /\ T # {}
      BY <1>1
    <2> HIDE DEF T
    <2> QED
      BY <1>w, <2>1, WFMin, Zenon
  <1>3. ASSUME NEW j \in T PROVE k <= j
    <2>1. j \in Nat /\ k \in Nat /\ ~(<<j, k>> \in R)
      BY <1>2
    <2>2. <<j, k>> \in Nat \X Nat /\ <<j, k>>[1] = j /\ <<j, k>>[2] = k
      BY <2>1
    <2>3. ~(j < k)
      BY <2>1, <2>2, <1>o
    <2> QED
      BY <2>1, <2>3
  <1>4. k \in 0..(now + 1) /\ date + k * interval > now
    BY <1>1, <1>3
  <1>5. ASSUME k > 0 PROVE date + (k - 1) * interval <= now
    <2>1. k - 1 \in Nat /\ k - 1 \notin T
      BY <1>3, <1>4, <1>5
    <2>2. (k - 1) * interval \in Nat
      BY <2>1
    <2> QED
      BY <2>1, <2>2
  <1> QED
    BY <1>4, <1>5

LEMMA NextDate ==
  ASSUME NEW date \in Nat, NEW interval \in TSR, interval > 0, now \in Nat
  PROVE  /\ NextFireTSR(date, interval) \in Nat
         /\ NextFireTSR(date, interval) # LongMax =>
              \E k \in 0..(now + 1) :
                /\ NextFireTSR(date, interval) = date + k * interval
                /\ k > 0 => date + (k - 1) * interval <= now
  <1> DEFINE IsMissed(k) == /\ date + k * interval > now
                            /\ k > 0 => date + (k - 1) * interval <= now
             missed == CHOOSE k \in 0..(now + 1) : IsMissed(k)
             next == NextFireTSR(date, interval)
  <1>1. interval \in Nat /\ LongMax \in Nat
    BY TSRAssumption DEF TSR
  <1>2. \E k \in 0..(now + 1) : IsMissed(k)
    BY <1>1, FirstDateToCome
  <1>3. missed \in 0..(now + 1) /\ IsMissed(missed)
    <2> HIDE DEF IsMissed
    <2> QED
      BY <1>2
  <1>4. next = IF LongMax - interval <= date THEN LongMax ELSE date + missed * interval
    BY DEF NextFireTSR
  <1> HIDE DEF missed, next
  <1>5. missed * interval \in Nat
    BY <1>1, <1>3
  <1>6. next \in Nat
    BY <1>1, <1>4, <1>5
  <1>7. ASSUME next # LongMax
        PROVE  \E k \in 0..(now + 1) :
                 next = date + k * interval /\ (k > 0 => date + (k - 1) * interval <= now)
    <2>1. next = date + missed * interval
      BY <1>4, <1>7
    <2> QED
      BY <2>1, <1>3
  <1> QED
    BY <1>6, <1>7 DEF next

\* A timer is on one of the dates it was created with.
OnDate(t, date) ==
  date # LongMax => \E k \in 0..(MaxTime + 1) : date = FireDate[t] + k * Interval[t]

LEMMA NextDateIsOnDate ==
  ASSUME NEW t \in Timers, Interval[t] > 0, now \in 0..MaxTime,
         NEW date \in Nat, OnDate(t, date)
  PROVE  OnDate(t, NextFireTSR(date, Interval[t]))
  <1> DEFINE next == NextFireTSR(date, Interval[t])
             i == Interval[t]
             first == FireDate[t]
  <1>1. /\ i \in TSR /\ i \in Nat /\ first \in Nat /\ LongMax \in Nat
        /\ MaxTime \in Nat /\ now \in Nat
    BY TSRAssumption, TimersAssumption DEF TSR
  <1> HIDE DEF i, first
  <1>2. SUFFICES ASSUME next # LongMax
                 PROVE  \E k \in 0..(MaxTime + 1) : next = first + k * i
    BY DEF OnDate, i, first
  <1>3. i > 0
    BY DEF i
  <1>4. PICK m \in 0..(now + 1) : next = date + m * i /\ (m > 0 => date + (m - 1) * i <= now)
    BY <1>1, <1>2, <1>3, NextDate DEF i
  <1>5. date # LongMax
    <2>1. NextFireTSR(LongMax, i) = LongMax
      <3>1. LongMax - i <= LongMax
        BY <1>1
      <3> QED
        BY <3>1 DEF NextFireTSR
    <2> QED
      BY <1>2, <2>1 DEF i
  <1>6. PICK j \in 0..(MaxTime + 1) : date = first + j * i
    BY <1>5 DEF OnDate, i, first
  <1> HIDE DEF next
  <1>7. CASE m = 0
    BY <1>1, <1>4, <1>6, <1>7
  <1>8. CASE m > 0
    <2>1. next = first + (j + m) * i /\ j + m \in Nat
      BY <1>1, <1>4, <1>6
    <2>2. (j + (m - 1)) * i <= now
      BY <1>1, <1>4, <1>6, <1>8
    <2>3. j + (m - 1) \in Nat
      BY <1>1, <1>8
    <2>4. \A n \in Nat : n <= n * i
      BY <1>1, <1>3
    <2>5. j + (m - 1) <= now
      <3> DEFINE n == j + (m - 1)
      <3>1. n \in Nat /\ n * i <= now
        BY <2>2, <2>3
      <3> HIDE DEF n
      <3>2. n <= n * i /\ n * i \in Nat
        BY <3>1, <2>4, <1>1
      <3>3. n <= now
        BY <3>1, <3>2, <1>1
      <3> QED
        BY <3>3 DEF n
    <2>6. j + m \in 0..(MaxTime + 1)
      BY <2>1, <2>5, <1>1
    <2> QED
      BY <2>1, <2>6
  <1> QED
    BY <1>1, <1>4, <1>7, <1>8

DatesInv ==
  /\ now \in 0..MaxTime /\ fireTSR \in [Timers -> Nat]
  /\ doing = [c \in Callers |-> doing[c]] /\ \A c \in Callers : doing[c].call # "setDate"
  /\ \A d \in 1..depth :
       Busy(frame[d]) => frame[d].oldFireTSR = fireTSR[Head(frame[d].due)]
  /\ NoDrift

LEMMA InitDates == Init => DatesInv
  <1> SUFFICES ASSUME Init PROVE DatesInv
    OBVIOUS
  <1>1. /\ now = 0 /\ depth = 0 /\ fireTSR = FireDate
        /\ doing = [c \in Callers |-> Idle] /\ Idle.call = "none"
    BY DEF Init, Idle
  <1>2. MaxTime \in Nat /\ FireDate \in [Timers -> Nat] /\ Interval \in [Timers -> Nat]
    BY TSRAssumption, TimersAssumption DEF TSR
  <1>3. \A t \in Timers : FireDate[t] = FireDate[t] + 0 * Interval[t]
    BY <1>2
  <1>4. \A t \in Timers : OnDate(t, fireTSR[t])
    BY <1>1, <1>2, <1>3 DEF OnDate
  <1> QED
    BY <1>1, <1>2, <1>4 DEF DatesInv, NoDrift, OnDate

\* Only __CFRunLoopDoTimer and CFRunLoopTimerSetNextFireDate set a date.
LEMMA DatesStay ==
  ASSUME "setDate" \notin Calls, DatesInv, [Next]_vars
  PROVE  /\ now' \in 0..MaxTime
         /\ doing' = [c \in Callers |-> doing'[c]]
         /\ \A c \in Callers : doing'[c].call # "setDate"
         /\ fireTSR' = fireTSR \/ TimerDone
  <1>0. MaxTime \in Nat
    BY TSRAssumption, TimersAssumption DEF TSR
  <1>1. CASE Tick \/ UNCHANGED vars
    BY <1>0, <1>1 DEF Tick, vars, timerVars, DatesInv
  <1>2. CASE Step \/ Return \/ \E m \in Modes : Expires(m) \/ Run(m)
    <2>1. now' = now /\ doing' = doing
      BY <1>2 DEF Step, WokenUp, CollectTimers, SkipTimer, FireTimer, CallbackReturns,
         RemoveExpired, TimerDone, TimersDone, Return, Expires, MkTimerExpires,
         DispatchTimerExpires, Run
    <2>2. fireTSR' = fireTSR \/ TimerDone
      BY <1>2 DEF Step, WokenUp, CollectTimers, SkipTimer, FireTimer, CallbackReturns,
         RemoveExpired, TimersDone, Return, Expires, MkTimerExpires,
         DispatchTimerExpires, Run, timerVars
    <2> QED
      BY <2>1, <2>2 DEF DatesInv
  <1>3. ASSUME NEW c \in Callers, Begin(c) \/ Finish(c)
        PROVE  /\ now' = now /\ fireTSR' = fireTSR
               /\ doing' = doing \/ \E r : doing' = [doing EXCEPT ![c] = r] /\ r.call # "setDate"
    <2>1. Idle.call # "setDate" /\ doing[c].call # "setDate"
      BY DEF Idle, DatesInv
    <2>2. ASSUME NEW t \in Timers, NEW m \in Modes
          PROVE  [call |-> "add", timer |-> t, mode |-> m].call # "setDate"
      OBVIOUS
    <2>3. ASSUME NEW t \in Timers
          PROVE  [call |-> "invalidate", timer |-> t, modes |-> rlModes[t]].call # "setDate"
      OBVIOUS
    <2>4. CASE Finish(c)
      BY <2>1, <2>4, Zenon DEF Finish, AddTimerToMode, SetDateInModes, RemoveInvalid
    <2>5. ASSUME NEW t \in Timers, NEW m \in Modes, AddTimer(c, t, m) \/ RemoveTimer(c, t, m)
          PROVE  /\ now' = now /\ fireTSR' = fireTSR
                 /\ doing' = doing \/ \E r : doing' = [doing EXCEPT ![c] = r] /\ r.call # "setDate"
      BY <2>2, <2>5, Zenon DEF AddTimer, RemoveTimer, timerVars
    <2>6. ASSUME NEW t \in Timers, Invalidate(c, t)
          PROVE  /\ now' = now /\ fireTSR' = fireTSR
                 /\ doing' = doing \/ \E r : doing' = [doing EXCEPT ![c] = r] /\ r.call # "setDate"
      BY <2>3, <2>6, Zenon DEF Invalidate
    <2>7. ASSUME NEW t \in Timers, NEW v, SetNextFireDate(c, t, v) \/ SetTolerance(c, t, v)
          PROVE  /\ now' = now /\ fireTSR' = fireTSR
                 /\ doing' = doing \/ \E r : doing' = [doing EXCEPT ![c] = r] /\ r.call # "setDate"
      BY <2>7, Zenon DEF SetNextFireDate, Begins, SetTolerance
    <2> QED
      BY <1>3, <2>4, <2>5, <2>6, <2>7, Zenon DEF Begin
  <1>4. ASSUME NEW c \in Callers, Begin(c) \/ Finish(c)
        PROVE  /\ doing' = [e \in Callers |-> doing'[e]]
               /\ \A e \in Callers : doing'[e].call # "setDate"
    <2>1. CASE doing' = doing
      BY <2>1 DEF DatesInv
    <2>2. ASSUME NEW r, doing' = [doing EXCEPT ![c] = r], r.call # "setDate"
          PROVE  /\ doing' = [e \in Callers |-> doing'[e]]
                 /\ \A e \in Callers : doing'[e].call # "setDate"
      <3>1. doing' = [e \in Callers |-> IF e = c THEN r ELSE doing[e]]
        BY <2>2 DEF DatesInv
      <3> QED
        BY <2>2, <3>1 DEF DatesInv
    <2> QED
      BY <1>3, <1>4, <2>1, <2>2
  <1>5. CASE \E c \in Callers : Begin(c) \/ Finish(c)
    BY <1>3, <1>4, <1>5 DEF DatesInv
  <1> QED
    BY <1>1, <1>2, <1>5 DEF Next

\* The next date of the timer that is done; nothing else has a date set.
LEMMA TimerDoneKeepsDates ==
  ASSUME FiringInv, ExpiredInv, DatesInv, TimerDone
  PROVE  /\ fireTSR' \in [Timers -> Nat]
         /\ \A u \in Timers : Interval[u] > 0 => OnDate(u, fireTSR'[u])
         /\ \A u \in Timers : u # Head(frame[depth].due) => fireTSR'[u] = fireTSR[u]
  <1> DEFINE t == Head(frame[depth].due)
             next == NextFireTSR(frame[depth].oldFireTSR, Interval[t])
  <1>1. depth > 0 /\ frame[depth].pc = "relock" /\ depth \in 1..depth
    <2>1. At("relock")
      BY Zenon DEF TimerDone
    <2>2. depth \in 0..MaxDepth /\ MaxDepth \in Nat
      BY TimersAssumption, Zenon DEF FiringInv, FramesInv
    <2> QED
      BY <2>1, <2>2 DEF At, Top
  <1>2. t \in Timers /\ frame[depth].oldFireTSR = fireTSR[t]
    BY <1>1 DEF FiringInv, FramesInv, DatesInv, Busy
  <1>3. Interval[t] # 0 \/ t \notin valid
    BY <1>1 DEF ExpiredInv, HasReturned
  <1>d. \A u \in Timers : Interval[u] > 0 => OnDate(u, fireTSR[u])
    BY DEF DatesInv, NoDrift, OnDate
  <1>4. CASE t \notin valid
    <2>1. fireTSR' = fireTSR
      BY <1>4, Zenon DEF TimerDone, Top
    <2> QED
      BY <2>1, <1>d DEF DatesInv
  <1>5. CASE t \in valid
    <2>1. fireTSR[t] \in Nat /\ Interval[t] \in TSR /\ Interval[t] \in Nat
      BY <1>2, TSRAssumption, TimersAssumption DEF DatesInv, TSR
    <2>2. Interval[t] > 0
      BY <1>3, <1>5, <2>1
    <2>3. fireTSR' = [fireTSR EXCEPT ![t] = next]
      <3>1. ~(frame[depth].oldFireTSR < fireTSR[t]) /\ frame[depth].oldFireTSR >= fireTSR[t]
        BY <1>2, <2>1
      <3> QED
        BY <1>5, <3>1, Zenon DEF TimerDone, Top
    <2>4. now \in Nat /\ now \in 0..MaxTime
      BY DEF DatesInv
    <2>5. next \in Nat
      BY <1>2, <2>1, <2>2, <2>4, NextDate
    <2>6. OnDate(t, next)
      BY <1>2, <2>1, <2>2, <2>4, <1>d, NextDateIsOnDate
    <2> HIDE DEF next
    <2>7. \A u \in Timers : fireTSR'[u] = IF u = t THEN next ELSE fireTSR[u]
      BY <2>3 DEF DatesInv
    <2>8. fireTSR' \in [Timers -> Nat]
      BY <2>3, <2>5 DEF DatesInv
    <2> QED
      BY <2>6, <2>7, <2>8, <1>d
  <1> QED
    BY <1>4, <1>5

LEMMA NextDates ==
  ASSUME "setDate" \notin Calls
  PROVE  FiringInv /\ ExpiredInv /\ DatesInv /\ [Next]_vars => DatesInv'
  <1> SUFFICES ASSUME FiringInv, ExpiredInv, DatesInv, [Next]_vars PROVE DatesInv'
    OBVIOUS
  <1> DEFINE Remembered(d) ==
        Busy(frame'[d]) => frame'[d].oldFireTSR = fireTSR'[Head(frame'[d].due)]
  <1>1. FramesInv /\ (Untouched \/ Calling \/ Returning \/ Ending)
    BY EveryStep DEF FiringInv
  <1>2. /\ now' \in 0..MaxTime
        /\ fireTSR' = fireTSR \/ TimerDone
        /\ doing' = [c \in Callers |-> doing'[c]]
        /\ \A c \in Callers : doing'[c].call # "setDate"
    BY DatesStay
  <1>3. /\ fireTSR' \in [Timers -> Nat]
        /\ \A t \in Timers : Interval[t] > 0 => OnDate(t, fireTSR'[t])
    BY <1>2, TimerDoneKeepsDates DEF DatesInv, NoDrift, OnDate
  <1>4. ASSUME fireTSR' = fireTSR PROVE \A d \in 1..depth' : Remembered(d)
    <2>1. CASE Untouched
      BY <1>4, <2>1 DEF DatesInv, Untouched
    <2>2. CASE Calling
      BY <1>4, <2>2 DEF DatesInv, Calling, OthersStay
    <2>3. CASE Returning
      BY <1>4, <2>3 DEF DatesInv, Returning, OthersStay
    <2>4. CASE Ending
      BY <1>4, <2>4 DEF DatesInv, Ending, OthersStay
    <2> QED
      BY <1>1, <2>1, <2>2, <2>3, <2>4
  <1>5. ASSUME TimerDone PROVE \A d \in 1..depth' : Remembered(d)
    <2>1. Ending /\ depth \in 1..depth
      BY <1>5, <1>1, TimerDoneEnds, TimersAssumption DEF Ending, FramesInv
    <2>2. /\ \A d \in 1..depth : d # depth => frame'[d] = frame[d]
          /\ depth' = depth /\ Busy(frame[depth]) /\ ~Busy(frame'[depth])
      BY <2>1 DEF Ending, OthersStay, Busy, HasReturned
    <2>3. ASSUME NEW d \in 1..depth, Busy(frame'[d])
          PROVE  frame'[d].oldFireTSR = fireTSR'[Head(frame'[d].due)]
      <3>1. d # depth /\ frame'[d] = frame[d] /\ Busy(frame[d])
        BY <2>2, <2>3
      <3>2. Head(frame[d].due) # Head(frame[depth].due)
        BY <2>1, <2>2, <3>1 DEF FiringInv
      <3>3. Head(frame[d].due) \in Timers
        BY <3>1, <1>1 DEF FiringInv, FramesInv
      <3>4. fireTSR'[Head(frame[d].due)] = fireTSR[Head(frame[d].due)]
        BY <1>5, <3>2, <3>3, TimerDoneKeepsDates
      <3> QED
        BY <3>1, <3>4 DEF DatesInv
    <2> QED
      BY <2>2, <2>3
  <1>6. \A d \in 1..depth' : Remembered(d)
    BY <1>2, <1>4, <1>5
  <1>7. \A d \in 1..depth' :
          Busy(frame'[d]) => frame'[d].oldFireTSR = fireTSR'[Head(frame'[d].due)]
    BY <1>6
  <1>8. NoDrift'
    BY <1>3 DEF NoDrift, OnDate
  <1> HIDE DEF Remembered
  <1> QED
    BY <1>2, <1>3, <1>7, <1>8 DEF DatesInv

\* "the next fire date is calculated from the original fire date ..., to avoid
\* drift" (CFRunLoop.h): where no date is set, every timer that repeats stays
\* on the dates it was created with, however late it is called back
\* (__CFRunLoopDoTimer).
THEOREM DatesDoNotDrift ==
  ASSUME "setDate" \notin Calls
  PROVE  Spec => []NoDrift
  <1>1. Init => ExpiredInv
    BY DEF Init, ExpiredInv
  <1>2. DatesInv => NoDrift
    BY DEF DatesInv
  <1>3. FiringInv /\ ExpiredInv /\ [Next]_vars => ExpiredInv'
    BY NextExpired
  <1>4. FiringInv /\ ExpiredInv /\ DatesInv /\ [Next]_vars => DatesInv'
    BY NextDates
  <1> QED
    BY <1>1, <1>2, <1>3, <1>4, InitFiring, NextFiring, InitDates, PTL DEF Spec

----------------------------------------------------------------------------
(* Where __CFRunLoopInsertionIndexInTimerArray puts a timer.               *)

\* Induction, over a set of numbers in place of a predicate.
LEMMA NatSetInduction ==
  ASSUME NEW N \in SUBSET Nat, 0 \in N, \A n \in N : n + 1 \in N
  PROVE  N = Nat
  <1> DEFINE R == OpToRel(<, Nat)
             Others == Nat \ N
  <1>w. IsWellFoundedOn(R, Nat)
    BY NatLessThanWellFounded, Zenon
  <1>o. R = {p \in Nat \X Nat : p[1] < p[2]}
    BY Zenon DEF OpToRel
  <1> HIDE DEF R
  <1>1. SUFFICES ASSUME Others # {} PROVE FALSE
    OBVIOUS
  <1>2. PICK k \in Others : \A j \in Others : ~(<<j, k>> \in R)
    <2>1. Others \subseteq Nat
      OBVIOUS
    <2> HIDE DEF Others
    <2> QED
      BY <1>w, <1>1, <2>1, WFMin, Zenon
  <1>3. k \in Nat /\ k # 0 /\ k \notin N
    BY <1>2
  <1>4. k - 1 \in Nat
    BY <1>3
  <1>5. k - 1 \notin Others
    <2>1. <<k - 1, k>> \in Nat \X Nat /\ <<k - 1, k>>[1] < <<k - 1, k>>[2]
      BY <1>3, <1>4
    <2>2. <<k - 1, k>> \in R
      BY <2>1, <1>o
    <2> QED
      BY <2>2, <1>2
  <1>6. k - 1 \in N /\ (k - 1) + 1 = k
    BY <1>3, <1>4, <1>5
  <1> QED
    BY <1>3, <1>6

\* A function on 0..n that is first at 0 and whose values make each the next.
IsMade(g, n, S, first, step) ==
  /\ g \in [0..n -> S] /\ g[0] = first
  /\ \A i \in 1..n : g[i] = step[i][g[i - 1]]

LEMMA RecursionExists ==
  ASSUME NEW n \in Nat, NEW S, NEW first \in S, NEW step \in [1..n -> [S -> S]]
  PROVE  \E g : IsMade(g, n, S, first, step)
  <1> DEFINE Makes(g, k) == /\ g \in [0..k -> S] /\ g[0] = first
                            /\ \A i \in 1..k : g[i] = step[i][g[i - 1]]
             N == {k \in Nat : k <= n => \E g : Makes(g, k)}
  <1>1. 0 \in N
    <2> DEFINE g == [i \in 0..0 |-> first]
    <2>1. Makes(g, 0)
      OBVIOUS
    <2> QED
      BY <2>1
  <1>2. ASSUME NEW k \in N PROVE k + 1 \in N
    <2>1. CASE k + 1 <= n
      <3>1. PICK g : Makes(g, k)
        BY <2>1
      <3> DEFINE h == [i \in 0..(k + 1) |-> IF i = k + 1 THEN step[k + 1][g[k]] ELSE g[i]]
      <3>2. g[k] \in S /\ k \in Nat /\ g \in [0..k -> S]
        BY <3>1
      <3>3. step[k + 1][g[k]] \in S
        BY <2>1, <3>2
      <3>4. h \in [0..(k + 1) -> S] /\ h[0] = first
        BY <3>1, <3>2, <3>3
      <3>5. ASSUME NEW i \in 1..(k + 1) PROVE h[i] = step[i][h[i - 1]]
        <4>1. CASE i = k + 1
          BY <3>2, <4>1
        <4>2. CASE i # k + 1
          <5>1. i \in 1..k /\ i - 1 \in 0..(k + 1) /\ i - 1 # k + 1
            BY <3>2, <4>2
          <5> QED
            BY <3>1, <4>2, <5>1
        <4> QED
          BY <4>1, <4>2
      <3> HIDE DEF h
      <3>6. Makes(h, k + 1)
        BY <3>4, <3>5
      <3> HIDE DEF Makes
      <3> QED
        BY <3>2, <3>6
    <2>2. CASE ~(k + 1 <= n)
      BY <2>2
    <2> QED
      BY <2>1, <2>2
  <1>3. n \in N
    <2> HIDE DEF N
    <2>1. N \subseteq Nat
      BY DEF N
    <2>2. N = Nat
      BY <1>1, <1>2, <2>1, NatSetInduction
    <2> QED
      BY <2>2
  <1>4. PICK g : Makes(g, n)
    BY <1>3
  <1>5. IsMade(g, n, S, first, step)
    BY <1>4 DEF IsMade
  <1> QED
    BY <1>5

LEMMA PowersOf2 ==
  /\ PowerOf2[0] = 1
  /\ \A k \in Nat : PowerOf2[k + 1] = 2 * PowerOf2[k]
  /\ PowerOf2 \in [Nat -> Nat]
  <1> DEFINE Doubles(g, n) == /\ g \in [0..n -> Nat] /\ g[0] = 1
                              /\ \A i \in 1..n : g[i] = 2 * g[i - 1]
             h == [n \in Nat |-> CHOOSE g : Doubles(g, n)]
             p == [k \in Nat |-> h[k][k]]
  <1>1. ASSUME NEW n \in Nat PROVE Doubles(h[n], n)
    <2> DEFINE step == [i \in 1..n |-> [v \in Nat |-> 2 * v]]
    <2>1. step \in [1..n -> [Nat -> Nat]] /\ 1 \in Nat
      OBVIOUS
    <2> HIDE DEF step
    <2>2. PICK g : IsMade(g, n, Nat, 1, step)
      BY <2>1, RecursionExists
    <2> USE DEF step
    <2>3. ASSUME NEW i \in 1..n PROVE g[i] = 2 * g[i - 1]
      <3>1. i - 1 \in 0..n
        OBVIOUS
      <3>2. g[i - 1] \in Nat /\ g[i] = step[i][g[i - 1]]
        BY <2>2, <3>1 DEF IsMade
      <3> QED
        BY <3>2
    <2>4. Doubles(g, n)
      BY <2>2, <2>3 DEF IsMade
    <2> HIDE DEF Doubles
    <2> QED
      BY <2>4
  <1> HIDE DEF h
  \* The approximations agree where both are defined.
  <1>2. ASSUME NEW n \in Nat
        PROVE  \A k \in Nat : k <= n => h[n][k] = h[n + 1][k]
    <2> DEFINE N == {k \in Nat : k <= n => h[n][k] = h[n + 1][k]}
    <2>1. Doubles(h[n], n) /\ Doubles(h[n + 1], n + 1)
      <3>1. n + 1 \in Nat
        OBVIOUS
      <3> HIDE DEF Doubles
      <3> QED
        BY <1>1, <3>1
    <2>2. 0 \in N
      BY <2>1
    <2>3. ASSUME NEW k \in N PROVE k + 1 \in N
      <3>1. CASE ~(k + 1 <= n)
        BY <3>1
      <3>2. CASE k + 1 <= n
        <4>1. k + 1 \in 1..n /\ k + 1 \in 1..(n + 1) /\ (k + 1) - 1 = k /\ k <= n
          BY <3>2
        <4>2. h[n][k + 1] = 2 * h[n][k] /\ h[n + 1][k + 1] = 2 * h[n + 1][k]
          BY <2>1, <4>1
        <4> QED
          BY <4>1, <4>2
      <3> QED
        BY <3>1, <3>2
    <2> HIDE DEF N
    <2>4. N \subseteq Nat
      BY DEF N
    <2>5. N = Nat
      BY <2>2, <2>3, <2>4, NatSetInduction
    <2> QED
      BY <2>5 DEF N
  <1>3. p \in [Nat -> Nat]
    BY <1>1
  <1>4. p[0] = 1
    BY <1>1
  <1>5. ASSUME NEW k \in Nat PROVE p[k + 1] = 2 * p[k]
    <2>1. h[k + 1][k + 1] = 2 * h[k + 1][k]
      <3>1. k + 1 \in 1..(k + 1) /\ (k + 1) - 1 = k
        OBVIOUS
      <3> QED
        BY <1>1, <3>1
    <2>2. h[k][k] = h[k + 1][k]
      BY <1>2
    <2> QED
      BY <2>1, <2>2
  <1> HIDE DEF p
  <1>6. ASSUME NEW k \in Nat
        PROVE  p[k] = IF k = 0 THEN 1 ELSE 2 * p[k - 1]
    <2>1. CASE k = 0
      BY <1>4, <2>1
    <2>2. CASE k # 0
      <3>1. k - 1 \in Nat /\ (k - 1) + 1 = k
        BY <2>2
      <3> QED
        BY <1>5, <2>2, <3>1
    <2> QED
      BY <2>1, <2>2
  <1>7. p = [k \in Nat |-> IF k = 0 THEN 1 ELSE 2 * p[k - 1]]
    <2>1. p = [k \in Nat |-> p[k]]
      BY <1>3
    <2> QED
      BY <1>6, <2>1
  <1>8. PowerOf2 = [k \in Nat |-> IF k = 0 THEN 1 ELSE 2 * PowerOf2[k - 1]]
    BY <1>7 DEF PowerOf2
  <1>9. PowerOf2[0] = 1
    BY <1>8
  <1>10. ASSUME NEW k \in Nat PROVE PowerOf2[k + 1] = 2 * PowerOf2[k]
    <2>1. k + 1 \in Nat /\ k + 1 # 0 /\ (k + 1) - 1 = k
      OBVIOUS
    <2> QED
      BY <1>8, <2>1
  <1> DEFINE N == {k \in Nat : PowerOf2[k] \in Nat}
  <1>11. N = Nat
    <2>1. 0 \in N
      BY <1>9
    <2>2. ASSUME NEW k \in N PROVE k + 1 \in N
      BY <1>10
    <2> HIDE DEF N
    <2>3. N \subseteq Nat
      BY DEF N
    <2> QED
      BY <2>1, <2>2, <2>3, NatSetInduction
  <1>12. PowerOf2 \in [Nat -> Nat]
    <2>1. \A k \in Nat : PowerOf2[k] \in Nat
      BY <1>11
    <2>2. PowerOf2 = [k \in Nat |-> PowerOf2[k]]
      BY <1>8
    <2> HIDE DEF N
    <2> QED
      BY <2>1, <2>2
  <1> QED
    BY <1>9, <1>10, <1>12

LEMMA FlslDefined ==
  ASSUME NEW cnt \in Nat
  PROVE  Flsl(cnt) \in 0..cnt /\ PowerOf2[Flsl(cnt)] > cnt
  <1> DEFINE Is(k, c) == PowerOf2[k] > c /\ (k > 0 => PowerOf2[k - 1] <= c)
             N == {c \in Nat : \E k \in 0..c : Is(k, c)}
  <1>p. /\ PowerOf2[0] = 1 /\ \A k \in Nat : PowerOf2[k] \in Nat
        /\ \A k \in Nat : PowerOf2[k + 1] = 2 * PowerOf2[k]
    BY PowersOf2
  <1>1. 0 \in N
    <2>1. 0 \in 0..0 /\ Is(0, 0)
      BY <1>p
    <2> QED
      BY <2>1
  <1>2. ASSUME NEW c \in N PROVE c + 1 \in N
    <2>1. PICK k \in 0..c : Is(k, c)
      OBVIOUS
    <2>2. k \in Nat /\ c \in Nat /\ PowerOf2[k] \in Nat /\ PowerOf2[k] >= c + 1
      BY <1>p, <2>1
    <2>3. CASE PowerOf2[k] > c + 1
      <3>1. k > 0 => PowerOf2[k - 1] <= c + 1
        <4>1. k > 0 => k - 1 \in Nat
          BY <2>2
        <4>2. k > 0 => PowerOf2[k - 1] \in Nat /\ PowerOf2[k - 1] <= c
          BY <4>1, <1>p, <2>1
        <4> QED
          BY <4>2, <2>2
      <3>2. k \in 0..(c + 1) /\ Is(k, c + 1)
        BY <2>1, <2>2, <2>3, <3>1
      <3> QED
        BY <2>2, <3>2
    <2>4. CASE PowerOf2[k] = c + 1
      <3>1. k + 1 \in 0..(c + 1) /\ (k + 1) - 1 = k /\ PowerOf2[k + 1] = 2 * (c + 1)
        BY <1>p, <2>1, <2>2, <2>4
      <3>2. Is(k + 1, c + 1)
        BY <2>2, <2>4, <3>1
      <3> QED
        BY <2>2, <3>1, <3>2
    <2> QED
      BY <2>2, <2>3, <2>4
  <1>3. N = Nat
    <2> HIDE DEF N
    <2>1. N \subseteq Nat
      BY DEF N
    <2> QED
      BY <1>1, <1>2, <2>1, NatSetInduction
  <1>4. \E k \in 0..cnt : Is(k, cnt)
    BY <1>3
  <1>5. Flsl(cnt) \in 0..cnt /\ Is(Flsl(cnt), cnt)
    BY <1>4 DEF Flsl
  <1> QED
    BY <1>5

\* An array in the order of the dates.
InOrder(array, dates) ==
  \A i, j \in 1..Len(array) : i < j => dates[array[i]] <= dates[array[j]]

\* The indices of a search with n tests.
IsSearch(index, n, array, dates, tsr) ==
  /\ index \in [0..n -> Nat] /\ index[0] = 0
  /\ \A i \in 1..n :
       index[i] = Tested(array, dates, tsr, index[i - 1], PowerOf2[n - i])

LEMMA IndexAfterDefined ==
  ASSUME NEW array, Len(array) \in Nat, NEW dates, NEW tsr
  PROVE  IsSearch(IndexAfter(array, dates, tsr), Flsl(Len(array)) + 1, array, dates, tsr)
  <1> DEFINE Is(g) == g = [n \in 0..(Flsl(Len(array)) + 1) |->
               IF n = 0 THEN 0
               ELSE Tested(array, dates, tsr, g[n - 1], PowerOf2[(Flsl(Len(array)) + 1) - n])]
  <1>2. IndexAfter(array, dates, tsr) = CHOOSE g : Is(g)
    BY DEF IndexAfter
  <1> DEFINE n == Flsl(Len(array)) + 1
             index == IndexAfter(array, dates, tsr)
             After(v, i) == Tested(array, dates, tsr, v, PowerOf2[n - i])
             step == [i \in 1..n |-> [v \in Nat |-> After(v, i)]]
  <1>0. Flsl(Len(array)) \in 0..Len(array)
    BY FlslDefined
  <1>1. n \in Nat /\ n >= 1 /\ PowerOf2 \in [Nat -> Nat]
    <2>1. PowerOf2 \in [Nat -> Nat]
      BY PowersOf2
    <2>2. n \in Nat /\ n >= 1
      BY <1>0
    <2> QED
      BY <2>1, <2>2
  <1> HIDE DEF n, index, Is
  <1>3. step \in [1..n -> [Nat -> Nat]]
    <2>1. ASSUME NEW i \in 1..n, NEW v \in Nat PROVE After(v, i) \in Nat
      <3>1. n - i \in Nat
        BY <1>1
      <3>2. PowerOf2[n - i] \in Nat
        BY <1>1, <3>1
      <3> QED
        BY <3>2 DEF Tested
    <2> HIDE DEF After
    <2> QED
      BY <2>1
  <1> HIDE DEF step
  <1>4. PICK g : IsMade(g, n, Nat, 0, step)
    BY <1>1, <1>3, RecursionExists
  <1>5. ASSUME NEW i \in 1..n PROVE g[i] = After(g[i - 1], i)
    <2>1. i - 1 \in 0..n
      BY <1>1
    <2>2. g[i - 1] \in Nat /\ g[i] = step[i][g[i - 1]]
      BY <1>4, <2>1 DEF IsMade
    <2> HIDE DEF After
    <2> QED
      BY <2>2 DEF step
  <1>6. ASSUME NEW i \in 0..n PROVE g[i] = IF i = 0 THEN 0 ELSE After(g[i - 1], i)
    <2> HIDE DEF After
    <2>1. i = 0 \/ i \in 1..n
      BY <1>1
    <2> QED
      BY <1>4, <1>5, <2>1 DEF IsMade
  <1>7. Is(g)
    <2> DEFINE l == Flsl(Len(array)) + 1
    <2>1. g \in [0..l -> Nat]
      BY <1>4 DEF IsMade, n
    <2>2. \A k \in 0..l :
            g[k] = IF k = 0 THEN 0 ELSE Tested(array, dates, tsr, g[k - 1], PowerOf2[l - k])
      BY <1>6 DEF n
    <2> HIDE DEF l
    <2>3. g = [k \in 0..l |->
            IF k = 0 THEN 0 ELSE Tested(array, dates, tsr, g[k - 1], PowerOf2[l - k])]
      BY <2>1, <2>2
    <2> QED
      BY <2>3, Zenon DEF l, Is
  <1>8. index = [i \in 0..n |-> IF i = 0 THEN 0 ELSE After(index[i - 1], i)]
    <2>1. Is(index)
      BY <1>2, <1>7 DEF index
    <2> QED
      BY <2>1, Zenon DEF n, Is
  <1>9. index[0] = 0
    BY <1>1, <1>8
  <1>10. ASSUME NEW i \in 1..n PROVE index[i] = After(index[i - 1], i)
    <2>1. i \in 0..n /\ i # 0
      BY <1>1
    <2> HIDE DEF After
    <2> QED
      BY <1>8, <2>1
  <1> DEFINE N == {k \in Nat : k <= n => index[k] \in Nat}
  <1>11. N = Nat
    <2>1. 0 \in N
      BY <1>9
    <2>2. ASSUME NEW k \in N PROVE k + 1 \in N
      <3>1. CASE ~(k + 1 <= n)
        BY <3>1
      <3>2. CASE k + 1 <= n
        <4>1. k + 1 \in 1..n /\ (k + 1) - 1 = k /\ k <= n /\ n - (k + 1) \in Nat
          BY <1>1, <3>2
        <4>2. index[k] \in Nat /\ PowerOf2[n - (k + 1)] \in Nat
          BY <1>1, <4>1
        <4>3. index[k + 1] = After(index[k], k + 1)
          BY <1>10, <4>1
        <4>4. index[k + 1] \in Nat
          BY <4>2, <4>3 DEF Tested
        <4> QED
          BY <4>4
      <3> QED
        BY <3>1, <3>2
    <2> HIDE DEF N
    <2>3. N \subseteq Nat
      BY DEF N
    <2> QED
      BY <2>1, <2>2, <2>3, NatSetInduction
  <1>12. index \in [0..n -> Nat]
    <2>1. index = [i \in 0..n |-> index[i]]
      BY <1>8
    <2>2. ASSUME NEW i \in 0..n PROVE index[i] \in Nat
      <3>0. i \in Nat /\ i <= n
        BY <1>1
      <3> HIDE DEF After
      <3>1. i <= n => index[i] \in Nat
        <4>1. i \in N
          <5> HIDE DEF N
          <5> QED
            BY <1>11, <3>0
        <4> QED
          BY <4>1, Zenon
      <3> QED
        BY <3>0, <3>1, Zenon
    <2> HIDE DEF After, N
    <2> QED
      BY <2>1, <2>2
  <1> QED
    BY <1>1, <1>9, <1>10, <1>12 DEF n, index, IsSearch

\* The search ends at an index whose timer fires no later, unless that is 0,
\* and behind which, in an array that is in order, no other timer does.
LEMMA SearchEnds ==
  ASSUME NEW T, NEW array \in Seq(T), NEW dates, NEW tsr
  PROVE  LET index == IndexAfter(array, dates, tsr)[Flsl(Len(array)) + 1]
             LEQ(i) == IsLEQ(array, dates, tsr, i)
         IN /\ index \in Nat /\ (index = 0 \/ LEQ(index))
            /\ (\A i, j \in Nat : i <= j /\ LEQ(j) => LEQ(i)) =>
                 \A j \in Nat : j > index => ~LEQ(j)
  <1> DEFINE n == Flsl(Len(array)) + 1
             index == IndexAfter(array, dates, tsr)
             LEQ(i) == IsLEQ(array, dates, tsr, i)
             Falls == \A i, j \in Nat : i <= j /\ LEQ(j) => LEQ(i)
             p(i) == PowerOf2[n - i]
             Good(i) == /\ index[i] = 0 \/ LEQ(index[i])
                        /\ Falls => \A j \in Nat : j >= index[i] + p(i) => ~LEQ(j)
             N == {k \in Nat : k <= n => Good(k)}
  <1>1. Len(array) \in Nat
    BY LenProperties
  <1>2. /\ n \in Nat /\ n >= 1 /\ index \in [0..n -> Nat] /\ index[0] = 0
        /\ \A i \in 1..n : index[i] = IF LEQ(index[i - 1] + p(i))
                                      THEN index[i - 1] + p(i) ELSE index[i - 1]
    <2>1. n \in Nat /\ n >= 1
      <3>1. Flsl(Len(array)) \in 0..Len(array)
        BY <1>1, FlslDefined
      <3> QED
        BY <1>1, <3>1
    <2> QED
      BY <1>1, <2>1, IndexAfterDefined DEF IsSearch, Tested
  <1>3. \A i \in Nat : LEQ(i) => i < Len(array)
    BY DEF IsLEQ
  <1>4. ASSUME NEW i \in 0..n PROVE p(i) \in Nat
    <2>1. n - i \in Nat
      BY <1>2
    <2>2. PowerOf2 \in [Nat -> Nat]
      BY PowersOf2
    <2> QED
      BY <2>1, <2>2
  <1>5. p(n) = 1
    <2>1. n - n = 0
      BY <1>2
    <2> QED
      BY <2>1, PowersOf2
  <1>6. p(0) > Len(array)
    <2>1. Flsl(Len(array)) \in Nat /\ PowerOf2[Flsl(Len(array))] > Len(array)
      BY <1>1, FlslDefined
    <2>2. PowerOf2[n] = 2 * PowerOf2[Flsl(Len(array))] /\ PowerOf2[Flsl(Len(array))] \in Nat
      BY <2>1, PowersOf2
    <2>3. n - 0 = n
      BY <1>2
    <2> QED
      BY <1>1, <2>1, <2>2, <2>3
  <1>7. ASSUME NEW i \in 1..n PROVE p(i - 1) = 2 * p(i)
    <2>1. n - i \in Nat /\ n - (i - 1) = (n - i) + 1
      BY <1>2
    <2> QED
      BY <2>1, PowersOf2
  <1> HIDE DEF n, index, p
  <1>8. 0 \in N
    <2>1. ASSUME NEW j \in Nat, j >= index[0] + p(0) PROVE ~LEQ(j)
      <3>1. p(0) \in Nat /\ index[0] = 0
        BY <1>2, <1>4
      <3>2. ~(j < Len(array))
        BY <1>1, <1>6, <2>1, <3>1
      <3> QED
        BY <1>3, <3>2
    <2> HIDE DEF LEQ
    <2> QED
      BY <1>2, <2>1
  <1>9. ASSUME NEW k \in N PROVE k + 1 \in N
    <2>1. CASE ~(k + 1 <= n)
      BY <2>1
    <2>2. CASE k + 1 <= n
      <3>1. /\ k + 1 \in 1..n /\ (k + 1) - 1 = k /\ k <= n /\ k \in 0..n /\ k + 1 \in 0..n
        BY <1>2, <2>2
      <3>2. /\ index[k] \in Nat /\ p(k + 1) \in Nat /\ p(k) = 2 * p(k + 1)
        BY <1>2, <1>4, <1>7, <3>1
      <3>3. index[k + 1] = IF LEQ(index[k] + p(k + 1)) THEN index[k] + p(k + 1) ELSE index[k]
        BY <1>2, <3>1
      <3>4. Good(k)
        BY <3>1
      <3> HIDE DEF LEQ
      <3>5. CASE LEQ(index[k] + p(k + 1))
        <4>1. index[k + 1] = index[k] + p(k + 1) /\ LEQ(index[k + 1])
          BY <3>3, <3>5
        <4>2. \A j \in Nat : j >= index[k + 1] + p(k + 1) => j >= index[k] + p(k)
          BY <3>2, <4>1
        <4>3. Good(k + 1)
          BY <3>4, <4>1, <4>2
        <4> HIDE DEF Good
        <4> QED
          BY <3>1, <4>3
      <3>6. CASE ~LEQ(index[k] + p(k + 1))
        <4>1. index[k + 1] = index[k]
          BY <3>3, <3>6
        <4>2. index[k] + p(k + 1) \in Nat
          BY <3>2
        <4>3. Falls => \A j \in Nat : j >= index[k] + p(k + 1) => ~LEQ(j)
          BY <3>6, <4>2
        <4>4. Good(k + 1)
          BY <3>4, <4>1, <4>3
        <4> HIDE DEF Good
        <4> QED
          BY <3>1, <4>4
      <3> QED
        BY <3>5, <3>6
    <2> QED
      BY <2>1, <2>2
  <1>10. Good(n)
    <2> HIDE DEF N, Good
    <2>1. N \subseteq Nat
      BY DEF N
    <2>2. N = Nat
      BY <1>8, <1>9, <2>1, NatSetInduction
    <2> QED
      BY <1>2, <2>2 DEF N
  <1>11. index[n] \in Nat
    BY <1>2
  <1>12. \A j \in Nat : j > index[n] => j >= index[n] + p(n)
    BY <1>5, <1>11
  <1> QED
    BY <1>10, <1>11, <1>12 DEF n, index

\* The number of timers of the array that fire no later, if it is in order:
\* those before the index do, those after it do not.
LEMMA InsertionIndexSplits ==
  ASSUME NEW T, NEW array \in Seq(T), NEW dates \in [T -> Nat], NEW tsr \in Nat
  PROVE  /\ InsertionIndex(array, dates, tsr) \in 0..Len(array)
         /\ InOrder(array, dates) =>
              /\ \A i \in 1..Len(array) :
                   i <= InsertionIndex(array, dates, tsr) <=> dates[array[i]] <= tsr
  <1> DEFINE cnt == Len(array)
             LEQ(i) == IsLEQ(array, dates, tsr, i)
             idx == IndexAfter(array, dates, tsr)[Flsl(cnt) + 1]
             res == InsertionIndex(array, dates, tsr)
             Falls == \A i, j \in Nat : i <= j /\ LEQ(j) => LEQ(i)
  <1>1. cnt \in Nat /\ \A i \in 1..cnt : array[i] \in T /\ dates[array[i]] \in Nat
    BY LenProperties, ElementOfSeq
  <1>2. \A i \in Nat : LEQ(i) <=> i < cnt /\ dates[array[i + 1]] <= tsr
    BY DEF IsLEQ
  <1>3. /\ idx \in Nat /\ (idx = 0 \/ LEQ(idx))
        /\ Falls => \A j \in Nat : j > idx => ~LEQ(j)
    BY SearchEnds, Zenon
  <1>4. res = CASE cnt = 0 -> 0
                [] cnt > ManyTimers /\ LEQ(cnt - 1) -> cnt
                [] cnt > ManyTimers /\ ~LEQ(cnt - 1) /\ ~LEQ(0) -> 0
                [] OTHER -> IF LEQ(idx) THEN idx + 1 ELSE idx
    BY Zenon DEF InsertionIndex
  <1> HIDE DEF cnt, LEQ, idx, res
  <1>5. ASSUME InOrder(array, dates) PROVE Falls
    <2> SUFFICES ASSUME NEW i \in Nat, NEW j \in Nat, i <= j, LEQ(j) PROVE LEQ(i)
      OBVIOUS
    <2>1. /\ i + 1 \in 1..cnt /\ j + 1 \in 1..cnt /\ i < cnt
          /\ dates[array[j + 1]] <= tsr
      BY <1>1, <1>2
    <2>2. CASE i = j
      BY <2>2
    <2>3. CASE i < j
      <3>1. dates[array[i + 1]] <= dates[array[j + 1]]
        BY <1>5, <2>1, <2>3 DEF InOrder, cnt
      <3>2. dates[array[i + 1]] \in Nat /\ dates[array[j + 1]] \in Nat
        BY <1>1, <2>1
      <3> QED
        BY <1>2, <2>1, <3>1, <3>2
    <2> QED
      BY <2>2, <2>3
  <1>6. CASE cnt = 0
    <2>1. res = 0
      BY <1>4, <1>6
    <2> QED
      BY <1>6, <2>1 DEF cnt, res
  \* The last timer fires no later, and neither do those before it.
  <1>7. CASE cnt > 0 /\ cnt > ManyTimers /\ LEQ(cnt - 1)
    <2>1. res = cnt
      BY <1>4, <1>7, TSRAssumption
    <2>2. ASSUME Falls, NEW i \in 1..cnt PROVE dates[array[i]] <= tsr
      <3>1. i - 1 \in Nat /\ cnt - 1 \in Nat /\ i - 1 <= cnt - 1 /\ (i - 1) + 1 = i
        BY <1>1
      <3>2. LEQ(i - 1)
        BY <1>7, <2>2, <3>1
      <3> QED
        BY <1>2, <3>1, <3>2
    <2> QED
      BY <1>1, <1>5, <2>1, <2>2 DEF cnt, res
  \* The first one fires later, and so do those after it.
  <1>8. CASE cnt > 0 /\ cnt > ManyTimers /\ ~LEQ(cnt - 1) /\ ~LEQ(0)
    <2>1. res = 0
      BY <1>4, <1>8, TSRAssumption
    <2>2. ASSUME Falls, NEW i \in 1..cnt PROVE ~(dates[array[i]] <= tsr)
      <3>1. i - 1 \in Nat /\ 0 \in Nat /\ 0 <= i - 1 /\ (i - 1) + 1 = i /\ i - 1 < cnt
        BY <1>1
      <3>2. ~LEQ(i - 1)
        BY <1>8, <2>2, <3>1
      <3> QED
        BY <1>2, <3>1, <3>2
    <2> QED
      BY <1>1, <1>5, <2>1, <2>2 DEF cnt, res
  <1>9. CASE /\ cnt > 0
             /\ ~(cnt > ManyTimers /\ LEQ(cnt - 1))
             /\ ~(cnt > ManyTimers /\ ~LEQ(cnt - 1) /\ ~LEQ(0))
    <2>1. res = IF LEQ(idx) THEN idx + 1 ELSE idx
      BY <1>1, <1>4, <1>9
    <2>2. LEQ(idx) => idx < cnt
      BY <1>2, <1>3
    <2>3. res \in 0..cnt
      BY <1>1, <1>3, <1>9, <2>1, <2>2
    <2>4. ASSUME Falls, NEW i \in 1..cnt PROVE i <= res <=> dates[array[i]] <= tsr
      <3>1. i - 1 \in Nat /\ (i - 1) + 1 = i /\ i - 1 < cnt /\ i \in Nat
        BY <1>1
      <3>2. LEQ(i - 1) <=> dates[array[i]] <= tsr
        BY <1>2, <3>1
      <3>3. CASE LEQ(idx)
        <4>1. res = idx + 1
          BY <2>1, <3>3
        <4>2. i - 1 <= idx => LEQ(i - 1)
          BY <1>3, <2>4, <3>1, <3>3
        <4>3. i - 1 > idx => ~LEQ(i - 1)
          BY <1>3, <2>4, <3>1
        <4> QED
          BY <1>3, <3>1, <3>2, <4>1, <4>2, <4>3
      <3>4. CASE ~LEQ(idx)
        <4>1. res = 0 /\ idx = 0
          BY <1>3, <2>1, <3>4
        <4>2. ~LEQ(i - 1)
          BY <2>4, <3>1, <3>4, <4>1
        <4> QED
          BY <3>1, <3>2, <4>1, <4>2
      <3> QED
        BY <3>3, <3>4
    <2> QED
      BY <1>5, <2>3, <2>4 DEF cnt, res
  <1> QED
    BY <1>1, <1>6, <1>7, <1>8, <1>9

----------------------------------------------------------------------------
(* The array, with a timer put in and with one taken out.                  *)

LEMMA InsertedAt ==
  ASSUME NEW T, NEW s \in Seq(T), NEW i \in 1..(Len(s) + 1), NEW e \in T
  PROVE  /\ InsertAt(s, i, e) \in Seq(T) /\ Len(InsertAt(s, i, e)) = Len(s) + 1
         /\ \A j \in 1..(Len(s) + 1) :
              InsertAt(s, i, e)[j] = IF j < i THEN s[j] ELSE IF j = i THEN e ELSE s[j - 1]
  <1> DEFINE l == SubSeq(s, 1, i - 1)
             r == SubSeq(s, i, Len(s))
             le == l \o <<e>>
  <1>1. Len(s) \in Nat /\ \A j \in 1..Len(s) : s[j] \in T
    BY LenProperties, ElementOfSeq
  <1>2. /\ l \in Seq(T) /\ Len(l) = i - 1
        /\ \A j \in 1..(i - 1) : l[j] = s[j]
    <2>1. 1 \in Int /\ i - 1 \in Int /\ \A j \in 1..(i - 1) : s[j] \in T
      BY <1>1
    <2>2. /\ l \in Seq(T) /\ Len(l) = IF 1 <= i - 1 THEN (i - 1) - 1 + 1 ELSE 0
          /\ \A j \in 1..((i - 1) - 1 + 1) : l[j] = s[1 + j - 1]
      BY <2>1, SubSeqProperties
    <2> HIDE DEF l
    <2> QED
      BY <1>1, <2>2
  <1>3. /\ r \in Seq(T) /\ Len(r) = Len(s) + 1 - i
        /\ \A j \in 1..(Len(s) + 1 - i) : r[j] = s[i + j - 1]
    <2>1. i \in Int /\ Len(s) \in Int /\ \A j \in i..Len(s) : s[j] \in T
      BY <1>1
    <2>2. /\ r \in Seq(T) /\ Len(r) = IF i <= Len(s) THEN Len(s) - i + 1 ELSE 0
          /\ \A j \in 1..(Len(s) - i + 1) : r[j] = s[i + j - 1]
      BY <2>1, SubSeqProperties
    <2> HIDE DEF r
    <2> QED
      BY <1>1, <2>2
  <1>4. <<e>> \in Seq(T) /\ Len(<<e>>) = 1 /\ <<e>>[1] = e
    OBVIOUS
  <1>5. InsertAt(s, i, e) = le \o r
    BY DEF InsertAt
  <1>6. /\ le \in Seq(T) /\ Len(le) = i
        /\ \A j \in 1..i : le[j] = IF j <= i - 1 THEN l[j] ELSE <<e>>[j - (i - 1)]
    <2> HIDE DEF l
    <2>1. /\ le \in Seq(T) /\ Len(le) = Len(l) + Len(<<e>>)
          /\ \A j \in 1..(Len(l) + Len(<<e>>)) :
               le[j] = IF j <= Len(l) THEN l[j] ELSE <<e>>[j - Len(l)]
      BY <1>2, <1>4, ConcatProperties
    <2> HIDE DEF le
    <2> QED
      BY <1>2, <1>4, <2>1
  <1> HIDE DEF l, r
  <1>7. \A j \in 1..i : le[j] = IF j < i THEN s[j] ELSE e
    BY <1>2, <1>4, <1>6
  <1> HIDE DEF le
  <1>8. /\ le \o r \in Seq(T) /\ Len(le \o r) = Len(le) + Len(r)
        /\ \A j \in 1..(Len(le) + Len(r)) :
             (le \o r)[j] = IF j <= Len(le) THEN le[j] ELSE r[j - Len(le)]
    BY <1>3, <1>6, ConcatProperties
  <1>9. ASSUME NEW j \in 1..(Len(s) + 1)
        PROVE  (le \o r)[j] = IF j < i THEN s[j] ELSE IF j = i THEN e ELSE s[j - 1]
    <2>1. Len(le) + Len(r) = Len(s) + 1
      BY <1>1, <1>3, <1>6
    <2>2. CASE j <= i
      BY <1>6, <1>7, <1>8, <2>1, <2>2
    <2>3. CASE j > i
      <3>1. (le \o r)[j] = r[j - i]
        BY <1>6, <1>8, <2>1, <2>3
      <3>2. j - i \in 1..(Len(s) + 1 - i) /\ i + (j - i) - 1 = j - 1
        BY <1>1, <2>3
      <3>3. r[j - i] = s[i + (j - i) - 1]
        BY <1>3, <3>2
      <3> QED
        BY <2>3, <3>1, <3>2, <3>3
    <2> QED
      <3>1. j <= i \/ j > i
        BY <1>1
      <3> QED
        BY <2>2, <2>3, <3>1, Zenon
  <1>10. Len(le \o r) = Len(s) + 1
    BY <1>1, <1>3, <1>6, <1>8
  <1> QED
    BY <1>5, <1>8, <1>9, <1>10

LEMMA RemovedAt ==
  ASSUME NEW T, NEW s \in Seq(T), NEW i \in 1..Len(s)
  PROVE  /\ RemoveAt(s, i) \in Seq(T) /\ Len(RemoveAt(s, i)) = Len(s) - 1
         /\ \A j \in 1..(Len(s) - 1) :
              RemoveAt(s, i)[j] = IF j < i THEN s[j] ELSE s[j + 1]
  <1> DEFINE l == SubSeq(s, 1, i - 1)
             r == SubSeq(s, i + 1, Len(s))
  <1>1. Len(s) \in Nat /\ \A j \in 1..Len(s) : s[j] \in T
    BY LenProperties, ElementOfSeq
  <1>2. /\ l \in Seq(T) /\ Len(l) = i - 1
        /\ \A j \in 1..(i - 1) : l[j] = s[j]
    <2>1. 1 \in Int /\ i - 1 \in Int /\ \A j \in 1..(i - 1) : s[j] \in T
      BY <1>1
    <2>2. /\ l \in Seq(T) /\ Len(l) = IF 1 <= i - 1 THEN (i - 1) - 1 + 1 ELSE 0
          /\ \A j \in 1..((i - 1) - 1 + 1) : l[j] = s[1 + j - 1]
      BY <2>1, SubSeqProperties
    <2> HIDE DEF l
    <2> QED
      BY <1>1, <2>2
  <1>3. /\ r \in Seq(T) /\ Len(r) = Len(s) - i
        /\ \A j \in 1..(Len(s) - i) : r[j] = s[i + j]
    <2>1. i + 1 \in Int /\ Len(s) \in Int /\ \A j \in (i + 1)..Len(s) : s[j] \in T
      BY <1>1
    <2>2. /\ r \in Seq(T) /\ Len(r) = IF i + 1 <= Len(s) THEN Len(s) - (i + 1) + 1 ELSE 0
          /\ \A j \in 1..(Len(s) - (i + 1) + 1) : r[j] = s[(i + 1) + j - 1]
      BY <2>1, SubSeqProperties
    <2> HIDE DEF r
    <2>3. \A j \in 1..(Len(s) - i) : (i + 1) + j - 1 = i + j /\ j \in 1..(Len(s) - (i + 1) + 1)
      BY <1>1
    <2> QED
      BY <1>1, <2>2, <2>3
  <1>4. RemoveAt(s, i) = l \o r
    BY DEF RemoveAt
  <1> HIDE DEF l, r
  <1>5. /\ l \o r \in Seq(T) /\ Len(l \o r) = Len(l) + Len(r)
        /\ \A j \in 1..(Len(l) + Len(r)) :
             (l \o r)[j] = IF j <= Len(l) THEN l[j] ELSE r[j - Len(l)]
    BY <1>2, <1>3, ConcatProperties
  <1>6. Len(l) + Len(r) = Len(s) - 1
    BY <1>1, <1>2, <1>3
  <1>7. ASSUME NEW j \in 1..(Len(s) - 1)
        PROVE  (l \o r)[j] = IF j < i THEN s[j] ELSE s[j + 1]
    <2>1. CASE j < i
      BY <1>2, <1>5, <1>6, <2>1
    <2>2. CASE j >= i
      <3>1. (l \o r)[j] = r[j - (i - 1)]
        BY <1>2, <1>5, <1>6, <2>2
      <3>2. j - (i - 1) \in 1..(Len(s) - i) /\ i + (j - (i - 1)) = j + 1
        BY <1>1, <2>2
      <3>3. r[j - (i - 1)] = s[i + (j - (i - 1))]
        BY <1>3, <3>2
      <3> QED
        BY <2>2, <3>1, <3>2, <3>3
    <2> QED
      <3>1. j < i \/ j >= i
        BY <1>1
      <3> QED
        BY <2>1, <2>2, <3>1, Zenon
  <1> QED
    BY <1>4, <1>5, <1>6, <1>7

\* An array of timers, each of them once.
IsArray(array, T) ==
  array \in Seq(T) /\ \A i, j \in 1..Len(array) : array[i] = array[j] => i = j
Holds(array, t) == \E i \in 1..Len(array) : array[i] = t

\* CFArrayRemoveValueAtIndex takes the timer out and leaves the others as they
\* are.
LEMMA WithoutTimer ==
  ASSUME NEW T, NEW array, IsArray(array, T), NEW t, Holds(array, t)
  PROVE  /\ IsArray(Without(array, t), T)
         /\ \A u : Holds(Without(array, t), u) <=> Holds(array, u) /\ u # t
         /\ \A dates : InOrder(array, dates) => InOrder(Without(array, t), dates)
  <1> DEFINE Is(i) == array[i] = t /\ \A j \in 1..(i - 1) : array[j] # t
             p == CHOOSE i \in 1..Len(array) : Is(i)
             rest == RemoveAt(array, p)
  <1>1. array \in Seq(T) /\ Len(array) \in Nat
    BY LenProperties DEF IsArray
  <1>2. p \in 1..Len(array) /\ array[p] = t
    <2>1. PICK i \in 1..Len(array) : array[i] = t
      BY DEF Holds
    <2>2. Is(i)
      <3>1. \A j \in 1..(i - 1) : j \in 1..Len(array) /\ j # i
        BY <1>1
      <3> QED
        BY <2>1, <3>1 DEF IsArray
    <2>3. p \in 1..Len(array) /\ Is(p)
      <3> HIDE DEF Is
      <3> QED
        BY <2>2
    <2> QED
      BY <2>3
  <1>3. Without(array, t) = rest
    BY Zenon DEF Without
  <1> HIDE DEF p
  <1>4. /\ rest \in Seq(T) /\ Len(rest) = Len(array) - 1
        /\ \A j \in 1..(Len(array) - 1) : rest[j] = IF j < p THEN array[j] ELSE array[j + 1]
    BY <1>1, <1>2, RemovedAt
  <1> HIDE DEF rest
  \* The place in the array of each timer of the rest.
  <1> DEFINE at(j) == IF j < p THEN j ELSE j + 1
  <1>5. ASSUME NEW j \in 1..Len(rest)
        PROVE  at(j) \in 1..Len(array) /\ at(j) # p /\ rest[j] = array[at(j)]
    BY <1>1, <1>2, <1>4
  <1>6. \A i, j \in 1..Len(rest) : /\ at(i) = at(j) => i = j
                                   /\ i < j => at(i) < at(j)
    BY <1>1, <1>2, <1>4
  <1>7. ASSUME NEW k \in 1..Len(array), k # p
        PROVE  \E j \in 1..Len(rest) : at(j) = k
    <2>1. CASE k < p
      <3>1. k \in 1..Len(rest) /\ at(k) = k
        BY <1>1, <1>2, <1>4, <2>1
      <3> QED
        BY <3>1
    <2>2. CASE k > p
      <3>1. k - 1 \in 1..Len(rest) /\ at(k - 1) = k
        BY <1>1, <1>2, <1>4, <2>2
      <3> QED
        BY <3>1
    <2> QED
      BY <1>1, <1>2, <1>7, <2>1, <2>2
  <1> HIDE DEF at
  <1>8. IsArray(rest, T)
    <2>1. ASSUME NEW i \in 1..Len(rest), NEW j \in 1..Len(rest), rest[i] = rest[j] PROVE i = j
      <3>1. array[at(i)] = array[at(j)] /\ at(i) \in 1..Len(array) /\ at(j) \in 1..Len(array)
        BY <1>5, <2>1
      <3>2. at(i) = at(j)
        BY <3>1 DEF IsArray
      <3> QED
        BY <1>6, <3>2
    <2> QED
      BY <1>4, <2>1 DEF IsArray
  <1>9. ASSUME NEW u PROVE Holds(rest, u) <=> Holds(array, u) /\ u # t
    <2>1. ASSUME Holds(rest, u) PROVE Holds(array, u) /\ u # t
      <3>1. PICK j \in 1..Len(rest) : rest[j] = u
        BY <2>1 DEF Holds
      <3>2. at(j) \in 1..Len(array) /\ at(j) # p /\ array[at(j)] = u
        BY <1>5, <3>1
      <3>3. u # t
        BY <1>2, <3>2 DEF IsArray
      <3> QED
        BY <3>2, <3>3 DEF Holds
    <2>2. ASSUME Holds(array, u), u # t PROVE Holds(rest, u)
      <3>1. PICK k \in 1..Len(array) : array[k] = u
        BY <2>2 DEF Holds
      <3>2. k # p
        BY <1>2, <2>2, <3>1
      <3>3. PICK j \in 1..Len(rest) : at(j) = k
        BY <1>7, <3>2
      <3>4. rest[j] = u
        BY <1>5, <3>1, <3>3
      <3> QED
        BY <3>4 DEF Holds
    <2> QED
      BY <2>1, <2>2
  <1>10. ASSUME NEW dates, InOrder(array, dates) PROVE InOrder(rest, dates)
    <2>1. ASSUME NEW i \in 1..Len(rest), NEW j \in 1..Len(rest), i < j
          PROVE  dates[rest[i]] <= dates[rest[j]]
      <3>1. /\ at(i) < at(j) /\ at(i) \in 1..Len(array) /\ at(j) \in 1..Len(array)
            /\ rest[i] = array[at(i)] /\ rest[j] = array[at(j)]
        BY <1>5, <1>6, <2>1
      <3> QED
        BY <1>10, <3>1 DEF InOrder
    <2> QED
      BY <2>1 DEF InOrder
  <1> QED
    BY <1>3, <1>8, <1>9, <1>10

\* CFArrayInsertValueAtIndex at the index that was found puts the timer in, in
\* the order of the dates.
LEMMA InsertedTimer ==
  ASSUME NEW T, NEW array, IsArray(array, T), NEW t \in T, ~Holds(array, t),
         NEW dates \in [T -> Nat]
  PROVE  /\ IsArray(Inserted(array, t, dates), T)
         /\ \A u : Holds(Inserted(array, t, dates), u) <=> Holds(array, u) \/ u = t
         /\ InOrder(array, dates) => InOrder(Inserted(array, t, dates), dates)
  <1> DEFINE x == InsertionIndex(array, dates, dates[t])
             more == InsertAt(array, x + 1, t)
  <1>1. array \in Seq(T) /\ Len(array) \in Nat /\ dates[t] \in Nat
    BY LenProperties DEF IsArray
  <1>2. /\ x \in 0..Len(array)
        /\ InOrder(array, dates) =>
             \A i \in 1..Len(array) : i <= x <=> dates[array[i]] <= dates[t]
    BY <1>1, InsertionIndexSplits
  <1>3. Inserted(array, t, dates) = more
    BY Zenon DEF Inserted
  <1> HIDE DEF x
  <1>4. /\ more \in Seq(T) /\ Len(more) = Len(array) + 1
        /\ \A j \in 1..(Len(array) + 1) :
             more[j] = IF j < x + 1 THEN array[j] ELSE IF j = x + 1 THEN t ELSE array[j - 1]
    <2> DEFINE y == x + 1
    <2>1. y \in 1..(Len(array) + 1)
      BY <1>1, <1>2
    <2> HIDE DEF y
    <2>2. /\ InsertAt(array, y, t) \in Seq(T) /\ Len(InsertAt(array, y, t)) = Len(array) + 1
          /\ \A j \in 1..(Len(array) + 1) : InsertAt(array, y, t)[j] =
               IF j < y THEN array[j] ELSE IF j = y THEN t ELSE array[j - 1]
      BY <1>1, <2>1, InsertedAt
    <2> QED
      BY <2>2 DEF y
  <1> HIDE DEF more
  <1> DEFINE at(j) == IF j < x + 1 THEN j ELSE j - 1
  <1>5. /\ x + 1 \in 1..Len(more) /\ more[x + 1] = t
        /\ \A j \in 1..Len(more) : j # x + 1 =>
             at(j) \in 1..Len(array) /\ more[j] = array[at(j)]
    <2>1. x + 1 \in 1..Len(more) /\ more[x + 1] = t
      BY <1>1, <1>2, <1>4
    <2>2. ASSUME NEW j \in 1..Len(more), j # x + 1
          PROVE  at(j) \in 1..Len(array) /\ more[j] = array[at(j)]
      <3>1. CASE j < x + 1
        BY <1>1, <1>2, <1>4, <3>1
      <3>2. CASE j > x + 1
        BY <1>1, <1>2, <1>4, <3>2
      <3> QED
        BY <1>1, <1>2, <1>4, <2>2, <3>1, <3>2
    <2> QED
      BY <2>1, <2>2
  <1>6. \A i, j \in 1..Len(more) : i # x + 1 /\ j # x + 1 =>
          /\ at(i) = at(j) => i = j
          /\ i < j => at(i) < at(j)
    BY <1>1, <1>2, <1>4, SMTT(30)
  <1>7. ASSUME NEW k \in 1..Len(array)
        PROVE  \E j \in 1..Len(more) : j # x + 1 /\ at(j) = k
    <2>1. CASE k <= x
      <3>1. k \in 1..Len(more) /\ k # x + 1 /\ at(k) = k
        BY <1>1, <1>2, <1>4, <2>1
      <3> QED
        BY <3>1
    <2>2. CASE k > x
      <3>1. k + 1 \in 1..Len(more) /\ k + 1 # x + 1 /\ at(k + 1) = k
        BY <1>1, <1>2, <1>4, <2>2
      <3> QED
        BY <3>1
    <2> QED
      BY <1>1, <1>2, <2>1, <2>2
  <1>8. \A j \in 1..Len(more) : /\ j < x + 1 => at(j) <= x
                                /\ j > x + 1 => ~(at(j) <= x)
    BY <1>1, <1>2, <1>4
  <1> HIDE DEF at
  <1>9. \A k \in 1..Len(array) : array[k] # t /\ array[k] \in T
    BY <1>1, ElementOfSeq DEF Holds
  <1>10. IsArray(more, T)
    <2>1. ASSUME NEW i \in 1..Len(more), NEW j \in 1..Len(more), more[i] = more[j] PROVE i = j
      <3>1. CASE i # x + 1 /\ j # x + 1
        <4>1. array[at(i)] = array[at(j)] /\ at(i) \in 1..Len(array) /\ at(j) \in 1..Len(array)
          BY <1>5, <2>1, <3>1
        <4>2. at(i) = at(j)
          BY <4>1 DEF IsArray
        <4> QED
          BY <1>6, <3>1, <4>2
      <3>2. CASE i = x + 1 \/ j = x + 1
        BY <1>5, <1>9, <2>1, <3>2
      <3> QED
        BY <3>1, <3>2
    <2> QED
      BY <1>4, <2>1 DEF IsArray
  <1>11. ASSUME NEW u PROVE Holds(more, u) <=> Holds(array, u) \/ u = t
    <2>1. ASSUME Holds(more, u), u # t PROVE Holds(array, u)
      <3>1. PICK j \in 1..Len(more) : more[j] = u
        BY <2>1 DEF Holds
      <3> QED
        BY <1>5, <2>1, <3>1 DEF Holds
    <2>2. ASSUME Holds(array, u) PROVE Holds(more, u)
      <3>1. PICK k \in 1..Len(array) : array[k] = u
        BY <2>2 DEF Holds
      <3>2. PICK j \in 1..Len(more) : j # x + 1 /\ at(j) = k
        BY <1>7
      <3> QED
        BY <1>5, <3>1, <3>2 DEF Holds
    <2>3. Holds(more, t)
      BY <1>5 DEF Holds
    <2> QED
      BY <2>1, <2>2, <2>3
  <1>12. ASSUME InOrder(array, dates) PROVE InOrder(more, dates)
    <2>1. \A i \in 1..Len(array) : i <= x <=> dates[array[i]] <= dates[t]
      BY <1>2, <1>12
    <2>2. \A i \in 1..Len(array) : dates[array[i]] \in Nat
      BY <1>9
    <2>3. ASSUME NEW i \in 1..Len(more), NEW j \in 1..Len(more), i < j
          PROVE  dates[more[i]] <= dates[more[j]]
      <3>1. CASE i # x + 1 /\ j # x + 1
        <4>1. /\ at(i) < at(j) /\ at(i) \in 1..Len(array) /\ at(j) \in 1..Len(array)
              /\ more[i] = array[at(i)] /\ more[j] = array[at(j)]
          BY <1>5, <1>6, <2>3, <3>1
        <4> QED
          BY <1>12, <4>1 DEF InOrder
      <3>2. CASE i = x + 1
        <4>1. j # x + 1 /\ j > x + 1
          BY <2>3, <3>2
        <4>2. at(j) \in 1..Len(array) /\ more[j] = array[at(j)] /\ ~(at(j) <= x)
          BY <1>5, <1>8, <4>1
        <4>3. ~(dates[array[at(j)]] <= dates[t]) /\ dates[array[at(j)]] \in Nat
          BY <2>1, <2>2, <4>2
        <4> QED
          BY <1>1, <1>5, <3>2, <4>2, <4>3
      <3>3. CASE j = x + 1
        <4>1. i # x + 1 /\ i < x + 1
          BY <2>3, <3>3
        <4>2. at(i) \in 1..Len(array) /\ more[i] = array[at(i)] /\ at(i) <= x
          BY <1>5, <1>8, <4>1
        <4> QED
          BY <1>5, <2>1, <3>3, <4>2
      <3> QED
        BY <3>1, <3>2, <3>3
    <2> QED
      BY <2>3 DEF InOrder
  <1> QED
    BY <1>3, <1>10, <1>11, <1>12

\* An array that is in order stays so when the date of a timer that is not in
\* it is set.
LEMMA OrderOfOthers ==
  ASSUME NEW T, NEW array \in Seq(T), NEW before, NEW after, InOrder(array, before),
         \A u \in T : Holds(array, u) => after[u] = before[u]
  PROVE  InOrder(array, after)
  <1>1. \A i \in 1..Len(array) : after[array[i]] = before[array[i]]
    BY ElementOfSeq DEF Holds
  <1> QED
    BY <1>1 DEF InOrder

\* __CFRepositionTimerInMode, after the timer's date has been set.
LEMMA RepositionedTimer ==
  ASSUME NEW T, NEW array, IsArray(array, T), NEW t \in T, Holds(array, t),
         NEW before, NEW after \in [T -> Nat], \A u \in T : u # t => after[u] = before[u]
  PROVE  /\ IsArray(Repositioned(array, t, after), T)
         /\ \A u : Holds(Repositioned(array, t, after), u) <=> Holds(array, u)
         /\ InOrder(array, before) => InOrder(Repositioned(array, t, after), after)
  <1> DEFINE rest == Without(array, t)
  <1>1. /\ IsArray(rest, T) /\ \A u : Holds(rest, u) <=> Holds(array, u) /\ u # t
        /\ InOrder(array, before) => InOrder(rest, before)
    BY WithoutTimer
  <1>2. Repositioned(array, t, after) = Inserted(rest, t, after)
    BY Zenon DEF Repositioned
  <1> HIDE DEF rest
  <1>3. InOrder(rest, before) => InOrder(rest, after)
    <2>1. rest \in Seq(T) /\ \A u \in T : Holds(rest, u) => after[u] = before[u]
      BY <1>1 DEF IsArray
    <2> QED
      BY <2>1, OrderOfOthers
  <1>4. ~Holds(rest, t)
    BY <1>1
  <1>5. /\ IsArray(Inserted(rest, t, after), T)
        /\ \A u : Holds(Inserted(rest, t, after), u) <=> Holds(rest, u) \/ u = t
        /\ InOrder(rest, after) => InOrder(Inserted(rest, t, after), after)
    BY <1>1, <1>4, InsertedTimer
  <1> QED
    BY <1>1, <1>2, <1>3, <1>5

----------------------------------------------------------------------------
(* What __CFArmNextTimerInMode finds and arms.                             *)

FoundSet == [soft : Deadline, hard : Deadline, stop : BOOLEAN]
NextSet == [soft : Deadline, hard : Deadline]

LEMMA Deadlines ==
  /\ Never \in Nat /\ LongMax \in Nat /\ LongMax < Never /\ Never \in Deadline
  /\ \A d : d \in Deadline <=> d \in Nat /\ d <= Never
  /\ \A d \in TSR : d \in Deadline /\ d \in Nat /\ d < Never /\ d <= LongMax
  BY TSRAssumption DEF Never, TSR, Deadline

LEMMA FoundIsTyped ==
  ASSUME NEW T, NEW before \in FoundSet, NEW t \in T,
         NEW dates \in [T -> TSR], NEW tolerances \in [T -> Nat], NEW busy
  PROVE  Found(before, t, dates, tolerances, busy) \in FoundSet
  <1> DEFINE f == dates[t]
             h == HardDeadline(t, dates, tolerances)
             s == Sooner(f, before.soft)
             k == Sooner(h, before.hard)
  <1>1. /\ before.soft \in Deadline /\ before.hard \in Deadline
        /\ f \in Deadline /\ f + tolerances[t] \in Nat
    BY Deadlines DEF FoundSet
  <1>2. h \in Deadline
    BY <1>1, Deadlines DEF HardDeadline, Sooner
  <1>3. s \in Deadline /\ k \in Deadline
    BY <1>1, <1>2 DEF Sooner
  <1> HIDE DEF f, h, s, k
  <1>4. [soft |-> before.soft, hard |-> before.hard, stop |-> TRUE] \in FoundSet
    BY <1>1 DEF FoundSet
  <1>5. [soft |-> s, hard |-> k, stop |-> FALSE] \in FoundSet
    BY <1>3 DEF FoundSet
  <1>6. \/ Found(before, t, dates, tolerances, busy) = before
        \/ Found(before, t, dates, tolerances, busy)
             = [soft |-> before.soft, hard |-> before.hard, stop |-> TRUE]
        \/ Found(before, t, dates, tolerances, busy) = [soft |-> s, hard |-> k, stop |-> FALSE]
    BY Zenon DEF Found, f, h, s, k
  <1> QED
    BY <1>4, <1>5, <1>6

LEMMA FoundAfterDefined ==
  ASSUME NEW T, NEW array \in Seq(T), NEW dates \in [T -> TSR],
         NEW tolerances \in [T -> Nat], NEW busy
  PROVE  /\ FoundAfter(array, dates, tolerances, busy) \in [0..Len(array) -> FoundSet]
         /\ FoundAfter(array, dates, tolerances, busy)[0] = Nothing
         /\ \A i \in 1..Len(array) :
              FoundAfter(array, dates, tolerances, busy)[i]
                = Found(FoundAfter(array, dates, tolerances, busy)[i - 1], array[i],
                        dates, tolerances, busy)
  <1> DEFINE n == Len(array)
             F(v, i) == Found(v, array[i], dates, tolerances, busy)
             step == [i \in 1..n |-> [v \in FoundSet |-> F(v, i)]]
             Is(g) == g = [i \in 0..n |-> IF i = 0 THEN Nothing ELSE F(g[i - 1], i)]
             found == FoundAfter(array, dates, tolerances, busy)
  <1>1. n \in Nat /\ \A i \in 1..n : array[i] \in T
    BY LenProperties, ElementOfSeq
  <1>2. found = CHOOSE g : Is(g)
    BY DEF FoundAfter
  <1>3. Nothing \in FoundSet
    BY Deadlines DEF Nothing, FoundSet
  <1>4. \A i \in 1..n, v \in FoundSet : F(v, i) \in FoundSet
    BY <1>1, FoundIsTyped
  <1> HIDE DEF n, found, F
  <1>5. step \in [1..n -> [FoundSet -> FoundSet]]
    BY <1>4
  <1> HIDE DEF step
  <1>6. PICK g : IsMade(g, n, FoundSet, Nothing, step)
    BY <1>1, <1>3, <1>5, RecursionExists
  <1>7. ASSUME NEW i \in 1..n PROVE g[i] = F(g[i - 1], i)
    <2>1. i - 1 \in 0..n
      BY <1>1
    <2>2. g[i - 1] \in FoundSet /\ g[i] = step[i][g[i - 1]]
      BY <1>6, <2>1 DEF IsMade
    <2> QED
      BY <2>2 DEF step
  <1>8. Is(g)
    <2>1. \A i \in 0..n : g[i] = IF i = 0 THEN Nothing ELSE F(g[i - 1], i)
      <3>1. \A i \in 0..n : i = 0 \/ i \in 1..n
        BY <1>1
      <3> QED
        BY <1>6, <1>7, <3>1 DEF IsMade
    <2>2. g = [i \in 0..n |-> g[i]]
      BY <1>6 DEF IsMade
    <2> QED
      BY <2>1, <2>2
  <1>9. Is(found)
    <2> HIDE DEF Is
    <2> QED
      BY <1>2, <1>8
  <1>10. found[0] = Nothing
    BY <1>1, <1>9
  <1>11. ASSUME NEW i \in 1..n PROVE found[i] = F(found[i - 1], i)
    <2>1. i \in 0..n /\ i # 0
      BY <1>1
    <2> QED
      BY <1>9, <2>1
  <1> DEFINE N == {k \in Nat : k <= n => found[k] \in FoundSet}
  <1>12. N = Nat
    <2>1. 0 \in N
      BY <1>3, <1>10
    <2>2. ASSUME NEW k \in N PROVE k + 1 \in N
      <3>1. CASE ~(k + 1 <= n)
        BY <3>1
      <3>2. CASE k + 1 <= n
        <4>1. k + 1 \in 1..n /\ (k + 1) - 1 = k /\ k <= n
          BY <1>1, <3>2
        <4>2. found[k] \in FoundSet /\ found[k + 1] = F(found[k], k + 1)
          BY <1>11, <4>1
        <4>3. found[k + 1] \in FoundSet
          BY <1>4, <4>1, <4>2
        <4> QED
          BY <4>3
      <3> QED
        BY <3>1, <3>2
    <2> HIDE DEF N
    <2>3. N \subseteq Nat
      BY DEF N
    <2> QED
      BY <2>1, <2>2, <2>3, NatSetInduction
  <1>13. found \in [0..n -> FoundSet]
    <2>1. found = [i \in 0..n |-> found[i]]
      BY <1>9
    <2>2. ASSUME NEW i \in 0..n PROVE found[i] \in FoundSet
      <3>1. i \in N /\ i <= n
        BY <1>1, <1>12
      <3> QED
        BY <3>1
    <2> HIDE DEF Is, N
    <2> QED
      BY <2>1, <2>2
  <1> QED
    BY <1>10, <1>11, <1>13 DEF n, found, F

\* The deadlines are those of a timer of the array that is not busy; and
\* none of these fires sooner, if the array is in order.
LEMMA NextDeadlinesAreFirst ==
  ASSUME NEW T, NEW array \in Seq(T), NEW dates \in [T -> TSR],
         NEW tolerances \in [T -> Nat], NEW busy
  PROVE  LET next == NextDeadlines(array, dates, tolerances, busy)
         IN /\ next \in NextSet /\ next.soft <= next.hard
            /\ next.soft # Never =>
                 \E i \in 1..Len(array) :
                   array[i] \notin busy /\ dates[array[i]] = next.soft
            /\ InOrder(array, dates) =>
                 \A i \in 1..Len(array) :
                   array[i] \notin busy => next.soft <= dates[array[i]]
  <1> DEFINE n == Len(array)
             found == FoundAfter(array, dates, tolerances, busy)
             next == NextDeadlines(array, dates, tolerances, busy)
             D(i) == dates[array[i]]
             H(i) == HardDeadline(array[i], dates, tolerances)
             Order == InOrder(array, dates)
             Good(k) ==
               /\ found[k].soft <= found[k].hard
               /\ found[k].soft # Never =>
                    \E i \in 1..k : array[i] \notin busy /\ D(i) = found[k].soft
               /\ Order => /\ \A i \in 1..k : array[i] \notin busy => found[k].soft <= D(i)
                           /\ found[k].stop => \E i \in 1..k : found[k].soft <= D(i)
             N == {k \in Nat : k <= n => Good(k)}
  <1>1. n \in Nat /\ \A i \in 1..n : array[i] \in T
    BY LenProperties, ElementOfSeq
  <1>2. /\ found \in [0..n -> FoundSet] /\ found[0] = Nothing
        /\ \A i \in 1..n : found[i] = Found(found[i - 1], array[i], dates, tolerances, busy)
    BY FoundAfterDefined
  <1>3. \A i \in 0..n : /\ found[i].soft \in Nat /\ found[i].hard \in Nat /\ found[i].soft <= Never
                        /\ found[i].hard <= Never /\ found[i].stop \in BOOLEAN
    BY <1>2, Deadlines DEF FoundSet
  <1>4. \A i \in 1..n : D(i) \in Nat /\ D(i) < Never /\ H(i) \in Nat /\ D(i) <= H(i)
    BY <1>1, Deadlines DEF HardDeadline, Sooner
  <1>5. \A i, j \in 1..n : Order /\ i < j => D(i) <= D(j)
    BY DEF InOrder
  <1>6. next = [soft |-> found[n].soft, hard |-> found[n].hard]
    BY DEF NextDeadlines
  <1>7. /\ \A i \in 1..n : \/ /\ found[i - 1].stop \/ array[i] \in busy
                              /\ found[i] = found[i - 1]
                           \/ /\ D(i) > found[i - 1].hard
                              /\ found[i].soft = found[i - 1].soft
                              /\ found[i].hard = found[i - 1].hard
                           \/ /\ array[i] \notin busy /\ ~found[i].stop
                              /\ ~found[i - 1].stop
                              /\ found[i].soft = Sooner(D(i), found[i - 1].soft)
                              /\ found[i].hard = Sooner(H(i), found[i - 1].hard)
    <2> SUFFICES ASSUME NEW i \in 1..n
                 PROVE  \/ /\ found[i - 1].stop \/ array[i] \in busy
                           /\ found[i] = found[i - 1]
                        \/ /\ D(i) > found[i - 1].hard
                           /\ found[i].soft = found[i - 1].soft
                           /\ found[i].hard = found[i - 1].hard
                        \/ /\ array[i] \notin busy /\ ~found[i].stop
                           /\ ~found[i - 1].stop
                           /\ found[i].soft = Sooner(D(i), found[i - 1].soft)
                           /\ found[i].hard = Sooner(H(i), found[i - 1].hard)
      OBVIOUS
    <2>1. found[i] = Found(found[i - 1], array[i], dates, tolerances, busy)
      BY <1>2
    <2> HIDE DEF found, D, H
    <2>2. \/ (found[i - 1].stop \/ array[i] \in busy) /\ found[i] = found[i - 1]
          \/ /\ D(i) > found[i - 1].hard
             /\ found[i] = [soft |-> found[i - 1].soft, hard |-> found[i - 1].hard, stop |-> TRUE]
          \/ /\ ~(found[i - 1].stop \/ array[i] \in busy)
             /\ found[i] = [soft |-> Sooner(D(i), found[i - 1].soft),
                            hard |-> Sooner(H(i), found[i - 1].hard), stop |-> FALSE]
      BY <2>1, Zenon DEF Found, Passed, D, H
    <2> QED
      BY <2>2
  <1> HIDE DEF n, found, next, D, H, Order
  <1>8. 0 \in N
    <2>1. found[0].soft = Never /\ found[0].hard = Never /\ found[0].stop = FALSE
      BY <1>2 DEF Nothing
    <2> QED
      BY <1>1, <2>1, Deadlines
  <1>9. ASSUME NEW k \in N PROVE k + 1 \in N
    <2>1. CASE ~(k + 1 <= n)
      BY <2>1
    <2>2. CASE k + 1 <= n
      <3> DEFINE i == k + 1
      <3>1. /\ i \in 1..n /\ i - 1 = k /\ k \in 0..n /\ i \in 0..n /\ k <= n
            /\ k \in Nat /\ \A j \in 1..i : j \in 1..k \/ j = i
            /\ \A j \in 1..k : j \in 1..i /\ j \in 1..n /\ j < i
        BY <1>1, <2>2
      <3>2. Good(k)
        BY <3>1
      <3> HIDE DEF i
      <3>3. ASSUME (found[k].stop \/ array[i] \in busy) /\ found[i] = found[k]
            PROVE  Good(i)
        <4>1. /\ found[i].soft <= found[i].hard
              /\ found[i].soft # Never =>
                   \E j \in 1..i : array[j] \notin busy /\ D(j) = found[i].soft
              /\ Order /\ found[i].stop => \E j \in 1..i : found[i].soft <= D(j)
          BY <3>1, <3>2, <3>3
        <4>2. ASSUME Order, NEW j \in 1..i, array[j] \notin busy PROVE found[i].soft <= D(j)
          <5>1. CASE j \in 1..k
            BY <3>2, <3>3, <4>2, <5>1
          <5>2. CASE j = i
            <6>1. PICK l \in 1..k : found[k].soft <= D(l)
              BY <3>2, <3>3, <4>2, <5>2
            <6>2. D(l) <= D(i) /\ D(l) \in Nat /\ D(i) \in Nat /\ found[k].soft \in Nat
              BY <1>3, <1>4, <1>5, <3>1, <4>2
            <6> QED
              BY <3>3, <5>2, <6>1, <6>2
          <5> QED
            BY <3>1, <5>1, <5>2
        <4> QED
          BY <4>1, <4>2
      <3>4. ASSUME /\ D(i) > found[k].hard
                   /\ found[i].soft = found[k].soft /\ found[i].hard = found[k].hard
            PROVE  Good(i)
        <4>1. found[i].soft <= D(i)
          BY <1>3, <1>4, <3>1, <3>2, <3>4, SMTT(30)
        <4>2. /\ found[i].soft <= found[i].hard
              /\ found[i].soft # Never =>
                   \E j \in 1..i : array[j] \notin busy /\ D(j) = found[i].soft
          BY <3>1, <3>2, <3>4
        <4>3. Order => /\ \A j \in 1..i : array[j] \notin busy => found[i].soft <= D(j)
                       /\ \E j \in 1..i : found[i].soft <= D(j)
          <5>1. i \in 1..i
            BY <3>1
          <5> QED
            BY <3>1, <3>2, <3>4, <4>1, <5>1
        <4> QED
          BY <4>2, <4>3
      <3>5. ASSUME /\ array[i] \notin busy /\ ~found[i].stop
                   /\ found[i].soft = Sooner(D(i), found[k].soft)
                   /\ found[i].hard = Sooner(H(i), found[k].hard)
            PROVE  Good(i)
        <4>0. /\ D(i) \in Nat /\ H(i) \in Nat /\ D(i) <= H(i) /\ D(i) < Never
              /\ found[k].soft \in Nat /\ found[k].hard \in Nat /\ i \in 1..i
              /\ found[i].soft \in Nat
          BY <1>3, <1>4, <3>1
        <4>1. /\ found[i].soft <= D(i) /\ found[i].soft <= found[k].soft
              /\ found[i].soft = D(i) \/ found[i].soft = found[k].soft
          BY <3>5, <4>0 DEF Sooner
        <4>2. found[i].soft <= found[i].hard
          BY <3>2, <3>5, <4>0 DEF Sooner
        <4>3. found[i].soft # Never =>
                \E j \in 1..i : array[j] \notin busy /\ D(j) = found[i].soft
          <5>1. CASE found[i].soft = D(i)
            BY <3>5, <4>0, <5>1
          <5>2. CASE found[i].soft = found[k].soft
            BY <3>1, <3>2, <5>2
          <5> QED
            BY <4>1, <5>1, <5>2
        <4>4. ASSUME Order, NEW j \in 1..i, array[j] \notin busy PROVE found[i].soft <= D(j)
          <5>1. CASE j \in 1..k
            <6>1. found[k].soft <= D(j) /\ D(j) \in Nat
              BY <1>4, <3>1, <3>2, <4>4, <5>1
            <6> QED
              BY <4>0, <4>1, <6>1
          <5>2. CASE j = i
            BY <4>1, <5>2
          <5> QED
            BY <3>1, <5>1, <5>2
        <4> QED
          BY <3>5, <4>2, <4>3, <4>4
      <3>6. Good(i)
        <4> HIDE DEF Good
        <4> QED
          BY <1>7, <3>1, <3>3, <3>4, <3>5
      <3> HIDE DEF Good
      <3> QED
        BY <3>1, <3>6 DEF i
    <2> QED
      BY <2>1, <2>2
  <1>10. Good(n)
    <2> HIDE DEF N, Good
    <2>1. N \subseteq Nat
      BY DEF N
    <2>2. N = Nat
      BY <1>8, <1>9, <2>1, NatSetInduction
    <2> QED
      BY <1>1, <2>2 DEF N
  <1>11. /\ next \in NextSet /\ next.soft = found[n].soft /\ next.hard = found[n].hard
    <2>1. found[n].soft \in Deadline /\ found[n].hard \in Deadline
      BY <1>1, <1>2 DEF FoundSet
    <2> QED
      BY <1>6, <2>1 DEF NextSet
  <1> QED
    BY <1>10, <1>11 DEF n, next, D, Order

\* The mode is armed for what was found: for nothing, or as it was before, or
\* one of its timers goes off at the first time any timer may fire.
LEMMA ArmNextArms ==
  ASSUME NEW old \in Armed, NEW next \in NextSet, next.soft <= next.hard
  PROVE  /\ ArmNext(old, next) \in Armed
         /\ ArmNext(old, next).soft = next.soft
         /\ \/ next.soft = Never
            \/ old.soft = next.soft /\ ArmNext(old, next) = old
            \/ ArmNext(old, next).mkTimer = next.soft
            \/ ArmNext(old, next).dispatchTimer = next.soft
  <1> DEFINE s == next.soft
             h == next.hard
             a == ArmNext(old, next)
             off == [soft |-> s, hard |-> h, mkTimer |-> Never, dispatchTimer |-> Never]
             mk == IF h = s THEN s ELSE Never
             dispatch == IF h > s THEN s ELSE Never
             on == [soft |-> s, hard |-> h, mkTimer |-> mk, dispatchTimer |-> dispatch]
  <1>1. s \in Deadline /\ h \in Deadline /\ s \in Nat /\ h \in Nat /\ s <= h
    BY Deadlines DEF NextSet
  <1>2. /\ s = Never => a = off
        /\ s # Never /\ s = old.soft /\ h = old.hard => a = old
        /\ s # Never /\ ~(s = old.soft /\ h = old.hard) => a = on
    BY Zenon DEF ArmNext
  <1> HIDE DEF s, h, a
  <1>3. off \in Armed /\ off.soft = s
    BY <1>1, Deadlines DEF Armed
  <1>4. on \in Armed /\ on.soft = s /\ (on.mkTimer = s \/ on.dispatchTimer = s)
    <2>1. mk \in Deadline /\ dispatch \in Deadline /\ (mk = s \/ dispatch = s)
      BY <1>1, Deadlines
    <2> HIDE DEF mk, dispatch
    <2> QED
      BY <1>1, <2>1 DEF Armed
  <1> HIDE DEF on, off
  <1> QED
    BY <1>2, <1>3, <1>4 DEF s, h, a

LEMMA Appended ==
  ASSUME NEW T, NEW s \in Seq(T), NEW e \in T
  PROVE  /\ Append(s, e) \in Seq(T) /\ Holds(Append(s, e), e)
         /\ \A u : Holds(s, u) => Holds(Append(s, e), u)
  <1> DEFINE more == Append(s, e)
  <1>1. /\ Len(s) \in Nat /\ more \in Seq(T) /\ Len(more) = Len(s) + 1
        /\ \A i \in 1..Len(s) : more[i] = s[i]
        /\ more[Len(s) + 1] = e
    OBVIOUS
  <1> HIDE DEF more
  <1>2. Len(s) + 1 \in 1..Len(more) /\ \A i \in 1..Len(s) : i \in 1..Len(more)
    BY <1>1
  <1>3. ASSUME NEW u, Holds(s, u) PROVE Holds(more, u)
    <2>1. PICK i \in 1..Len(s) : s[i] = u
      BY <1>3 DEF Holds
    <2>2. i \in 1..Len(more) /\ more[i] = u
      BY <1>1, <1>2, <2>1
    <2> QED
      BY <2>2 DEF Holds
  <1>4. Holds(more, e)
    BY <1>1, <1>2 DEF Holds
  <1> QED
    BY <1>1, <1>3, <1>4 DEF more

\* All the timers of the array that are in S are collected.
LEMMA SelectedTimers ==
  ASSUME NEW T, NEW array \in Seq(T), NEW S
  PROVE  /\ Selected(array, S) \in Seq(T)
         /\ \A u \in S : Holds(array, u) => Holds(Selected(array, S), u)
  <1> DEFINE n == Len(array)
             F(v, i) == IF array[i] \in S THEN Append(v, array[i]) ELSE v
             step == [i \in 1..n |-> [v \in Seq(T) |-> F(v, i)]]
             Is(g) == g = [i \in 0..n |-> IF i = 0 THEN <<>> ELSE F(g[i - 1], i)]
             sel == CHOOSE g : Is(g)
  <1>1. n \in Nat /\ \A i \in 1..n : array[i] \in T
    BY LenProperties, ElementOfSeq
  <1>2. Selected(array, S) = sel[n]
    BY DEF Selected
  <1>3. <<>> \in Seq(T)
    OBVIOUS
  <1>4. \A i \in 1..n, v \in Seq(T) : F(v, i) \in Seq(T)
    BY <1>1
  <1> HIDE DEF n, sel
  <1>5. step \in [1..n -> [Seq(T) -> Seq(T)]]
    <2> HIDE DEF F
    <2> QED
      BY <1>4
  <1> HIDE DEF step
  <1>6. PICK g : IsMade(g, n, Seq(T), <<>>, step)
    BY <1>1, <1>3, <1>5, RecursionExists
  <1>7. ASSUME NEW i \in 1..n PROVE g[i] = F(g[i - 1], i)
    <2>1. i - 1 \in 0..n
      BY <1>1
    <2>2. g[i - 1] \in Seq(T) /\ g[i] = step[i][g[i - 1]]
      BY <1>6, <2>1 DEF IsMade
    <2> HIDE DEF F
    <2> QED
      BY <2>2 DEF step
  <1>8. Is(g)
    <2>1. \A i \in 0..n : g[i] = IF i = 0 THEN <<>> ELSE F(g[i - 1], i)
      <3> HIDE DEF F
      <3>1. \A i \in 0..n : i = 0 \/ i \in 1..n
        BY <1>1
      <3> QED
        BY <1>6, <1>7, <3>1 DEF IsMade
    <2>2. g = [i \in 0..n |-> g[i]]
      BY <1>6 DEF IsMade
    <2> HIDE DEF F
    <2> QED
      BY <2>1, <2>2
  <1>9. Is(sel)
    <2> HIDE DEF Is
    <2> QED
      BY <1>8 DEF sel
  <1>10. sel[0] = <<>>
    BY <1>1, <1>9
  <1>11. ASSUME NEW i \in 1..n PROVE sel[i] = F(sel[i - 1], i)
    <2>1. i \in 0..n /\ i # 0
      BY <1>1
    <2> HIDE DEF F
    <2> QED
      BY <1>9, <2>1
  <1> DEFINE N == {k \in Nat : k <= n => /\ sel[k] \in Seq(T)
                                         /\ \A i \in 1..k : array[i] \in S => Holds(sel[k], array[i])}
  <1> HIDE DEF Is
  <1>12. N = Nat
    <2>1. 0 \in N
      <3>1. sel[0] \in Seq(T) /\ \A i \in 1..0 : FALSE
        BY <1>3, <1>10
      <3> QED
        BY <3>1
    <2>2. ASSUME NEW k \in N PROVE k + 1 \in N
      <3>1. CASE ~(k + 1 <= n)
        BY <3>1
      <3>2. CASE k + 1 <= n
        <4>1. /\ k + 1 \in 1..n /\ (k + 1) - 1 = k /\ k <= n
              /\ \A i \in 1..(k + 1) : i \in 1..k \/ i = k + 1
          BY <1>1, <3>2
        <4>2. /\ sel[k] \in Seq(T) /\ sel[k + 1] = F(sel[k], k + 1) /\ array[k + 1] \in T
              /\ \A i \in 1..k : array[i] \in S => Holds(sel[k], array[i])
          BY <1>1, <1>11, <4>1
        <4>3. CASE array[k + 1] \in S
          <5>1. sel[k + 1] = Append(sel[k], array[k + 1])
            BY <4>2, <4>3
          <5>2. /\ sel[k + 1] \in Seq(T) /\ Holds(sel[k + 1], array[k + 1])
                /\ \A u : Holds(sel[k], u) => Holds(sel[k + 1], u)
            BY <4>2, <5>1, Appended
          <5>3. ASSUME NEW i \in 1..(k + 1), array[i] \in S
                PROVE  Holds(sel[k + 1], array[i])
            <6>1. CASE i = k + 1
              BY <5>2, <6>1
            <6>2. CASE i \in 1..k
              <7>1. Holds(sel[k], array[i])
                BY <4>2, <5>3, <6>2
              <7> QED
                BY <5>2, <7>1
            <6> QED
              BY <4>1, <6>1, <6>2
          <5> QED
            BY <4>1, <5>2, <5>3
        <4>4. CASE array[k + 1] \notin S
          BY <4>1, <4>2, <4>4
        <4> QED
          BY <4>3, <4>4
      <3> QED
        BY <3>1, <3>2
    <2> HIDE DEF N
    <2>3. N \subseteq Nat
      BY DEF N
    <2> QED
      BY <2>1, <2>2, <2>3, NatSetInduction
  <1>13. /\ sel[n] \in Seq(T)
         /\ \A i \in 1..n : array[i] \in S => Holds(sel[n], array[i])
    <2>1. n \in N /\ n <= n
      BY <1>1, <1>12
    <2> QED
      BY <2>1
  <1> QED
    BY <1>2, <1>13 DEF n, Holds

----------------------------------------------------------------------------
(* The arrays of the modes and the modes of the timers agree.              *)

Agrees(array, m, modes) ==
  IsArray(array, Timers) /\ \A u \in Timers : Holds(array, u) <=> m \in modes[u]
ArraysInv == \A m \in Modes : Agrees(timers[m], m, rlModes)

LEMMA HoldsIsContains ==
  ASSUME NEW array, NEW t
  PROVE  Contains(array, t) <=> Holds(array, t)
  BY DEF Contains, Holds

LEMMA ArraysInvMeans ==
  ASSUME TypeOK
  PROVE  ArraysInv <=> ArraysAgreeWithModes
  <1>1. ASSUME NEW m \in Modes
        PROVE  Agrees(timers[m], m, rlModes) <=>
                 /\ ToSet(timers[m]) = {t \in Timers : m \in rlModes[t]}
                 /\ IsInjective(timers[m])
    <2> DEFINE s == timers[m]
    <2>1. s \in Seq(Timers)
      BY DEF TypeOK
    <2> HIDE DEF s
    <2>2. DOMAIN s = 1..Len(s) /\ Len(s) \in Nat /\ \A i \in 1..Len(s) : s[i] \in Timers
      BY <2>1
    <2>3. IsInjective(s) <=> IsArray(s, Timers)
      BY <2>1, <2>2 DEF IsInjective, IsArray
    <2>4. \A u : u \in ToSet(s) <=> Holds(s, u)
      BY <2>2 DEF ToSet, Holds
    <2>5. \A u : Holds(s, u) => u \in Timers
      BY <2>2 DEF Holds
    <2>6. (\A u \in Timers : Holds(s, u) <=> m \in rlModes[u])
            <=> ToSet(s) = {t \in Timers : m \in rlModes[t]}
      BY <2>4, <2>5, Zenon
    <2> QED
      BY <2>3, <2>6 DEF Agrees, s
  <1> QED
    BY <1>1 DEF ArraysInv, ArraysAgreeWithModes

\* The modes in S have been armed for the dates tsr, and their arrays have
\* been brought in order for these.
Rearmed(S, tsr, busy) ==
  /\ timers' \in [Modes -> Seq(Timers)] /\ armed' \in [Modes -> Armed]
  /\ \A m \in Modes : m \notin S => timers'[m] = timers[m] /\ armed'[m] = armed[m]
  /\ \A m \in S :
       armed'[m] = ArmNext(armed[m], NextDeadlines(timers'[m], tsr, tolerance, busy))
  /\ \A m \in S : InOrder(timers[m], fireTSR) => InOrder(timers'[m], tsr)

LEMMA ModesAreArmed ==
  ASSUME TypeOK, NEW S \in SUBSET Modes, NEW arrays, NEW tsr \in [Timers -> TSR], NEW busy,
         \A m \in S : arrays[m] \in Seq(Timers),
         \A m \in S : InOrder(timers[m], fireTSR) => InOrder(arrays[m], tsr),
         ArmModes(S, arrays, tsr, busy)
  PROVE  Rearmed(S, tsr, busy) /\ \A m \in S : timers'[m] = arrays[m]
  <1> DEFINE A(m) == ArmNext(armed[m], NextDeadlines(arrays[m], tsr, tolerance, busy))
  <1>1. /\ timers' = [m \in Modes |-> IF m \in S THEN arrays[m] ELSE timers[m]]
        /\ armed' = [m \in Modes |-> IF m \in S THEN A(m) ELSE armed[m]]
    BY DEF ArmModes
  <1>2. /\ timers \in [Modes -> Seq(Timers)] /\ armed \in [Modes -> Armed]
        /\ tolerance \in [Timers -> Nat]
    BY DEF TypeOK, Armed
  <1>3. ASSUME NEW m \in S PROVE A(m) \in Armed
    <2>1. arrays[m] \in Seq(Timers) /\ armed[m] \in Armed
      BY <1>2
    <2> DEFINE next == NextDeadlines(arrays[m], tsr, tolerance, busy)
    <2>2. next \in NextSet /\ next.soft <= next.hard
      BY <1>2, <2>1, NextDeadlinesAreFirst
    <2> HIDE DEF next
    <2>3. ArmNext(armed[m], next) \in Armed
      BY <2>1, <2>2, ArmNextArms
    <2> QED
      BY <2>3 DEF next
  <1>4. \A m \in S : timers'[m] = arrays[m] /\ armed'[m] = A(m)
    BY <1>1
  <1>5. armed' \in [Modes -> Armed]
    <2> HIDE DEF A
    <2> QED
      BY <1>1, <1>2, <1>3
  <1>6. timers' \in [Modes -> Seq(Timers)]
    BY <1>1, <1>2
  <1>7. \A m \in Modes : m \notin S => timers'[m] = timers[m] /\ armed'[m] = armed[m]
    <2> HIDE DEF A
    <2> QED
      BY <1>1
  <1> QED
    BY <1>4, <1>5, <1>6, <1>7 DEF Rearmed

\* __CFRepositionTimerInMode in each mode that has the timer.
LEMMA RepositionMoves ==
  ASSUME TypeOK, ArraysInv, NEW S \in SUBSET Modes, NEW t \in Timers,
         NEW tsr \in [Timers -> TSR], NEW busy,
         \A u \in Timers : u # t => tsr[u] = fireTSR[u],
         Reposition(S, t, tsr, busy)
  PROVE  /\ Rearmed({m \in S : m \in rlModes[t]}, tsr, busy)
         /\ \A m \in Modes : Agrees(timers'[m], m, rlModes)
  <1> DEFINE has == {m \in S : Contains(timers[m], t)}
             arrays == [m \in has |-> Repositioned(timers[m], t, tsr)]
  <1>1. has = {m \in S : m \in rlModes[t]}
    BY HoldsIsContains DEF ArraysInv, Agrees
  <1>2. ArmModes(has, arrays, tsr, busy)
    BY Zenon DEF Reposition
  <1>3. tsr \in [Timers -> Nat]
    BY Deadlines
  <1>4. ASSUME NEW m \in has
        PROVE  /\ arrays[m] \in Seq(Timers) /\ Agrees(arrays[m], m, rlModes)
               /\ InOrder(timers[m], fireTSR) => InOrder(arrays[m], tsr)
    <2> DEFINE old == timers[m]
               new == Repositioned(old, t, tsr)
    <2>1. IsArray(old, Timers) /\ Holds(old, t)
      BY HoldsIsContains DEF ArraysInv, Agrees
    <2>a. arrays[m] = new
      OBVIOUS
    <2> HIDE DEF old, arrays
    <2>2. /\ IsArray(new, Timers) /\ \A u : Holds(new, u) <=> Holds(old, u)
          /\ InOrder(old, fireTSR) => InOrder(new, tsr)
      BY <1>3, <2>1, RepositionedTimer
    <2>3. \A u \in Timers : Holds(old, u) <=> m \in rlModes[u]
      BY DEF ArraysInv, Agrees, old
    <2> HIDE DEF new
    <2>4. new \in Seq(Timers)
      BY <2>2 DEF IsArray
    <2> QED
      BY <2>a, <2>2, <2>3, <2>4 DEF Agrees, old
  <1> HIDE DEF arrays, has
  <1>5. has \in SUBSET Modes
    BY <1>1
  <1>6. Rearmed(has, tsr, busy) /\ \A m \in has : timers'[m] = arrays[m]
    BY <1>2, <1>4, <1>5, ModesAreArmed
  <1>7. \A m \in Modes : m \notin has => timers'[m] = timers[m]
    BY <1>6 DEF Rearmed
  <1>8. \A m \in Modes : Agrees(timers'[m], m, rlModes)
    BY <1>4, <1>6, <1>7 DEF ArraysInv
  <1> QED
    BY <1>1, <1>6, <1>8

\* CFRunLoopRemoveTimer in each mode that has the timer.
LEMMA RemoveFromTakes ==
  ASSUME TypeOK, ArraysInv, NEW S \in SUBSET Modes, NEW t \in Timers, RemoveFrom(S, t)
  PROVE  /\ Rearmed({m \in S : m \in rlModes[t]}, fireTSR, firing)
         /\ rlModes' \in [Timers -> SUBSET Modes]
         /\ \A u \in Timers : rlModes'[u] = IF u = t THEN rlModes[t] \ S ELSE rlModes[u]
         /\ \A m \in Modes : Agrees(timers'[m], m, rlModes')
  <1> DEFINE has == {m \in S : Contains(timers[m], t)}
             arrays == [m \in has |-> Without(timers[m], t)]
  <1>1. has = {m \in S : m \in rlModes[t]}
    BY HoldsIsContains DEF ArraysInv, Agrees
  <1>2. ArmModes(has, arrays, fireTSR, firing) /\ rlModes' = [rlModes EXCEPT ![t] = @ \ has]
    BY Zenon DEF RemoveFrom
  <1>3. rlModes \in [Timers -> SUBSET Modes] /\ fireTSR \in [Timers -> TSR]
    BY DEF TypeOK
  <1>4. ASSUME NEW m \in has
        PROVE  /\ arrays[m] \in Seq(Timers) /\ IsArray(arrays[m], Timers)
               /\ \A u : Holds(arrays[m], u) <=> Holds(timers[m], u) /\ u # t
               /\ InOrder(timers[m], fireTSR) => InOrder(arrays[m], fireTSR)
    <2> DEFINE old == timers[m]
               new == Without(old, t)
    <2>1. IsArray(old, Timers) /\ Holds(old, t)
      BY HoldsIsContains DEF ArraysInv, Agrees
    <2>a. arrays[m] = new
      OBVIOUS
    <2> HIDE DEF old, arrays
    <2>2. /\ IsArray(new, Timers) /\ \A u : Holds(new, u) <=> Holds(old, u) /\ u # t
          /\ InOrder(old, fireTSR) => InOrder(new, fireTSR)
      BY <2>1, WithoutTimer
    <2> HIDE DEF new
    <2>4. new \in Seq(Timers)
      BY <2>2 DEF IsArray
    <2> QED
      BY <2>a, <2>2, <2>4 DEF old
  <1> HIDE DEF arrays, has
  <1>5. has \in SUBSET Modes
    BY <1>1
  <1>6. Rearmed(has, fireTSR, firing) /\ \A m \in has : timers'[m] = arrays[m]
    BY <1>2, <1>3, <1>4, <1>5, ModesAreArmed
  <1>7. /\ \A u \in Timers : rlModes'[u] = IF u = t THEN rlModes[t] \ has ELSE rlModes[u]
        /\ rlModes' \in [Timers -> SUBSET Modes]
    BY <1>2, <1>3
  <1>8. rlModes[t] \ has = rlModes[t] \ S
    BY <1>1
  <1>9. ASSUME NEW m \in Modes PROVE Agrees(timers'[m], m, rlModes')
    <2>1. IsArray(timers[m], Timers) /\ \A u \in Timers : Holds(timers[m], u) <=> m \in rlModes[u]
      BY DEF ArraysInv, Agrees
    <2>2. CASE m \in has
      <3>1. /\ IsArray(timers'[m], Timers)
            /\ \A u : Holds(timers'[m], u) <=> Holds(timers[m], u) /\ u # t
        BY <1>4, <1>6, <2>2
      <3> QED
        BY <1>7, <2>1, <2>2, <3>1 DEF Agrees
    <2>3. CASE m \notin has
      <3>1. timers'[m] = timers[m]
        BY <1>6, <2>3 DEF Rearmed
      <3>2. \A u \in Timers : m \in rlModes'[u] <=> m \in rlModes[u]
        BY <1>7, <2>3
      <3> QED
        BY <2>1, <3>1, <3>2 DEF Agrees
    <2> QED
      BY <2>2, <2>3
  <1> QED
    BY <1>1, <1>6, <1>7, <1>8, <1>9

----------------------------------------------------------------------------
(* The types.  An activation that is busy has a timer to be busy with.     *)

DueInv == \A d \in 1..depth : Busy(frame[d]) => frame[d].due # <<>>
StateInv == TypeOK /\ DueInv /\ ArraysInv

LEMMA FieldTyped ==
  ASSUME NEW f \in Frame, NEW v
  PROVE  /\ v \in {"away", "woken", "timers", "callout", "expired", "relock"} =>
              [f EXCEPT !.pc = v] \in Frame
         /\ v \in Seq(Timers) => [f EXCEPT !.due = v] \in Frame
         /\ v \in TSR => [f EXCEPT !.oldFireTSR = v] \in Frame
         /\ v \in BOOLEAN => [f EXCEPT !.handled = v] \in Frame
         /\ v \in SUBSET Modes => [f EXCEPT !.modes = v] \in Frame
  BY DEF Frame

\* What the fields of a frame are.
LEMMA FrameTyped ==
  ASSUME NEW f \in Frame
  PROVE  /\ f.mode \in Modes /\ f.due \in Seq(Timers) /\ f.oldFireTSR \in TSR
         /\ f.handled \in BOOLEAN /\ f.modes \in SUBSET Modes
         /\ f.due # <<>> => Head(f.due) \in Timers /\ Tail(f.due) \in Seq(Timers)
  <1>1. /\ f.mode \in Modes /\ f.due \in Seq(Timers) /\ f.oldFireTSR \in TSR
        /\ f.handled \in BOOLEAN /\ f.modes \in SUBSET Modes
    BY DEF Frame
  <1> QED
    BY <1>1

LEMMA TopTyped ==
  ASSUME TypeOK, depth > 0
  PROVE  Top \in Frame /\ Top = frame[depth] /\ depth \in 1..depth
  BY TimersAssumption DEF TypeOK, Top

LEMMA TopTypedAfter ==
  ASSUME TypeOK, depth > 0, NEW f \in Frame, SetTop(f)
  PROVE  depth' \in 0..MaxDepth /\ frame' \in [1..MaxDepth -> Frame]
  BY DEF TypeOK, SetTop

LEMMA NewFrameTyped ==
  ASSUME NEW m \in Modes, TypeOK
  PROVE  NewFrame(m) \in Frame
  <1>1. 0 \in TSR /\ <<>> \in Seq(Timers)
    BY TSRAssumption DEF TSR
  <1> QED
    BY <1>1 DEF NewFrame, Frame

LEMMA StepKeepsFramesTyped ==
  ASSUME TypeOK, DueInv, Step
  PROVE  depth' \in 0..MaxDepth /\ frame' \in [1..MaxDepth -> Frame]
  <1>1. depth > 0
    BY DEF Step, WokenUp, CollectTimers, SkipTimer, FireTimer, CallbackReturns,
       RemoveExpired, TimerDone, TimersDone, At
  <1>2. Top \in Frame /\ Top = frame[depth] /\ depth \in 1..depth
    BY <1>1, TopTyped
  <1>3. ASSUME NEW f \in Frame, SetTop(f)
        PROVE  depth' \in 0..MaxDepth /\ frame' \in [1..MaxDepth -> Frame]
    BY <1>1, <1>3, TopTypedAfter
  <1> DEFINE t == Head(Top.due)
  <1>4. /\ Top.due # <<>> => t \in Timers /\ Tail(Top.due) \in Seq(Timers)
        /\ {} \in SUBSET Modes /\ FALSE \in BOOLEAN /\ TRUE \in BOOLEAN
    BY <1>2, FrameTyped
  <1>5. Busy(Top) => Top.due # <<>>
    BY <1>2 DEF DueInv
  <1>6. Top.due # <<>> => fireTSR[t] \in TSR /\ rlModes[t] \in SUBSET Modes
    BY <1>4 DEF TypeOK
  <1>7. Top.due # <<>> => Skipped(Top) \in Frame
    BY <1>2, <1>4, FieldTyped, Zenon DEF Skipped
  <1> DEFINE Sets(pc) == [Top EXCEPT !.pc = pc]
  <1>8. \A pc \in {"away", "woken", "timers", "callout", "expired", "relock"} :
          Sets(pc) \in Frame
    BY <1>2, FieldTyped, Zenon
  <1>a. CASE WokenUp
    <2>1. SetTop(Sets("woken"))
      BY <1>a DEF WokenUp
    <2> HIDE DEF Sets
    <2> QED
      BY <1>8, <1>3, <2>1
  <1>b. CASE CollectTimers
    <2> DEFINE due == Selected(timers[Top.mode], {u \in Timers : IsDue(u)})
               p == Sets("timers")
               h == [p EXCEPT !.handled = FALSE]
               f == [h EXCEPT !.due = due]
    <2>1. timers[Top.mode] \in Seq(Timers)
      BY <1>2, FrameTyped DEF TypeOK
    <2>2. due \in Seq(Timers)
      BY <2>1, SelectedTimers
    <2>3. SetTop(f)
      BY <1>b, Zenon DEF CollectTimers
    <2> HIDE DEF due
    <2>4. p \in Frame
      BY <1>8
    <2> HIDE DEF p
    <2>5. h \in Frame
      BY <2>4, <1>4, FieldTyped, Zenon
    <2> HIDE DEF h
    <2>6. f \in Frame
      BY <2>5, <2>2, FieldTyped, Zenon
    <2> HIDE DEF f
    <2> QED
      BY <2>3, <2>6, <1>3
  <1>c. CASE SkipTimer
    <2>1. SetTop(Skipped(Top)) /\ Top.due # <<>>
      BY <1>c DEF SkipTimer
    <2> QED
      BY <2>1, <1>3, <1>7
  <1>d. CASE FireTimer
    <2> DEFINE p == Sets("callout")
               f == [p EXCEPT !.oldFireTSR = fireTSR[t]]
    <2>1. SetTop(f) /\ Top.due # <<>>
      BY <1>d, Zenon DEF FireTimer
    <2>2. p \in Frame
      BY <1>8
    <2> HIDE DEF p
    <2>3. f \in Frame
      BY <2>1, <2>2, <1>6, FieldTyped, Zenon
    <2> HIDE DEF f
    <2> QED
      BY <2>1, <2>3, <1>3
  <1>e. CASE CallbackReturns
    <2> DEFINE p == Sets("expired")
               f == [p EXCEPT !.modes = rlModes[t]]
    <2>1. (SetTop(f) \/ SetTop(Sets("relock"))) /\ Top.pc = "callout"
      BY <1>e, Zenon DEF CallbackReturns, At
    <2>2. p \in Frame /\ Sets("relock") \in Frame
      BY <1>8
    <2>3. Top.due # <<>>
      BY <2>1, <1>5 DEF Busy
    <2> HIDE DEF p, Sets
    <2>4. f \in Frame
      BY <2>3, <2>2, <1>6, FieldTyped, Zenon
    <2> HIDE DEF f
    <2> QED
      BY <2>1, <2>2, <2>4, <1>3
  <1>f. CASE RemoveExpired
    <2> DEFINE p == Sets("relock")
               f == [p EXCEPT !.modes = {}]
    <2>1. SetTop(f)
      BY <1>f, Zenon DEF RemoveExpired
    <2>2. p \in Frame
      BY <1>8
    <2> HIDE DEF p
    <2>3. f \in Frame
      BY <2>2, <1>4, FieldTyped, Zenon
    <2> HIDE DEF f
    <2> QED
      BY <2>1, <2>3, <1>3
  <1>g. CASE TimerDone
    <2> DEFINE s == Skipped(Top)
               p == [s EXCEPT !.pc = "timers"]
               f == [p EXCEPT !.handled = TRUE]
    <2>1. SetTop(f) /\ Top.pc = "relock"
      BY <1>g, Zenon DEF TimerDone, At
    <2>2. s \in Frame
      BY <2>1, <1>5, <1>7 DEF Busy
    <2> HIDE DEF s
    <2>3. p \in Frame
      BY <2>2, FieldTyped, Zenon
    <2> HIDE DEF p
    <2>4. f \in Frame
      BY <2>3, <1>4, FieldTyped, Zenon
    <2> HIDE DEF f
    <2> QED
      BY <2>1, <2>4, <1>3
  <1>h. CASE TimersDone
    <2> DEFINE p == Sets("away")
               f == [p EXCEPT !.handled = FALSE]
    <2>1. SetTop(f)
      BY <1>h, Zenon DEF TimersDone
    <2>2. p \in Frame
      BY <1>8
    <2> HIDE DEF p
    <2>3. f \in Frame
      BY <2>2, <1>4, FieldTyped, Zenon
    <2> HIDE DEF f
    <2> QED
      BY <2>1, <2>3, <1>3
  <1> QED
    BY <1>a, <1>b, <1>c, <1>d, <1>e, <1>f, <1>g, <1>h DEF Step

\* What time, the kernel's timers and other threads call leaves the frames
\* alone.
LEMMA LoopStays ==
  ASSUME \/ Tick \/ \E m \in Modes : Expires(m)
         \/ \E c \in Callers : Begin(c) \/ Finish(c)
         \/ UNCHANGED vars
  PROVE  UNCHANGED <<depth, frame, firing, fired>>
  <1>1. CASE Tick \/ UNCHANGED vars
    BY <1>1 DEF Tick, vars, timerVars, loop
  <1>2. CASE \E m \in Modes : Expires(m)
    BY <1>2 DEF Expires, MkTimerExpires, DispatchTimerExpires, timerVars, loop
  <1>3. CASE \E c \in Callers : Begin(c)
    BY <1>3 DEF Begin, AddTimer, RemoveTimer, SetNextFireDate, SetTolerance,
                Invalidate, timerVars, loop
  <1>4. CASE \E c \in Callers : Finish(c)
    BY <1>4 DEF Finish, AddTimerToMode, SetDateInModes, RemoveInvalid, loop
  <1> QED
    BY <1>1, <1>2, <1>3, <1>4

LEMMA FramesStayTyped ==
  ASSUME FiringInv, TypeOK, DueInv, [Next]_vars
  PROVE  /\ depth' \in 0..MaxDepth /\ frame' \in [1..MaxDepth -> Frame]
         /\ DueInv'
         /\ valid' \subseteq valid /\ firing' \subseteq Timers /\ fired' \subseteq Timers
  <1>0. FramesInv /\ FramesInv' /\ (Untouched \/ Calling \/ Returning \/ Ending)
    BY EveryStep DEF FiringInv
  <1>1. depth' \in 0..MaxDepth /\ frame' \in [1..MaxDepth -> Frame]
    <2>1. CASE Step
      BY <2>1, StepKeepsFramesTyped
    <2>2. CASE Return
      <3>1. depth > 0 /\ Top.mode \in Modes
        BY <2>2, TopTyped, FrameTyped DEF Return, At
      <3> DEFINE f == NewFrame(Top.mode)
      <3>2. f \in Frame
        BY <3>1, NewFrameTyped
      <3>3. frame' = [frame EXCEPT ![depth] = f]
        BY <2>2 DEF Return
      <3> HIDE DEF f
      <3> QED
        BY <3>2, <3>3, <1>0 DEF TypeOK, FramesInv
    <2>3. CASE \E m \in Modes : Run(m)
      <3>1. PICK m \in Modes : Run(m)
        BY <2>3
      <3> DEFINE f == NewFrame(m)
      <3>2. f \in Frame
        BY NewFrameTyped
      <3>3. frame' = [frame EXCEPT ![depth + 1] = f]
        BY <3>1 DEF Run
      <3> HIDE DEF f
      <3> QED
        BY <3>2, <3>3, <1>0 DEF TypeOK, FramesInv
    <2>4. CASE UNCHANGED <<depth, frame>>
      BY <2>4 DEF TypeOK
    <2> QED
      BY <2>1, <2>2, <2>3, <2>4, LoopStays DEF Next
  <1>2. DueInv'
    <2>1. CASE Untouched
      BY <2>1 DEF Untouched, DueInv
    <2>2. CASE Calling
      BY <2>2 DEF Calling, OthersStay, DueInv
    <2>3. CASE Returning
      BY <2>3 DEF Returning, OthersStay, DueInv
    <2>4. CASE Ending
      BY <2>4 DEF Ending, OthersStay, DueInv
    <2> QED
      BY <1>0, <2>1, <2>2, <2>3, <2>4
  <1>3. fired' \subseteq Timers /\ valid' \subseteq valid
    BY <1>0 DEF TypeOK, Untouched, Calling, Returning, Ending
  <1>4. firing' \subseteq Timers
    BY <1>0 DEF FramesInv
  <1> QED
    BY <1>1, <1>2, <1>3, <1>4

----------------------------------------------------------------------------
(* What each step does to the dates, the calls and the arrays.             *)

\* The date after one that has passed is to come, and no date runs over.
LEMMA NextDateIsToCome ==
  ASSUME TypeOK, NEW date \in TSR, NEW interval \in TSR, interval > 0
  PROVE  NextFireTSR(date, interval) \in TSR /\ NextFireTSR(date, interval) > now
  <1> DEFINE IsMissed(k) == /\ date + k * interval > now
                            /\ k > 0 => date + (k - 1) * interval <= now
             missed == CHOOSE k \in 0..(now + 1) : IsMissed(k)
             next == NextFireTSR(date, interval)
  <1>1. /\ interval \in Nat /\ LongMax \in Nat /\ date \in Nat /\ interval <= LongMax
        /\ date <= LongMax /\ now \in Nat /\ now <= MaxTime /\ MaxTime \in Nat
        /\ 2 * MaxTime <= LongMax
    BY TSRAssumption, TimersAssumption DEF TSR, TypeOK
  <1>2. \E k \in 0..(now + 1) : IsMissed(k)
    BY <1>1, FirstDateToCome
  <1>3. missed \in 0..(now + 1) /\ IsMissed(missed)
    <2> HIDE DEF IsMissed
    <2> QED
      BY <1>2
  <1>4. next = IF LongMax - interval <= date THEN LongMax ELSE date + missed * interval
    BY DEF NextFireTSR
  <1> DEFINE k == missed
  <1>5. k \in Nat /\ IsMissed(k)
    BY <1>1, <1>3
  <1>6. LongMax > now
    BY <1>1
  <1> HIDE DEF missed, next, k
  <1>7. CASE LongMax - interval <= date
    BY <1>1, <1>4, <1>6, <1>7 DEF TSR, next
  <1>8. CASE ~(LongMax - interval <= date)
    <2>1. next = date + k * interval
      BY <1>4, <1>8 DEF k
    <2>2. next \in Nat /\ next > now
      BY <1>1, <1>5, <2>1
    <2>3. CASE k = 0
      BY <1>1, <2>1, <2>2, <2>3 DEF TSR, next
    <2>4. CASE k = 1
      BY <1>1, <1>8, <2>1, <2>2, <2>4 DEF TSR, next
    <2>5. CASE k > 1
      <3> DEFINE j == k - 2
      <3>1. j \in Nat /\ k = j + 2
        BY <1>5, <2>5
      <3>2. date + (j + 1) * interval <= now
        BY <1>5, <3>1
      <3> HIDE DEF j
      <3>3. j * interval \in Nat /\ (j + 1) * interval = j * interval + interval
        BY <1>1, <3>1
      <3>4. (j + 2) * interval = j * interval + interval + interval
        BY <1>1, <3>1
      <3> DEFINE x == j * interval
      <3>5. /\ x \in Nat /\ date + (x + interval) <= now
            /\ next = date + (x + interval + interval)
        BY <2>1, <3>1, <3>2, <3>3, <3>4
      <3> HIDE DEF x
      <3>6. interval <= now /\ next <= now + interval
        BY <1>1, <3>5
      <3>7. next <= LongMax
        BY <1>1, <2>2, <3>6
      <3> QED
        BY <1>1, <2>2, <3>7 DEF TSR, next
    <2> QED
      BY <1>5, <2>3, <2>4, <2>5
  <1> QED
    BY <1>7, <1>8

LEMMA CallTyped ==
  ASSUME NEW r \in Call
  PROVE  /\ r.call = "add" => r.timer \in Timers /\ r.mode \in Modes
         /\ r.call = "setDate" =>
              r.timer \in Timers /\ r.tsr \in TSR /\ r.modes \in SUBSET Modes
         /\ r.call = "invalidate" => r.timer \in Timers /\ r.modes \in SUBSET Modes
  BY DEF Call, Idle

LEMMA NewCallTyped ==
  ASSUME TypeOK, NEW t \in Timers
  PROVE  /\ Idle \in Call
         /\ \A m \in Modes : [call |-> "add", timer |-> t, mode |-> m] \in Call
         /\ \A d \in TSR : [call |-> "setDate", timer |-> t, tsr |-> d, modes |-> rlModes[t]] \in Call
         /\ [call |-> "invalidate", timer |-> t, modes |-> rlModes[t]] \in Call
  BY DEF Call, TypeOK

LEMMA CallsStayTyped ==
  ASSUME TypeOK, [Next]_vars
  PROVE  doing' \in [Callers -> Call] /\ now' \in 0..MaxTime /\ now' >= now
  <1>0. now \in Nat /\ MaxTime \in Nat /\ doing \in [Callers -> Call] /\ now \in 0..MaxTime
    BY TSRAssumption, TimersAssumption DEF TSR, TypeOK
  <1>1. CASE Tick
    BY <1>0, <1>1 DEF Tick
  <1>2. CASE Step \/ Return \/ (\E m \in Modes : Expires(m) \/ Run(m)) \/ UNCHANGED vars
    <2>1. now' = now /\ doing' = doing
      BY <1>2 DEF Step, WokenUp, CollectTimers, SkipTimer, FireTimer, CallbackReturns,
         RemoveExpired, TimerDone, TimersDone, Return, Expires, MkTimerExpires,
         DispatchTimerExpires, Run, vars
    <2> QED
      BY <1>0, <2>1
  <1>3. ASSUME NEW c \in Callers, Begin(c) \/ Finish(c)
        PROVE  doing' \in [Callers -> Call] /\ now' = now
    <2>0. ASSUME NEW r \in Call, doing' = [doing EXCEPT ![c] = r]
          PROVE  doing' \in [Callers -> Call]
      BY <1>0, <2>0
    <2>i. Idle \in Call
      BY DEF Call
    <2>1. CASE Finish(c)
      BY <2>0, <2>i, <2>1, Zenon DEF Finish, AddTimerToMode, SetDateInModes, RemoveInvalid
    <2>2. ASSUME NEW t \in Timers, NEW m \in Modes, AddTimer(c, t, m) \/ RemoveTimer(c, t, m)
          PROVE  doing' \in [Callers -> Call] /\ now' = now
      <3>1. [call |-> "add", timer |-> t, mode |-> m] \in Call
        BY NewCallTyped
      <3> QED
        BY <1>0, <2>0, <2>2, <3>1, Zenon DEF AddTimer, RemoveTimer, timerVars
    <2>3. ASSUME NEW t \in Timers, NEW date \in 0..MaxTime, SetNextFireDate(c, t, date)
          PROVE  doing' \in [Callers -> Call] /\ now' = now
      <3> DEFINE tsr == IF date < now THEN now ELSE date
      <3>1. tsr \in TSR
        BY <1>0, TSRAssumption, TimersAssumption DEF TSR
      <3>2. /\ now' = now
            /\ \/ doing' = [doing EXCEPT ![c] = [call |-> "setDate", timer |-> t,
                                                 tsr |-> tsr, modes |-> rlModes[t]]]
               \/ doing' = doing
        BY <2>3, Zenon DEF SetNextFireDate
      <3> HIDE DEF tsr
      <3>3. [call |-> "setDate", timer |-> t, tsr |-> tsr, modes |-> rlModes[t]] \in Call
        BY <3>1, NewCallTyped
      <3> QED
        BY <1>0, <2>0, <3>2, <3>3, Zenon
    <2>4. ASSUME NEW t \in Timers, NEW v, SetTolerance(c, t, v)
          PROVE  doing' \in [Callers -> Call] /\ now' = now
      BY <1>0, <2>4 DEF SetTolerance
    <2>5. ASSUME NEW t \in Timers, Invalidate(c, t)
          PROVE  doing' \in [Callers -> Call] /\ now' = now
      <3>1. [call |-> "invalidate", timer |-> t, modes |-> rlModes[t]] \in Call
        BY NewCallTyped
      <3> QED
        BY <1>0, <2>0, <2>5, <3>1, Zenon DEF Invalidate
    <2>6. CASE Begin(c)
      BY <2>2, <2>3, <2>4, <2>5, <2>6, Zenon DEF Begin
    <2>7. now' = now
      BY <2>1, <2>6, <1>3, <2>2, <2>3, <2>4, <2>5 DEF Finish, AddTimerToMode, SetDateInModes,
         RemoveInvalid
    <2> QED
      BY <1>3, <2>1, <2>6, <2>7
  <1> QED
    BY <1>0, <1>1, <1>2, <1>3 DEF Next

\* The arrays, the modes of the timers and what the modes are armed for stay,
\* and only a timer without modes has its date set.
Quiet ==
  /\ UNCHANGED <<rlModes, timers, armed>> /\ now' >= now
  /\ fireTSR' \in [Timers -> TSR] /\ tolerance' \in [Timers -> Nat] /\ message' \subseteq Modes
  /\ \A t \in Timers : rlModes[t] # {} => fireTSR'[t] = fireTSR[t]
  /\ firing' = firing

RestStays == UNCHANGED <<now, valid, tolerance, message, fired>>

\* CFRunLoopRemoveTimer, or the end of CFRunLoopTimerInvalidate.
Removing ==
  /\ RestStays /\ UNCHANGED <<firing, fireTSR>> /\ ~LockHeld
  /\ \E S \in SUBSET Modes, t \in Timers : RemoveFrom(S, t)

LEMMA QuietSteps ==
  ASSUME TypeOK,
         \/ Tick \/ Return \/ WokenUp \/ CollectTimers \/ SkipTimer \/ CallbackReturns
         \/ \E m \in Modes : Run(m)
         \/ \E c \in Callers, t \in Timers :
              \/ \E m \in Modes : AddTimer(c, t, m)
              \/ \E date \in 0..MaxTime : SetNextFireDate(c, t, date)
              \/ \E value \in Tolerances : SetTolerance(c, t, value)
              \/ Invalidate(c, t)
         \/ UNCHANGED vars
  PROVE  Quiet
  <1>0. /\ now \in Nat /\ MaxTime \in Nat /\ fireTSR \in [Timers -> TSR]
        /\ tolerance \in [Timers -> Nat] /\ message \subseteq Modes
    BY TSRAssumption, TimersAssumption DEF TSR, TypeOK
  <1>1. CASE Tick \/ UNCHANGED vars
    BY <1>0, <1>1 DEF Tick, vars, timerVars, modeVars, Quiet
  <1>2. CASE Return \/ WokenUp \/ CollectTimers \/ SkipTimer \/ CallbackReturns
             \/ \E m \in Modes : Run(m)
    <2>1. /\ UNCHANGED <<rlModes, timers, armed, now, fireTSR, tolerance, firing>>
          /\ message' \subseteq message
      BY <1>2 DEF Return, WokenUp, CollectTimers, SkipTimer, CallbackReturns, Run,
                  timerVars, modeVars
    <2> QED
      BY <1>0, <2>1 DEF Quiet
  <1>3. ASSUME NEW c \in Callers, NEW t \in Timers, NEW m \in Modes, AddTimer(c, t, m)
        PROVE  Quiet
    BY <1>0, <1>3 DEF AddTimer, Quiet, timerVars, modeVars
  <1>4. ASSUME NEW c \in Callers, NEW t \in Timers, Invalidate(c, t)
        PROVE  Quiet
    BY <1>0, <1>4 DEF Invalidate, Quiet, modeVars
  <1>5. ASSUME NEW c \in Callers, NEW t \in Timers, NEW value \in Tolerances,
               SetTolerance(c, t, value)
        PROVE  Quiet
    <2> DEFINE new == IF Interval[t] > 0 THEN Sooner(value, Interval[t] \div 2) ELSE value
    <2>1. value \in Nat /\ Interval[t] \in Nat /\ Interval[t] \div 2 \in Nat
      BY TSRAssumption, TimersAssumption DEF TSR
    <2>2. new \in Nat
      BY <2>1 DEF Sooner
    <2>3. tolerance' = [tolerance EXCEPT ![t] = new]
      BY <1>5, Zenon DEF SetTolerance
    <2>4. UNCHANGED <<now, firing, fireTSR, rlModes, timers, armed, message>>
      BY <1>5 DEF SetTolerance, modeVars
    <2> HIDE DEF new
    <2> QED
      BY <1>0, <2>2, <2>3, <2>4 DEF Quiet
  <1>6. ASSUME NEW c \in Callers, NEW t \in Timers, NEW date \in 0..MaxTime,
               SetNextFireDate(c, t, date)
        PROVE  Quiet
    <2> DEFINE tsr == IF date < now THEN now ELSE date
    <2>1. tsr \in TSR
      BY <1>0, TSRAssumption, TimersAssumption DEF TSR, TypeOK
    <2>2. UNCHANGED <<now, firing, tolerance, rlModes, timers, armed, message>>
      BY <1>6 DEF SetNextFireDate, modeVars
    <2>3. \/ fireTSR' = fireTSR
          \/ rlModes[t] = {} /\ fireTSR' = [fireTSR EXCEPT ![t] = tsr]
      BY <1>6, Zenon DEF SetNextFireDate
    <2> HIDE DEF tsr
    <2> QED
      BY <1>0, <2>1, <2>2, <2>3 DEF Quiet
  <1> QED
    BY <1>1, <1>2, <1>3, <1>4, <1>5, <1>6

LEMMA RemovingSteps ==
  ASSUME StateInv,
         \/ RemoveExpired
         \/ \E c \in Callers :
              \/ RemoveInvalid(c) \/ \E t \in Timers, m \in Modes : RemoveTimer(c, t, m)
  PROVE  Removing
  <1>1. CASE RemoveExpired
    <2>1. depth > 0 /\ Top.pc = "expired" /\ ~LockHeld
      BY <1>1 DEF RemoveExpired, At, LockHeld
    <2>2. /\ Top \in Frame /\ Busy(Top) /\ Top = frame[depth] /\ depth \in 1..depth
      BY <2>1, TopTyped DEF StateInv, Busy
    <2>3. Top.modes \in SUBSET Modes /\ Head(Top.due) \in Timers
      BY <2>2, FrameTyped DEF StateInv, DueInv
    <2> QED
      BY <1>1, <2>1, <2>3 DEF RemoveExpired, Removing, RestStays
  <1>2. ASSUME NEW c \in Callers, RemoveInvalid(c) PROVE Removing
    <2>1. doing[c].timer \in Timers /\ doing[c].modes \in SUBSET Modes
      BY <1>2, CallTyped DEF RemoveInvalid, StateInv, TypeOK
    <2> QED
      BY <1>2, <2>1 DEF RemoveInvalid, Removing, RestStays
  <1>3. ASSUME NEW c \in Callers, NEW t \in Timers, NEW m \in Modes, RemoveTimer(c, t, m)
        PROVE  Removing
    <2>1. {m} \in SUBSET Modes
      OBVIOUS
    <2> QED
      BY <1>3, <2>1 DEF RemoveTimer, Removing, RestStays
  <1> QED
    BY <1>1, <1>2, <1>3

\* __CFRunLoopRun arms the mode again if no timer was called back.
LEMMA TimersDoneDoes ==
  ASSUME StateInv, TimersDone
  PROVE  /\ RestStays /\ UNCHANGED <<rlModes, firing, fireTSR, timers>>
         /\ \/ Top.handled /\ armed' = armed
            \/ ~Top.handled /\ Rearmed({Top.mode}, fireTSR, firing)
  <1>1. /\ RestStays /\ UNCHANGED <<rlModes, firing, fireTSR>> /\ depth > 0
        /\ \/ Top.handled /\ UNCHANGED <<timers, armed>>
           \/ ~Top.handled /\ ArmModes({Top.mode}, timers, fireTSR, firing)
    BY DEF TimersDone, RestStays, timerVars, At
  <1>2. Top.mode \in Modes
    BY <1>1, TopTyped, FrameTyped DEF StateInv
  <1>3. /\ timers \in [Modes -> Seq(Timers)] /\ fireTSR \in [Timers -> TSR]
    BY DEF StateInv, TypeOK
  <1>4. CASE ~Top.handled /\ ArmModes({Top.mode}, timers, fireTSR, firing)
    <2>1. Rearmed({Top.mode}, fireTSR, firing) /\ timers'[Top.mode] = timers[Top.mode]
      BY <1>2, <1>3, <1>4, ModesAreArmed DEF StateInv
    <2>2. timers' = timers
      BY <1>2, <1>3, <2>1 DEF Rearmed
    <2> QED
      BY <1>1, <1>4, <2>1, <2>2
  <1> QED
    BY <1>1, <1>4

\* The mode has its timer armed for the next of the timers that do not fire.
LEMMA FireTimerDoes ==
  ASSUME StateInv, FireTimer
  PROVE  /\ UNCHANGED <<now, valid, tolerance, message, rlModes, fireTSR, timers>>
         /\ depth > 0 /\ Top.mode \in Modes /\ Top.due # <<>> /\ Head(Top.due) \in valid \ firing
         /\ firing' = firing \cup {Head(Top.due)}
         /\ armed' \in [Modes -> Armed]
         /\ \A m \in Modes : m # Top.mode => armed'[m] = armed[m]
         /\ LET next == NextDeadlines(timers[Top.mode], fireTSR, tolerance, firing')
                a == armed'[Top.mode]
            IN /\ a.soft = next.soft
               /\ a.soft = Never \/ a.mkTimer = a.soft \/ a.dispatchTimer = a.soft
  <1> DEFINE m == Top.mode
             next == NextDeadlines(timers[m], fireTSR, tolerance, firing')
             old == Forgotten(armed[m])
             a == ArmNext(old, next)
  <1>1. /\ UNCHANGED <<now, valid, tolerance, message, rlModes, fireTSR, timers>>
        /\ depth > 0 /\ Top.due # <<>> /\ Head(Top.due) \in valid \ firing
        /\ firing' = firing \cup {Head(Top.due)}
    BY DEF FireTimer, IsDue, At
  <1>2. m \in Modes
    BY <1>1, TopTyped, FrameTyped DEF StateInv
  <1>3. /\ timers[m] \in Seq(Timers) /\ fireTSR \in [Timers -> TSR]
        /\ tolerance \in [Timers -> Nat] /\ armed \in [Modes -> Armed]
    BY <1>2 DEF StateInv, TypeOK, Armed
  <1>4. armed' = [armed EXCEPT ![m] = a]
    BY Zenon DEF FireTimer
  <1>5. next \in NextSet /\ next.soft <= next.hard
    BY <1>3, NextDeadlinesAreFirst
  <1>6. old \in Armed /\ old.soft = Never
    <2> DEFINE b == armed[m]
    <2>1. b \in Armed
      BY <1>2, <1>3
    <2> HIDE DEF b
    <2>2. Never \in Deadline
      BY Deadlines
    <2> DEFINE s == b.soft  h == b.hard  k == b.mkTimer  d == b.dispatchTimer
    <2>n. b = [soft |-> s, hard |-> h, mkTimer |-> k, dispatchTimer |-> d]
      BY <2>1 DEF Armed
    <2>4. k \in Deadline /\ d \in Deadline
      BY <2>1 DEF Armed
    <2> HIDE DEF s, h, k, d
    <2> HIDE DEF Never
    <2> DEFINE e == [b EXCEPT !.soft = Never]
    <2>e. e = [soft |-> Never, hard |-> h, mkTimer |-> k, dispatchTimer |-> d]
      BY <2>n
    <2>f. [b EXCEPT !.soft = Never, !.hard = Never] = [e EXCEPT !.hard = Never]
      BY Zenon
    <2> HIDE DEF e
    <2>3. [b EXCEPT !.soft = Never, !.hard = Never] =
            [soft |-> Never, hard |-> Never, mkTimer |-> k, dispatchTimer |-> d]
      BY <2>e, <2>f
    <2> QED
      BY <2>2, <2>3, <2>4 DEF Forgotten, Armed, b
  <1> HIDE DEF next, old, m
  <1>7. /\ a \in Armed /\ a.soft = next.soft
        /\ a.soft = Never \/ a.mkTimer = a.soft \/ a.dispatchTimer = a.soft
    <2>1. /\ a \in Armed /\ a.soft = next.soft
          /\ \/ next.soft = Never
             \/ old.soft = next.soft /\ a = old
             \/ a.mkTimer = next.soft
             \/ a.dispatchTimer = next.soft
      BY <1>5, <1>6, ArmNextArms
    <2> QED
      BY <1>6, <2>1
  <1> HIDE DEF a
  <1>8. armed' \in [Modes -> Armed] /\ armed'[m] = a /\ \A n \in Modes : n # m => armed'[n] = armed[n]
    BY <1>2, <1>3, <1>4, <1>7
  <1> QED
    BY <1>1, <1>2, <1>7, <1>8 DEF next, m

\* __CFRunLoopDoTimer's end.
LEMMA TimerDoneDoes ==
  ASSUME StateInv, FiringInv, ExpiredInv, TimerDone, NEW t, t = Head(frame[depth].due)
  PROVE  /\ RestStays /\ rlModes' = rlModes /\ t \in Timers /\ firing' = firing \ {t}
         /\ depth > 0 /\ Top.pc = "relock" /\ Top.mode \in Modes
         /\ fireTSR' \in [Timers -> TSR] /\ \A u \in Timers : u # t => fireTSR'[u] = fireTSR[u]
         /\ \A m \in Modes : Agrees(timers'[m], m, rlModes)
         /\ \/ t \notin valid /\ UNCHANGED <<fireTSR, timers, armed>>
            \/ /\ t \in valid /\ Top.oldFireTSR < fireTSR[t] /\ fireTSR' = fireTSR
               /\ Rearmed({Top.mode}, fireTSR', firing')
            \/ t \in valid /\ fireTSR'[t] > now /\ Rearmed(rlModes[t], fireTSR', firing')
  <1>1. /\ RestStays /\ rlModes' = rlModes /\ firing' = firing \ {t}
        /\ depth > 0 /\ Top.pc = "relock" /\ Top = frame[depth]
    BY DEF TimerDone, RestStays, At, Top
  <1>2. /\ depth \in 1..depth /\ Top \in Frame /\ Busy(Top) /\ HasReturned(Top)
    BY <1>1, TopTyped DEF StateInv, Busy, HasReturned
  <1>3. /\ t \in Timers /\ Top.mode \in Modes /\ Top.oldFireTSR \in TSR
        /\ Interval[t] # 0 \/ t \notin valid
    BY <1>1, <1>2, FrameTyped DEF StateInv, DueInv, ExpiredInv
  <1>4. /\ fireTSR \in [Timers -> TSR] /\ timers \in [Modes -> Seq(Timers)]
        /\ rlModes[t] \in SUBSET Modes /\ Interval[t] \in TSR
        /\ fireTSR[t] \in Nat /\ Top.oldFireTSR \in Nat /\ Interval[t] \in Nat
    BY <1>3, TimersAssumption, Deadlines DEF StateInv, TypeOK
  <1> DEFINE next == NextFireTSR(Top.oldFireTSR, Interval[t])
  <1>5. CASE t \notin valid
    <2>1. UNCHANGED <<fireTSR, timers, armed>>
      BY <1>1, <1>5, Zenon DEF TimerDone
    <2> QED
      BY <1>1, <1>3, <1>4, <1>5, <2>1 DEF StateInv, ArraysInv
  <1>6. CASE t \in valid /\ Top.oldFireTSR < fireTSR[t]
    <2>0. ~(Top.oldFireTSR >= fireTSR[t])
      BY <1>4, <1>6
    <2>1. ArmModes({Top.mode}, timers, fireTSR, firing') /\ fireTSR' = fireTSR
      BY <1>1, <1>6, <2>0, Zenon DEF TimerDone, RearmedModes
    <2>s. /\ {Top.mode} \in SUBSET Modes /\ TypeOK
          /\ \A m \in {Top.mode} : timers[m] \in Seq(Timers)
          /\ \A m \in {Top.mode} : InOrder(timers[m], fireTSR) => InOrder(timers[m], fireTSR)
      BY <1>3, <1>4 DEF StateInv
    <2>2. Rearmed({Top.mode}, fireTSR, firing') /\ timers'[Top.mode] = timers[Top.mode]
      BY <1>4, <2>1, <2>s, ModesAreArmed, SMTT(30)
    <2>3. timers' = timers
      BY <1>3, <1>4, <2>2 DEF Rearmed
    <2> QED
      BY <1>1, <1>3, <1>4, <1>6, <2>1, <2>2, <2>3 DEF StateInv, ArraysInv
  <1>7. CASE t \in valid /\ ~(Top.oldFireTSR < fireTSR[t])
    <2>1. fireTSR' = [fireTSR EXCEPT ![t] = next] /\ Reposition(rlModes[t], t, fireTSR', firing')
      <3>1. Top.oldFireTSR >= fireTSR[t]
        BY <1>4, <1>7
      <3> QED
        BY <1>1, <1>7, <3>1, Zenon DEF TimerDone
    <2>2. Interval[t] > 0
      BY <1>3, <1>4, <1>7
    <2>3. next \in TSR /\ next > now
      BY <1>3, <1>4, <2>2, NextDateIsToCome DEF StateInv
    <2> HIDE DEF next
    <2>4. /\ fireTSR' \in [Timers -> TSR] /\ fireTSR'[t] = next
          /\ \A u \in Timers : u # t => fireTSR'[u] = fireTSR[u]
      BY <1>3, <1>4, <2>1, <2>3
    <2>5. /\ Rearmed({m \in rlModes[t] : m \in rlModes[t]}, fireTSR', firing')
          /\ \A m \in Modes : Agrees(timers'[m], m, rlModes)
      BY <1>3, <1>4, <2>1, <2>4, RepositionMoves DEF StateInv
    <2>6. {m \in rlModes[t] : m \in rlModes[t]} = rlModes[t]
      OBVIOUS
    <2> QED
      BY <1>1, <1>3, <1>7, <2>3, <2>4, <2>5, <2>6
  <1> QED
    BY <1>5, <1>6, <1>7

\* CFRunLoopAddTimer, once it has the lock.
LEMMA AddTimerDoes ==
  ASSUME StateInv, NEW c \in Callers, AddTimerToMode(c)
  PROVE  /\ RestStays /\ UNCHANGED <<firing, fireTSR>> /\ ~LockHeld /\ doing[c].call = "add"
         /\ rlModes' \in [Timers -> SUBSET Modes]
         /\ \A m \in Modes : Agrees(timers'[m], m, rlModes')
         /\ \/ UNCHANGED <<rlModes, timers, armed>>
            \/ \E m \in Modes :
                 /\ Rearmed({m}, fireTSR, firing)
                 /\ \A u \in Timers : rlModes[u] \subseteq rlModes'[u]
                 /\ \A u \in Timers, n \in Modes : n # m /\ n \in rlModes'[u] => n \in rlModes[u]
  <1> DEFINE t == doing[c].timer
             m == doing[c].mode
             array == Inserted(timers[m], t, fireTSR)
             arrays == [n \in {m} |-> Inserted(timers[n], t, fireTSR)]
  <1>1. /\ RestStays /\ UNCHANGED <<firing, fireTSR>> /\ ~LockHeld /\ doing[c].call = "add"
    BY DEF AddTimerToMode, RestStays
  <1>2. t \in Timers /\ m \in Modes
    BY <1>1, CallTyped DEF StateInv, TypeOK
  <1>3. /\ fireTSR \in [Timers -> TSR] /\ fireTSR \in [Timers -> Nat]
        /\ rlModes \in [Timers -> SUBSET Modes]
    BY Deadlines DEF StateInv, TypeOK
  <1>4. \/ UNCHANGED <<rlModes, timers, armed>>
        \/ /\ m \notin rlModes[t] /\ rlModes' = [rlModes EXCEPT ![t] = @ \cup {m}]
           /\ ArmModes({m}, arrays, fireTSR, firing)
    BY Zenon DEF AddTimerToMode, HasMode
  <1>5. CASE UNCHANGED <<rlModes, timers, armed>>
    BY <1>1, <1>3, <1>5 DEF StateInv, ArraysInv
  <1>6. CASE /\ m \notin rlModes[t] /\ rlModes' = [rlModes EXCEPT ![t] = @ \cup {m}]
             /\ ArmModes({m}, arrays, fireTSR, firing)
    <2>1. /\ IsArray(timers[m], Timers) /\ ~Holds(timers[m], t)
          /\ \A u \in Timers : Holds(timers[m], u) <=> m \in rlModes[u]
      BY <1>2, <1>6 DEF StateInv, ArraysInv, Agrees
    <2>a. arrays[m] = array /\ \A n \in {m} : n = m
      OBVIOUS
    <2>2. /\ IsArray(array, Timers)
          /\ \A u : Holds(array, u) <=> Holds(timers[m], u) \/ u = t
          /\ InOrder(timers[m], fireTSR) => InOrder(array, fireTSR)
      BY <1>2, <1>3, <2>1, InsertedTimer
    <2>3. array \in Seq(Timers)
      BY <2>2 DEF IsArray
    <2> HIDE DEF array, arrays
    <2>4. Rearmed({m}, fireTSR, firing) /\ timers'[m] = array
      BY <1>2, <1>3, <1>6, <2>a, <2>2, <2>3, ModesAreArmed, ZenonT(30) DEF StateInv
    <2>5. /\ rlModes' \in [Timers -> SUBSET Modes]
          /\ \A u \in Timers : rlModes'[u] = IF u = t THEN rlModes[t] \cup {m} ELSE rlModes[u]
      BY <1>2, <1>3, <1>6
    <2>6. ASSUME NEW n \in Modes PROVE Agrees(timers'[n], n, rlModes')
      <3>1. CASE n = m
        BY <2>1, <2>2, <2>4, <2>5, <3>1 DEF Agrees
      <3>2. CASE n # m
        <4>1. timers'[n] = timers[n]
          BY <2>4, <3>2 DEF Rearmed
        <4>2. \A u \in Timers : n \in rlModes'[u] <=> n \in rlModes[u]
          BY <2>5, <3>2
        <4>3. Agrees(timers[n], n, rlModes)
          BY DEF StateInv, ArraysInv
        <4> QED
          BY <4>1, <4>2, <4>3 DEF Agrees
      <3> QED
        BY <3>1, <3>2
    <2>7. /\ \A u \in Timers : rlModes[u] \subseteq rlModes'[u]
          /\ \A u \in Timers, n \in Modes : n # m /\ n \in rlModes'[u] => n \in rlModes[u]
      BY <2>5
    <2> QED
      BY <1>1, <1>2, <2>4, <2>5, <2>6, <2>7
  <1> QED
    BY <1>4, <1>5, <1>6

\* CFRunLoopTimerSetNextFireDate, once it has the lock.
LEMMA SetDateDoes ==
  ASSUME StateInv, NEW c \in Callers, SetDateInModes(c)
  PROVE  LET t == doing[c].timer
         IN /\ RestStays /\ UNCHANGED <<firing, rlModes>> /\ ~LockHeld
            /\ doing[c].call = "setDate" /\ t \in Timers
            /\ fireTSR' \in [Timers -> TSR]
            /\ \A u \in Timers : u # t => fireTSR'[u] = fireTSR[u]
            /\ Rearmed({m \in doing[c].modes : m \in rlModes[t]}, fireTSR', firing)
            /\ \A m \in Modes : Agrees(timers'[m], m, rlModes)
  <1> DEFINE t == doing[c].timer
  <1>1. /\ RestStays /\ UNCHANGED <<firing, rlModes>> /\ ~LockHeld
        /\ doing[c].call = "setDate"
        /\ fireTSR' = [fireTSR EXCEPT ![t] = doing[c].tsr]
        /\ Reposition(doing[c].modes, t, fireTSR', firing)
    BY DEF SetDateInModes, RestStays
  <1>2. t \in Timers /\ doing[c].tsr \in TSR /\ doing[c].modes \in SUBSET Modes
    BY <1>1, CallTyped DEF StateInv, TypeOK
  <1>3. /\ fireTSR' \in [Timers -> TSR] /\ \A u \in Timers : u # t => fireTSR'[u] = fireTSR[u]
    BY <1>1, <1>2 DEF StateInv, TypeOK
  <1>4. /\ Rearmed({m \in doing[c].modes : m \in rlModes[t]}, fireTSR', firing)
        /\ \A m \in Modes : Agrees(timers'[m], m, rlModes)
    BY <1>1, <1>2, <1>3, RepositionMoves, ZenonT(30) DEF StateInv
  <1> QED
    BY <1>1, <1>2, <1>3, <1>4

LEMMA EveryArrayStep ==
  ASSUME StateInv, [Next]_vars
  PROVE  \/ Quiet \/ \E m \in Modes : Expires(m)
         \/ FireTimer \/ Removing \/ TimersDone \/ TimerDone
         \/ \E c \in Callers : AddTimerToMode(c) \/ SetDateInModes(c)
  <1>1. CASE Step \/ Return \/ Tick \/ UNCHANGED vars \/ \E m \in Modes : Run(m)
    BY <1>1, QuietSteps, RemovingSteps DEF Step, StateInv
  <1>2. CASE \E c \in Callers : Begin(c)
    BY <1>2, QuietSteps, RemovingSteps DEF Begin, StateInv
  <1>3. CASE \E c \in Callers : Finish(c)
    BY <1>3, RemovingSteps DEF Finish
  <1> QED
    BY <1>1, <1>2, <1>3 DEF Next

\* The kernel's timer, or libdispatch's, goes off and sends its message.
LEMMA ExpiresDoes ==
  ASSUME TypeOK, NEW m \in Modes, Expires(m)
  PROVE  /\ UNCHANGED <<now, valid, firing, fireTSR, tolerance, rlModes, timers, depth, frame>>
         /\ message' = message \cup {m}
         /\ armed' \in [Modes -> Armed]
         /\ \A n \in Modes : n # m => armed'[n] = armed[n]
         /\ LET a == armed[m]
                b == armed'[m]
            IN /\ b.soft = a.soft
               /\ \/ a.mkTimer # Never /\ a.mkTimer <= now + Early /\ b.dispatchTimer = a.dispatchTimer
                  \/ a.dispatchTimer # Never /\ a.dispatchTimer <= now /\ b.mkTimer = a.mkTimer
  <1> DEFINE a == armed[m]
             s == a.soft  h == a.hard  k == a.mkTimer  d == a.dispatchTimer
  <1>1. /\ UNCHANGED <<now, valid, firing, fireTSR, tolerance, rlModes, timers, depth, frame>>
        /\ message' = message \cup {m}
        /\ \/ k # Never /\ k <= now + Early /\ armed' = [armed EXCEPT ![m].mkTimer = Never]
           \/ d # Never /\ d <= now /\ armed' = [armed EXCEPT ![m].dispatchTimer = Never]
    BY DEF Expires, MkTimerExpires, DispatchTimerExpires, timerVars, loop
  <1>2. armed \in [Modes -> Armed]
    BY DEF TypeOK, Armed
  <1>3. a = [soft |-> s, hard |-> h, mkTimer |-> k, dispatchTimer |-> d]
    BY <1>2 DEF Armed
  <1>4. s \in Deadline /\ h \in Deadline /\ k \in Deadline /\ d \in Deadline /\ Never \in Deadline
    BY <1>2, Deadlines DEF Armed
  <1> DEFINE x == [a EXCEPT !.mkTimer = Never]
             y == [a EXCEPT !.dispatchTimer = Never]
  <1>5. /\ [armed EXCEPT ![m].mkTimer = Never] = [armed EXCEPT ![m] = x]
        /\ [armed EXCEPT ![m].dispatchTimer = Never] = [armed EXCEPT ![m] = y]
    OBVIOUS
  <1>6. /\ x = [soft |-> s, hard |-> h, mkTimer |-> Never, dispatchTimer |-> d]
        /\ y = [soft |-> s, hard |-> h, mkTimer |-> k, dispatchTimer |-> Never]
    <2> HIDE DEF a, s, h, k, d, Never
    <2> QED
      BY <1>3
  <1>7. /\ x \in Armed /\ x.soft = s /\ x.dispatchTimer = d
        /\ y \in Armed /\ y.soft = s /\ y.mkTimer = k
    <2> HIDE DEF a, s, h, k, d, x, y, Never
    <2> QED
      BY <1>4, <1>6 DEF Armed
  <1> HIDE DEF x, y
  <1>8. \/ k # Never /\ k <= now + Early /\ armed' = [armed EXCEPT ![m] = x]
        \/ d # Never /\ d <= now /\ armed' = [armed EXCEPT ![m] = y]
    BY <1>1, <1>5, Zenon
  <1> HIDE DEF a, s, h, k, d, Never
  <1>9. /\ armed' \in [Modes -> Armed] /\ \A n \in Modes : n # m => armed'[n] = armed[n]
        /\ \/ k # Never /\ k <= now + Early /\ armed'[m] = x
           \/ d # Never /\ d <= now /\ armed'[m] = y
    BY <1>2, <1>7, <1>8
  <1> QED
    BY <1>1, <1>7, <1>9 DEF a, s, k, d

LEMMA NextState ==
  StateInv /\ FiringInv /\ ExpiredInv /\ [Next]_vars => StateInv'
  <1> SUFFICES ASSUME StateInv, FiringInv, ExpiredInv, [Next]_vars PROVE StateInv'
    OBVIOUS
  <1> DEFINE Dates == /\ fireTSR' \in [Timers -> TSR] /\ tolerance' \in [Timers -> Nat]
                      /\ rlModes' \in [Timers -> SUBSET Modes]
             Arrays == timers' \in [Modes -> Seq(Timers)] /\ armed' \in [Modes -> Armed]
             Agree == \A m \in Modes : Agrees(timers'[m], m, rlModes')
             Goal == Dates /\ Arrays /\ Agree /\ message' \subseteq Modes
  <1>1. /\ doing' \in [Callers -> Call] /\ now' \in 0..MaxTime
    BY CallsStayTyped DEF StateInv
  <1>2. /\ depth' \in 0..MaxDepth /\ frame' \in [1..MaxDepth -> Frame] /\ DueInv'
        /\ valid' \subseteq valid /\ firing' \subseteq Timers /\ fired' \subseteq Timers
    BY FramesStayTyped DEF StateInv
  <1>3. /\ fireTSR \in [Timers -> TSR] /\ tolerance \in [Timers -> Nat]
        /\ rlModes \in [Timers -> SUBSET Modes] /\ message \subseteq Modes /\ valid \subseteq Timers
        /\ timers \in [Modes -> Seq(Timers)] /\ armed \in [Modes -> Armed]
        /\ \A m \in Modes : Agrees(timers[m], m, rlModes)
    BY DEF StateInv, TypeOK, ArraysInv, Armed
  <1>4. Goal
    <2>1. CASE Quiet
      BY <1>3, <2>1 DEF Quiet
    <2>2. CASE \E m \in Modes : Expires(m)
      <3>1. PICK m \in Modes : Expires(m)
        BY <2>2
      <3>2. UNCHANGED <<fireTSR, tolerance, rlModes, timers>> /\ message' = message \cup {m}
            /\ armed' \in [Modes -> Armed]
        BY <3>1, ExpiresDoes DEF StateInv
      <3> QED
        BY <1>3, <3>2
    <2>3. CASE FireTimer
      <3>1. /\ UNCHANGED <<fireTSR, tolerance, rlModes, timers, message>>
            /\ armed' \in [Modes -> Armed]
        BY <2>3, FireTimerDoes
      <3> QED
        BY <1>3, <3>1
    <2>4. CASE Removing
      <3>1. PICK S \in SUBSET Modes, t \in Timers : RemoveFrom(S, t)
        BY <2>4 DEF Removing
      <3>2. /\ Rearmed({m \in S : m \in rlModes[t]}, fireTSR, firing)
            /\ rlModes' \in [Timers -> SUBSET Modes] /\ Agree
        BY <3>1, RemoveFromTakes DEF StateInv
      <3>3. Arrays
        BY <3>2 DEF Rearmed
      <3>4. UNCHANGED <<fireTSR, tolerance, message>>
        BY <2>4 DEF Removing, RestStays
      <3> HIDE DEF Agree, Arrays
      <3> QED
        BY <1>3, <3>2, <3>3, <3>4
    <2>5. CASE TimersDone
      <3>1. /\ RestStays /\ UNCHANGED <<rlModes, fireTSR, timers>>
            /\ armed' = armed \/ Rearmed({Top.mode}, fireTSR, firing)
        BY <2>5, TimersDoneDoes
      <3>2. armed' \in [Modes -> Armed]
        BY <3>1, <1>3 DEF Rearmed
      <3> QED
        BY <1>3, <3>1, <3>2 DEF RestStays
    <2>6. CASE TimerDone
      <3> DEFINE t == Head(frame[depth].due)
      <3>1. /\ RestStays /\ rlModes' = rlModes /\ fireTSR' \in [Timers -> TSR]
            /\ \A m \in Modes : Agrees(timers'[m], m, rlModes)
            /\ \/ UNCHANGED <<timers, armed>>
               \/ Rearmed({Top.mode}, fireTSR', firing')
               \/ Rearmed(rlModes[t], fireTSR', firing')
        BY <2>6, TimerDoneDoes
      <3>2. Arrays
        BY <3>1, <1>3 DEF Rearmed
      <3> HIDE DEF Arrays
      <3> QED
        BY <1>3, <3>1, <3>2 DEF RestStays
    <2>7. ASSUME NEW c \in Callers, AddTimerToMode(c) PROVE Goal
      <3>1. /\ RestStays /\ fireTSR' = fireTSR /\ rlModes' \in [Timers -> SUBSET Modes] /\ Agree
            /\ \/ UNCHANGED <<timers, armed>>
               \/ \E m \in Modes : Rearmed({m}, fireTSR, firing)
        BY <2>7, AddTimerDoes
      <3>2. Arrays
        BY <3>1, <1>3 DEF Rearmed
      <3> HIDE DEF Agree, Arrays
      <3> QED
        BY <1>3, <3>1, <3>2 DEF RestStays
    <2>8. ASSUME NEW c \in Callers, SetDateInModes(c) PROVE Goal
      <3>1. /\ RestStays /\ rlModes' = rlModes /\ fireTSR' \in [Timers -> TSR]
            /\ \A m \in Modes : Agrees(timers'[m], m, rlModes)
            /\ \E S : Rearmed(S, fireTSR', firing)
        BY <2>8, SetDateDoes, Zenon
      <3>2. Arrays
        BY <3>1 DEF Rearmed
      <3> HIDE DEF Arrays
      <3> QED
        BY <1>3, <3>1, <3>2 DEF RestStays
    <2> HIDE DEF Goal
    <2> QED
      BY <2>1, <2>2, <2>3, <2>4, <2>5, <2>6, <2>7, <2>8, EveryArrayStep
  <1>5. ArraysInv'
    BY <1>4 DEF ArraysInv
  <1>6. TypeOK'
    <2>1. armed' \in [Modes -> Armed]
      BY <1>4 DEF Armed
    <2>2. Dates /\ timers' \in [Modes -> Seq(Timers)] /\ message' \subseteq Modes
      BY <1>4
    <2>3. valid' \subseteq Timers
      BY <1>2, <1>3
    <2> QED
      BY <1>1, <1>2, <2>1, <2>2, <2>3 DEF TypeOK
  <1> QED
    BY <1>2, <1>5, <1>6 DEF StateInv

Sorted == \A m \in Modes : InOrder(timers[m], fireTSR)

\* The arrays the timers were added to at the start.
LEMMA InitialArrayIs ==
  ASSUME NEW m \in Modes, NEW s \in InitialArrays(m)
  PROVE  s \in Seq(Timers) /\ Agrees(s, m, Added) /\ InOrder(s, FireDate)
  <1> DEFINE S == {t \in Timers : m \in Added[t]}
             n == Cardinality(S)
  <1>1. IsFiniteSet(S) /\ n \in Nat
    <2>1. S \subseteq Timers /\ IsFiniteSet(Timers)
      BY TimersAssumption
    <2> HIDE DEF S
    <2> QED
      BY <2>1, FS_Subset, FS_CardinalityType
  <1>2. /\ s \in [1..n -> S] /\ ToSet(s) = S /\ IsInjective(s)
        /\ \A i, j \in 1..n : i < j => FireDate[s[i]] <= FireDate[s[j]]
    BY DEF InitialArrays
  <1>s. \A u : u \in S <=> u \in Timers /\ m \in Added[u]
    OBVIOUS
  <1> HIDE DEF n, S
  <1>3. s \in Seq(S) /\ Len(s) = n /\ DOMAIN s = 1..n
    BY <1>1, <1>2
  <1>4. s \in Seq(Timers)
    BY <1>3, <1>s
  <1>5. IsArray(s, Timers)
    BY <1>2, <1>3, <1>4 DEF IsArray, IsInjective
  <1>6. \A u : Holds(s, u) <=> u \in S
    BY <1>2, <1>3 DEF Holds, ToSet
  <1> QED
    BY <1>2, <1>3, <1>4, <1>5, <1>6, <1>s DEF Agrees, InOrder

\* What each mode is armed for at the start.
LEMMA InitArmed ==
  ASSUME Init, NEW m \in Modes
  PROVE  LET next == NextDeadlines(timers[m], fireTSR, tolerance, {})
             a == armed[m]
         IN /\ timers[m] \in InitialArrays(m) /\ timers[m] \in Seq(Timers)
            /\ a \in Armed /\ a.soft = next.soft
            /\ a.soft = Never \/ a.mkTimer = a.soft \/ a.dispatchTimer = a.soft
  <1> DEFINE next == NextDeadlines(timers[m], fireTSR, tolerance, {})
             a == ArmNext(NothingArmed, next)
  <1>1. /\ timers[m] \in InitialArrays(m) /\ fireTSR = FireDate
        /\ tolerance = [t \in Timers |-> 0]
        /\ armed = [n \in Modes |-> ArmNext(NothingArmed, NextDeadlines(timers[n], fireTSR, tolerance, {}))]
    BY DEF Init
  <1>2. timers[m] \in Seq(Timers) /\ fireTSR \in [Timers -> TSR] /\ tolerance \in [Timers -> Nat]
    BY <1>1, InitialArrayIs, TimersAssumption
  <1>3. next \in NextSet /\ next.soft <= next.hard
    BY <1>2, NextDeadlinesAreFirst
  <1>4. NothingArmed \in Armed /\ NothingArmed.soft = Never
    <2>1. Never \in Deadline
      BY Deadlines
    <2> HIDE DEF Never
    <2> QED
      BY <2>1 DEF NothingArmed, Armed
  <1> DEFINE none == NothingArmed
  <1> HIDE DEF none, next
  <1>5. armed[m] = ArmNext(none, next)
    BY <1>1 DEF none, next
  <1>6. none \in Armed /\ none.soft = Never
    BY <1>4 DEF none
  <1> DEFINE b == ArmNext(none, next)
  <1>7. /\ b \in Armed /\ b.soft = next.soft
        /\ \/ next.soft = Never
           \/ none.soft = next.soft /\ b = none
           \/ b.mkTimer = next.soft
           \/ b.dispatchTimer = next.soft
    BY <1>3, <1>6, ArmNextArms
  <1> HIDE DEF b
  <1>8. b.soft = Never \/ b.mkTimer = b.soft \/ b.dispatchTimer = b.soft
    BY <1>6, <1>7
  <1>9. armed[m] = b
    BY <1>5 DEF b
  <1> QED
    BY <1>1, <1>2, <1>7, <1>8, <1>9 DEF next

LEMMA InitState == Init => StateInv /\ Sorted
  <1> SUFFICES ASSUME Init PROVE StateInv /\ Sorted
    OBVIOUS
  <1>1. /\ now = 0 /\ valid = Timers /\ firing = {} /\ fired = {}
        /\ fireTSR = FireDate /\ tolerance = [t \in Timers |-> 0] /\ rlModes = Added
        /\ timers \in [Modes -> UNION {InitialArrays(m) : m \in Modes}]
        /\ message = {} /\ depth = 0
        /\ frame = [d \in 1..MaxDepth |-> NewFrame(CHOOSE m \in Modes : TRUE)]
        /\ doing = [c \in Callers |-> Idle]
    BY DEF Init
  <1>2. ASSUME NEW m \in Modes
        PROVE  /\ timers[m] \in Seq(Timers) /\ Agrees(timers[m], m, rlModes)
               /\ InOrder(timers[m], fireTSR) /\ armed[m] \in Armed
    BY <1>1, InitArmed, InitialArrayIs
  <1>3. DueInv
    BY <1>1 DEF DueInv
  <1>4. /\ fireTSR \in [Timers -> TSR] /\ tolerance \in [Timers -> Nat]
        /\ rlModes \in [Timers -> SUBSET Modes] /\ 0 \in 0..MaxTime /\ 0 \in 0..MaxDepth
        /\ doing \in [Callers -> Call]
    BY <1>1, TSRAssumption, TimersAssumption DEF TSR, Call
  <1>5. armed \in [Modes -> Armed]
    <2>1. armed = [m \in Modes |-> ArmNext(NothingArmed, NextDeadlines(timers[m], fireTSR, tolerance, {}))]
      BY DEF Init
    <2>2. armed = [m \in Modes |-> armed[m]]
      BY <2>1
    <2> QED
      BY <1>2, <2>2 DEF Armed
  <1>6. timers \in [Modes -> Seq(Timers)]
    BY <1>1, <1>2
  <1>7. frame \in [1..MaxDepth -> Frame]
    <2> DEFINE m == CHOOSE n \in Modes : TRUE
               f == NewFrame(m)
    <2>1. m \in Modes
      BY TimersAssumption
    <2>2. 0 \in TSR /\ <<>> \in Seq(Timers)
      BY TSRAssumption DEF TSR
    <2> HIDE DEF m
    <2>3. f \in Frame
      BY <2>1, <2>2 DEF NewFrame, Frame
    <2> HIDE DEF f
    <2>4. frame = [d \in 1..MaxDepth |-> f]
      BY <1>1 DEF f, m
    <2> QED
      BY <2>3, <2>4
  <1>8. TypeOK
    BY <1>1, <1>4, <1>5, <1>6, <1>7 DEF TypeOK
  <1> QED
    BY <1>2, <1>3, <1>8 DEF StateInv, ArraysInv, Sorted

\* A timer is in the array of a mode, once, exactly when the mode is in the
\* timer's own set, whatever is called of it and wherever the calls let the
\* locks go: each looks again, under the run loop's lock, whether the mode has
\* the timer (CFRunLoopAddTimer, CFRunLoopRemoveTimer, CFRunLoopTimerInvalidate,
\* __CFRepositionTimerInMode).
THEOREM ArraysAndModesAgree == Spec => []ArraysAgreeWithModes
  <1>1. Init => StateInv
    BY InitState
  <1>2. Init => ExpiredInv
    BY DEF Init, ExpiredInv
  <1>3. FiringInv /\ ExpiredInv /\ [Next]_vars => ExpiredInv'
    BY NextExpired
  <1>4. StateInv => ArraysAgreeWithModes
    BY ArraysInvMeans DEF StateInv
  <1> QED
    BY <1>1, <1>2, <1>3, <1>4, InitFiring, NextFiring, NextState, PTL DEF Spec

----------------------------------------------------------------------------
(* The calls the callers are in, and the order of the arrays.              *)

\* A caller in a call has begun it; the modes a date is set in are all that
\* the timer is in, unless timers are added meanwhile.
CallsInv ==
  \A c \in Callers :
    \/ doing[c] = Idle
    \/ /\ doing[c].call \in Calls
       /\ "add" \notin Calls /\ doing[c].call = "setDate"
            => rlModes[doing[c].timer] \subseteq doing[c].modes

CallBegins ==
  \E c \in Callers, r \in Call :
    /\ doing' = [doing EXCEPT ![c] = r]
    /\ \/ r = Idle
       \/ /\ r.call \in Calls /\ rlModes' = rlModes
          /\ r.call = "setDate" => r.modes = rlModes[r.timer]

LEMMA CallsBegin ==
  ASSUME TypeOK, [Next]_vars
  PROVE  doing' = doing \/ CallBegins
  <1>1. CASE Step \/ Return \/ Tick \/ (\E m \in Modes : Expires(m) \/ Run(m)) \/ UNCHANGED vars
    BY <1>1 DEF Step, WokenUp, CollectTimers, SkipTimer, FireTimer, CallbackReturns,
       RemoveExpired, TimerDone, TimersDone, Return, Tick, Expires, MkTimerExpires,
       DispatchTimerExpires, Run, vars
  <1>i. Idle \in Call
    BY DEF Call
  <1>2. ASSUME NEW c \in Callers, Finish(c) PROVE CallBegins
    BY <1>i, <1>2, Zenon DEF Finish, AddTimerToMode, SetDateInModes, RemoveInvalid, CallBegins
  <1>3. ASSUME NEW c \in Callers, NEW t \in Timers, NEW m \in Modes,
               AddTimer(c, t, m) \/ RemoveTimer(c, t, m)
        PROVE  doing' = doing \/ CallBegins
    <2> DEFINE r == [call |-> "add", timer |-> t, mode |-> m]
    <2>1. r \in Call /\ r.call = "add"
      BY NewCallTyped
    <2>2. \/ doing' = doing
          \/ "add" \in Calls /\ rlModes' = rlModes /\ doing' = [doing EXCEPT ![c] = r]
      BY <1>3 DEF AddTimer, RemoveTimer, Begins, timerVars
    <2> HIDE DEF r
    <2>3. r.call # "setDate" /\ r.call = "add"
      BY <2>1
    <2> QED
      BY <2>1, <2>2, <2>3, Zenon DEF CallBegins
  <1>4. ASSUME NEW c \in Callers, NEW t \in Timers, NEW date \in 0..MaxTime,
               SetNextFireDate(c, t, date)
        PROVE  doing' = doing \/ CallBegins
    <2> DEFINE tsr == IF date < now THEN now ELSE date
               r == [call |-> "setDate", timer |-> t, tsr |-> tsr, modes |-> rlModes[t]]
    <2>1. tsr \in TSR
      BY TSRAssumption, TimersAssumption DEF TSR, TypeOK
    <2>2. \/ doing' = doing
          \/ "setDate" \in Calls /\ rlModes' = rlModes /\ doing' = [doing EXCEPT ![c] = r]
      BY <1>4, Zenon DEF SetNextFireDate, Begins
    <2> HIDE DEF tsr
    <2>3. r \in Call /\ r.call = "setDate" /\ r.modes = rlModes[r.timer]
      BY <2>1, NewCallTyped
    <2> HIDE DEF r
    <2> QED
      BY <2>2, <2>3, Zenon DEF CallBegins
  <1>5. ASSUME NEW c \in Callers, NEW t \in Timers, NEW v, SetTolerance(c, t, v)
        PROVE  doing' = doing
    BY <1>5 DEF SetTolerance
  <1>6. ASSUME NEW c \in Callers, NEW t \in Timers, Invalidate(c, t)
        PROVE  doing' = doing \/ CallBegins
    <2> DEFINE r == [call |-> "invalidate", timer |-> t, modes |-> rlModes[t]]
    <2>1. r \in Call /\ r.call = "invalidate"
      BY NewCallTyped
    <2>2. \/ doing' = doing
          \/ "invalidate" \in Calls /\ rlModes' = rlModes /\ doing' = [doing EXCEPT ![c] = r]
      BY <1>6, Zenon DEF Invalidate, Begins
    <2> HIDE DEF r
    <2>3. r.call # "setDate"
      BY <2>1
    <2> QED
      BY <2>1, <2>2, <2>3, Zenon DEF CallBegins
  <1>7. CASE \E c \in Callers : Begin(c)
    BY <1>3, <1>4, <1>5, <1>6, <1>7, Zenon DEF Begin
  <1> QED
    BY <1>1, <1>2, <1>7 DEF Next

\* Only CFRunLoopAddTimer adds a mode to a timer.
LEMMA ModesShrink ==
  ASSUME StateInv, FiringInv, ExpiredInv, CallsInv, "add" \notin Calls, [Next]_vars,
         NEW u \in Timers
  PROVE  rlModes'[u] \subseteq rlModes[u]
  <1>1. CASE Quiet \/ (\E m \in Modes : Expires(m)) \/ FireTimer \/ TimersDone
             \/ \E c \in Callers : SetDateInModes(c)
    BY <1>1, ExpiresDoes, FireTimerDoes, TimersDoneDoes, SetDateDoes DEF Quiet, StateInv
  <1>2. CASE TimerDone
    BY <1>2, TimerDoneDoes
  <1>3. CASE Removing
    <2>1. PICK S \in SUBSET Modes, t \in Timers : RemoveFrom(S, t)
      BY <1>3 DEF Removing
    <2>2. \A v \in Timers : rlModes'[v] = IF v = t THEN rlModes[t] \ S ELSE rlModes[v]
      BY <2>1, RemoveFromTakes DEF StateInv
    <2> QED
      BY <2>2
  <1>4. ASSUME NEW c \in Callers PROVE ~AddTimerToMode(c)
    <2>1. doing[c].call # "add"
      BY DEF CallsInv, Idle
    <2> QED
      BY <2>1 DEF AddTimerToMode
  <1> QED
    BY <1>1, <1>2, <1>3, <1>4, EveryArrayStep

LEMMA NextCalls ==
  StateInv /\ FiringInv /\ ExpiredInv /\ CallsInv /\ [Next]_vars => CallsInv'
  <1> SUFFICES ASSUME StateInv, FiringInv, ExpiredInv, CallsInv, [Next]_vars PROVE CallsInv'
    OBVIOUS
  <1>0. doing \in [Callers -> Call]
    BY DEF StateInv, TypeOK
  <1>1. ASSUME "add" \notin Calls, NEW u \in Timers PROVE rlModes'[u] \subseteq rlModes[u]
    BY <1>1, ModesShrink
  <1>2. ASSUME NEW c \in Callers, doing'[c] = doing[c]
        PROVE  \/ doing'[c] = Idle
               \/ /\ doing'[c].call \in Calls
                  /\ "add" \notin Calls /\ doing'[c].call = "setDate"
                       => rlModes'[doing'[c].timer] \subseteq doing'[c].modes
    <2>1. doing[c].call = "setDate" => doing[c].timer \in Timers
      BY <1>0, CallTyped
    <2> QED
      BY <1>1, <1>2, <2>1 DEF CallsInv
  <1>3. CASE doing' = doing
    BY <1>2, <1>3 DEF CallsInv
  <1>4. CASE CallBegins
    <2>1. PICK c \in Callers, r \in Call :
            /\ doing' = [doing EXCEPT ![c] = r]
            /\ \/ r = Idle
               \/ /\ r.call \in Calls /\ rlModes' = rlModes
                  /\ r.call = "setDate" => r.modes = rlModes[r.timer]
      BY <1>4 DEF CallBegins
    <2>2. \A d \in Callers : doing'[d] = IF d = c THEN r ELSE doing[d]
      BY <1>0, <2>1
    <2> QED
      BY <1>2, <2>1, <2>2 DEF CallsInv
  <1> QED
    BY <1>3, <1>4, CallsBegin DEF StateInv

LEMMA InitCalls == Init => CallsInv
  BY DEF Init, CallsInv

\* The arrays are in order after a step that arms the modes in S, if only
\* timers that no other mode has get another date.
LEMMA RearmedIsSorted ==
  ASSUME StateInv, Sorted, NEW S, NEW busy, Rearmed(S, fireTSR', busy),
         \A m \in Modes, u \in Timers : m \notin S /\ m \in rlModes[u] => fireTSR'[u] = fireTSR[u]
  PROVE  Sorted'
  <1>1. ASSUME NEW m \in Modes PROVE InOrder(timers'[m], fireTSR')
    <2>1. InOrder(timers[m], fireTSR) /\ Agrees(timers[m], m, rlModes) /\ timers[m] \in Seq(Timers)
      BY DEF Sorted, StateInv, ArraysInv, TypeOK
    <2>2. CASE m \in S
      BY <2>1, <2>2 DEF Rearmed
    <2>3. CASE m \notin S
      <3>1. timers'[m] = timers[m]
        BY <2>3 DEF Rearmed
      <3>2. \A u \in Timers : Holds(timers[m], u) => fireTSR'[u] = fireTSR[u]
        BY <2>1, <2>3 DEF Agrees
      <3>3. InOrder(timers[m], fireTSR')
        BY <2>1, <3>2, OrderOfOthers
      <3> QED
        BY <3>1, <3>3
    <2> QED
      BY <2>2, <2>3
  <1> QED
    BY <1>1 DEF Sorted

\* The arrays are in order after a step that leaves them alone and sets only
\* the date of timers without modes.
LEMMA QuietIsSorted ==
  ASSUME StateInv, Sorted, timers' = timers,
         \A u \in Timers : rlModes[u] # {} => fireTSR'[u] = fireTSR[u]
  PROVE  Sorted'
  <1>1. ASSUME NEW m \in Modes PROVE InOrder(timers[m], fireTSR')
    <2>1. InOrder(timers[m], fireTSR) /\ Agrees(timers[m], m, rlModes) /\ timers[m] \in Seq(Timers)
      BY DEF Sorted, StateInv, ArraysInv, TypeOK
    <2>2. \A u \in Timers : Holds(timers[m], u) => fireTSR'[u] = fireTSR[u]
      BY <2>1 DEF Agrees
    <2> QED
      BY <2>1, <2>2, OrderOfOthers
  <1> QED
    BY <1>1 DEF Sorted

\* "add" and "setDate" race: the modes a date is set in may not be all any
\* more.  Without the one or the other the arrays stay in order.
NoneSetsWhileAdding == ~({"add", "setDate"} \subseteq Calls)

LEMMA NextSorted ==
  ASSUME NoneSetsWhileAdding
  PROVE  StateInv /\ FiringInv /\ ExpiredInv /\ CallsInv /\ Sorted /\ [Next]_vars => Sorted'
  <1> SUFFICES ASSUME StateInv, FiringInv, ExpiredInv, CallsInv, Sorted, [Next]_vars PROVE Sorted'
    OBVIOUS
  <1>1. CASE Quiet
    BY <1>1, QuietIsSorted DEF Quiet
  <1>2. CASE (\E m \in Modes : Expires(m)) \/ FireTimer \/ TimersDone
    <2>1. timers' = timers /\ fireTSR' = fireTSR
      BY <1>2, ExpiresDoes, FireTimerDoes, TimersDoneDoes DEF StateInv
    <2> QED
      BY <2>1, QuietIsSorted
  <1>3. CASE Removing
    <2>1. fireTSR' = fireTSR /\ \E S : Rearmed(S, fireTSR, firing)
      BY <1>3, RemoveFromTakes, Zenon DEF Removing, StateInv
    <2> QED
      BY <2>1, RearmedIsSorted
  <1>4. CASE TimerDone
    <2> DEFINE t == Head(frame[depth].due)
    <2>1. /\ t \in Timers /\ \A u \in Timers : u # t => fireTSR'[u] = fireTSR[u]
          /\ \/ UNCHANGED <<fireTSR, timers>>
             \/ fireTSR' = fireTSR /\ Rearmed({Top.mode}, fireTSR', firing')
             \/ Rearmed(rlModes[t], fireTSR', firing')
      BY <1>4, TimerDoneDoes
    <2> HIDE DEF t
    <2>2. CASE UNCHANGED <<fireTSR, timers>>
      BY <2>2, QuietIsSorted
    <2>3. CASE fireTSR' = fireTSR /\ Rearmed({Top.mode}, fireTSR', firing')
      BY <2>3, RearmedIsSorted
    <2>4. CASE Rearmed(rlModes[t], fireTSR', firing')
      <3>1. \A m \in Modes, u \in Timers :
              m \notin rlModes[t] /\ m \in rlModes[u] => fireTSR'[u] = fireTSR[u]
        BY <2>1
      <3> QED
        BY <2>4, <3>1, RearmedIsSorted
    <2> QED
      BY <2>1, <2>2, <2>3, <2>4
  <1>5. ASSUME NEW c \in Callers, AddTimerToMode(c) PROVE Sorted'
    <2>1. fireTSR' = fireTSR /\ (timers' = timers \/ \E m \in Modes : Rearmed({m}, fireTSR, firing))
      BY <1>5, AddTimerDoes
    <2> QED
      BY <2>1, QuietIsSorted, RearmedIsSorted
  <1>6. ASSUME NEW c \in Callers, SetDateInModes(c) PROVE Sorted'
    <2> DEFINE t == doing[c].timer
               S == {m \in doing[c].modes : m \in rlModes[t]}
    <2>1. /\ doing[c].call = "setDate" /\ t \in Timers
          /\ \A u \in Timers : u # t => fireTSR'[u] = fireTSR[u]
          /\ Rearmed(S, fireTSR', firing)
      BY <1>6, SetDateDoes
    <2>2. rlModes[t] \subseteq doing[c].modes
      BY <2>1 DEF CallsInv, NoneSetsWhileAdding, Idle
    <2>3. \A m \in Modes, u \in Timers : m \notin S /\ m \in rlModes[u] => fireTSR'[u] = fireTSR[u]
      BY <2>1, <2>2
    <2> HIDE DEF S
    <2> QED
      BY <2>1, <2>3, RearmedIsSorted
  <1> QED
    BY <1>1, <1>2, <1>3, <1>4, <1>5, <1>6, EveryArrayStep

\* No date or deadline runs over, and "our sorted list of timers"
\* (__CFArmNextTimerInMode) is one: every mode's array is in the order of the
\* dates, as long as nobody adds timers while others' dates are set.
THEOREM ArraysStaySorted ==
  ASSUME NoneSetsWhileAdding
  PROVE  Spec => []DatesAndArraysAgree
  <1>1. Init => ExpiredInv
    BY DEF Init, ExpiredInv
  <1>2. FiringInv /\ ExpiredInv /\ [Next]_vars => ExpiredInv'
    BY NextExpired
  <1>3. StateInv /\ FiringInv /\ ExpiredInv /\ CallsInv /\ Sorted /\ [Next]_vars => Sorted'
    BY NextSorted
  <1>4. StateInv /\ Sorted => DatesAndArraysAgree
    <2> SUFFICES ASSUME StateInv, Sorted PROVE ArraysAreSorted
      BY DEF DatesAndArraysAgree, StateInv
    <2>1. ASSUME NEW m \in Modes, NEW i \in DOMAIN timers[m], NEW j \in DOMAIN timers[m], i < j
          PROVE  fireTSR[timers[m][i]] <= fireTSR[timers[m][j]]
      <3>1. timers[m] \in Seq(Timers) /\ InOrder(timers[m], fireTSR)
        BY DEF StateInv, TypeOK, Sorted
      <3>2. DOMAIN timers[m] = 1..Len(timers[m])
        BY <3>1
      <3> QED
        BY <2>1, <3>1, <3>2 DEF InOrder
    <2> QED
      BY <2>1 DEF ArraysAreSorted
  <1> QED
    BY <1>1, <1>2, <1>3, <1>4, InitFiring, NextFiring, InitState, NextState, InitCalls,
       NextCalls, PTL DEF Spec

----------------------------------------------------------------------------
(* Where timers are added or have their dates set, but none is             *)
(* invalidated by a call, a timer that has expired is in no mode any more  *)
(* when its firing bit is cleared.                                         *)

\* What is called leaves no mode without its timer in time: see the README for
\* the combinations that do.
ArmsInTime ==
  /\ Early = 0
  /\ \/ Calls \subseteq {"remove", "setTolerance", "invalidate"}
     \/ /\ Calls \subseteq {"remove", "setTolerance", "setDate"}
        /\ \A m, n \in Modes : m = n
     \/ /\ Calls \subseteq {"remove", "setTolerance", "add"}
        /\ \A t \in Timers : Interval[t] > 0

AddsOrSets == "add" \in Calls \/ "setDate" \in Calls

EndInv ==
  /\ "add" \in Calls => valid = Timers
  /\ AddsOrSets =>
       /\ \A u \in Timers : rlModes[u] # {} => u \in valid \cup firing
       /\ \A d \in 1..depth :
            /\ frame[d].pc = "callout" => Head(frame[d].due) \in valid
            /\ frame[d].pc = "expired" /\ Head(frame[d].due) \notin valid
                 => rlModes[Head(frame[d].due)] \subseteq frame[d].modes
            /\ frame[d].pc = "relock" /\ Head(frame[d].due) \notin valid
                 => rlModes[Head(frame[d].due)] = {}

LEMMA EveryFrameStep ==
  ASSUME FramesInv, [Next]_vars
  PROVE  FramesInv' /\ (Untouched \/ FireTimer \/ CallbackReturns \/ RemoveExpired \/ TimerDone)
  <1>1. CASE Step
    BY <1>1, WokenUpIsQuiet, CollectTimersIsQuiet, SkipTimerIsQuiet, FireTimerCalls,
       CallbackReturnsAgain, RemoveExpiredReturns, TimerDoneEnds, TimersDoneIsQuiet
    DEF Step
  <1>2. CASE Return
    BY <1>2, ReturnIsQuiet
  <1>3. CASE \E m \in Modes : Run(m)
    BY <1>3, RunIsQuiet
  <1> QED
    BY <1>1, <1>2, <1>3, OthersAreQuiet DEF Next

LEMMA ValidStays ==
  ASSUME "invalidate" \notin Calls, [Next]_vars
  PROVE  valid' = valid \/ CallbackReturns
  <1>1. CASE Step \/ Return \/ Tick \/ (\E m \in Modes : Expires(m) \/ Run(m)) \/ UNCHANGED vars
    BY <1>1 DEF Step, WokenUp, CollectTimers, SkipTimer, FireTimer,
       RemoveExpired, TimerDone, TimersDone, Return, Tick, Expires, MkTimerExpires,
       DispatchTimerExpires, Run, vars, timerVars
  <1>2. CASE \E c \in Callers : Begin(c)
    BY <1>2 DEF Begin, AddTimer, RemoveTimer, SetNextFireDate, SetTolerance, Invalidate,
       Begins, timerVars
  <1>3. CASE \E c \in Callers : Finish(c)
    BY <1>3 DEF Finish, AddTimerToMode, SetDateInModes, RemoveInvalid
  <1> QED
    BY <1>1, <1>2, <1>3 DEF Next

LEMMA CallbackReturnsHow ==
  ASSUME FramesInv, CallbackReturns, NEW t, t = Head(frame[depth].due)
  PROVE  /\ depth > 0 /\ frame[depth].pc = "callout" /\ OthersStay
         /\ rlModes' = rlModes /\ firing' = firing /\ frame'[depth].due = frame[depth].due
         /\ \/ /\ Interval[t] = 0 /\ valid' = valid \ {t}
               /\ frame'[depth].pc = "expired" /\ frame'[depth].modes = rlModes[t]
            \/ /\ Interval[t] # 0 \/ t \notin valid
               /\ valid' = valid /\ frame'[depth].pc = "relock"
  <1> DEFINE p == [Top EXCEPT !.pc = "expired"]
             e == [Top EXCEPT !.pc = "expired", !.modes = rlModes[t]]
             r == [Top EXCEPT !.pc = "relock"]
  <1>1. /\ depth > 0 /\ Top.pc = "callout" /\ Top = frame[depth]
        /\ rlModes' = rlModes /\ firing' = firing
    BY DEF CallbackReturns, At, Top
  <1>2. \/ Interval[t] = 0 /\ valid' = valid \ {t} /\ SetTop(e)
        \/ (Interval[t] # 0 \/ t \notin valid) /\ valid' = valid /\ SetTop(r)
    BY <1>1 DEF CallbackReturns
  <1>3. IsFrame(Top)
    BY <1>1, TopIsFrame
  <1>4. /\ IsFrame(e) /\ e.pc = "expired" /\ e.due = Top.due /\ e.modes = rlModes[t]
        /\ IsFrame(r) /\ r.pc = "relock" /\ r.due = Top.due
    <2>1. IsFrame(p) /\ p.pc = "expired" /\ p.due = Top.due
      BY <1>3, FieldAssigned, Zenon
    <2>2. e = [p EXCEPT !.modes = rlModes[t]]
      BY Zenon
    <2>3. IsFrame(r) /\ r.pc = "relock" /\ r.due = Top.due
      BY <1>3, FieldAssigned, Zenon
    <2> HIDE DEF p
    <2>4. /\ IsFrame([p EXCEPT !.modes = rlModes[t]]) /\ [p EXCEPT !.modes = rlModes[t]].pc = p.pc
         /\ [p EXCEPT !.modes = rlModes[t]].due = p.due
      BY <2>1, FieldAssigned, Zenon
    <2>5. [p EXCEPT !.modes = rlModes[t]].modes = rlModes[t]
      BY <2>1 DEF IsFrame
    <2> HIDE DEF e, r
    <2> QED
      BY <2>1, <2>2, <2>3, <2>4, <2>5
  <1> HIDE DEF e, r
  <1>5. ASSUME NEW f, IsFrame(f), SetTop(f) PROVE OthersStay /\ frame'[depth] = f
    BY <1>1, <1>5, TopIsSet
  <1> QED
    BY <1>1, <1>2, <1>4, <1>5

LEMMA RemoveExpiredHow ==
  ASSUME FramesInv, RemoveExpired, NEW t, t = Head(frame[depth].due)
  PROVE  /\ depth > 0 /\ frame[depth].pc = "expired" /\ OthersStay
         /\ valid' = valid /\ firing' = firing
         /\ frame'[depth].pc = "relock" /\ frame'[depth].due = frame[depth].due
         /\ RemoveFrom(frame[depth].modes, t)
  <1> DEFINE p == [Top EXCEPT !.pc = "relock"]
             f == [Top EXCEPT !.pc = "relock", !.modes = {}]
  <1>1. /\ depth > 0 /\ Top.pc = "expired" /\ SetTop(f) /\ Top = frame[depth]
        /\ valid' = valid /\ firing' = firing
    BY DEF RemoveExpired, At, Top
  <1>r. RemoveFrom(frame[depth].modes, t)
    BY DEF RemoveExpired, Top
  <1>2. IsFrame(Top)
    BY <1>1, TopIsFrame
  <1>3. IsFrame(f) /\ f.pc = "relock" /\ f.due = Top.due
    <2>1. IsFrame(p) /\ p.pc = "relock" /\ p.due = Top.due
      BY <1>2, FieldAssigned, Zenon
    <2>2. f = [p EXCEPT !.modes = {}]
      BY Zenon
    <2> HIDE DEF p
    <2>3. /\ IsFrame([p EXCEPT !.modes = {}]) /\ [p EXCEPT !.modes = {}].pc = p.pc
         /\ [p EXCEPT !.modes = {}].due = p.due
      BY <2>1, FieldAssigned, Zenon
    <2> HIDE DEF f
    <2> QED
      BY <2>1, <2>2, <2>3
  <1> HIDE DEF f
  <1> QED
    BY <1>1, <1>r, <1>3, TopIsSet

LEMMA InitEnd == Init => EndInv
  BY DEF Init, EndInv

LEMMA NextEnd ==
  ASSUME ArmsInTime
  PROVE  StateInv /\ FiringInv /\ ExpiredInv /\ CallsInv /\ EndInv /\ [Next]_vars => EndInv'
  <1> SUFFICES ASSUME StateInv, FiringInv, ExpiredInv, CallsInv, EndInv, [Next]_vars, AddsOrSets
               PROVE  EndInv'
    BY DEF EndInv, AddsOrSets
  <1>0. /\ FramesInv /\ FramesInv' /\ depth \in Nat
        /\ Untouched \/ FireTimer \/ CallbackReturns \/ RemoveExpired \/ TimerDone
    BY EveryFrameStep, TimersAssumption DEF FiringInv, FramesInv
  <1>1. valid' = valid \/ CallbackReturns
    BY ValidStays DEF ArmsInTime, AddsOrSets
  <1>b. \A d \in 1..depth : Busy(frame[d]) =>
          Head(frame[d].due) \in Timers /\ Head(frame[d].due) \in firing
    BY <1>0 DEF FiringInv, FramesInv
  <1>2. CASE "add" \in Calls
    <2>1. \A t \in Timers : Interval[t] # 0
      BY <1>2, TSRAssumption, TimersAssumption DEF ArmsInTime, TSR
    <2>2. valid = Timers
      BY <1>2 DEF EndInv
    <2>3. valid' = Timers
      <3>1. CASE CallbackReturns
        <4> DEFINE t == Head(frame[depth].due)
        <4>1. /\ depth > 0 /\ frame[depth].pc = "callout"
              /\ Interval[t] = 0 \/ valid' = valid
          BY <1>0, <3>1, CallbackReturnsHow
        <4>2. t \in Timers
          BY <1>0, <1>b, <4>1 DEF Busy
        <4> QED
          BY <2>1, <2>2, <4>1, <4>2
      <3> QED
        BY <1>1, <2>2, <3>1
    <2>4. \A d \in 1..depth' : Busy(frame'[d]) => Head(frame'[d].due) \in valid'
      <3>1. FiringInv'
        BY NextFiring
      <3> QED
        BY <2>3, <3>1 DEF FiringInv, FramesInv
    <2> QED
      BY <2>3, <2>4 DEF EndInv, Busy
  <1>3. CASE "add" \notin Calls
    <2>m. \A u \in Timers : rlModes'[u] \subseteq rlModes[u]
      BY <1>3, ModesShrink
    <2> DEFINE Ends(d) ==
            /\ frame'[d].pc = "callout" => Head(frame'[d].due) \in valid'
            /\ frame'[d].pc = "expired" /\ Head(frame'[d].due) \notin valid'
                 => rlModes'[Head(frame'[d].due)] \subseteq frame'[d].modes
            /\ frame'[d].pc = "relock" /\ Head(frame'[d].due) \notin valid'
                 => rlModes'[Head(frame'[d].due)] = {}
    \* An activation whose frame stays, and whose timer is as valid as before.
    <2>s. ASSUME NEW d \in 1..depth, frame'[d] = frame[d],
                 Busy(frame[d]) /\ Head(frame[d].due) \in valid => Head(frame[d].due) \in valid'
          PROVE  Ends(d)
      <3>1. ~Busy(frame[d]) => Ends(d)
        BY <2>s DEF Busy
      <3>2. ASSUME Busy(frame[d]) PROVE Ends(d)
        <4>1. Head(frame[d].due) \in Timers /\ valid' \subseteq valid
          BY <1>0, <1>b, <3>2, FramesStayTyped DEF StateInv
        <4> QED
          BY <2>s, <2>m, <3>2, <4>1 DEF EndInv
      <3> QED
        BY <3>1, <3>2
    <2>1. CASE Untouched /\ valid' = valid
      <3>1. ASSUME NEW d \in 1..depth' PROVE Ends(d)
        <4>1. CASE Busy(frame'[d])
          <5>1. d \in 1..depth /\ frame'[d] = frame[d]
            BY <2>1, <4>1 DEF Untouched
          <5> QED
            BY <2>1, <2>s, <5>1
        <4> QED
          BY <4>1 DEF Busy
      <3>2. firing' = firing
        BY <2>1 DEF Untouched
      <3>3. \A u \in Timers : rlModes'[u] # {} => u \in valid' \cup firing'
        BY <2>1, <2>m, <3>2 DEF EndInv
      <3> QED
        BY <1>3, <3>1, <3>3 DEF EndInv
    <2>2. CASE FireTimer
      <3>1. /\ depth > 0 /\ OthersStay /\ frame'[depth].pc = "callout"
            /\ frame'[depth].due = frame[depth].due /\ Head(frame[depth].due) \in valid
            /\ valid' = valid /\ firing \subseteq firing'
        BY <1>0, <2>2, FireTimerCalls DEF Calling
      <3>2. \A d \in 1..depth' : d # depth => Ends(d)
        BY <2>s, <3>1 DEF OthersStay
      <3>3. Ends(depth) /\ depth' = depth
        BY <3>1 DEF OthersStay
      <3>4. \A u \in Timers : rlModes'[u] # {} => u \in valid' \cup firing'
        BY <2>m, <3>1 DEF EndInv
      <3> QED
        BY <1>3, <3>2, <3>3, <3>4 DEF EndInv
    <2>3. CASE CallbackReturns
      <3> DEFINE t == Head(frame[depth].due)
      <3>1. /\ depth > 0 /\ depth \in 1..depth /\ frame[depth].pc = "callout" /\ OthersStay
            /\ rlModes' = rlModes /\ firing' = firing /\ frame'[depth].due = frame[depth].due
            /\ \/ /\ valid' = valid \ {t}
                  /\ frame'[depth].pc = "expired" /\ frame'[depth].modes = rlModes[t]
               \/ valid' = valid /\ frame'[depth].pc = "relock"
        BY <1>0, <2>3, CallbackReturnsHow
      <3>2. t \in valid /\ t \in firing /\ Busy(frame[depth])
        BY <3>1, <1>b DEF EndInv, Busy
      <3>3. Ends(depth) /\ depth' = depth
        BY <3>1, <3>2 DEF OthersStay
      <3>4. ASSUME NEW d \in 1..depth', d # depth PROVE Ends(d)
        <4>1. d \in 1..depth /\ frame'[d] = frame[d]
          BY <3>1, <3>4 DEF OthersStay
        <4>2. Busy(frame[d]) => Head(frame[d].due) # t
          BY <3>1, <3>2, <3>4, <4>1 DEF FiringInv
        <4>3. Busy(frame[d]) /\ Head(frame[d].due) \in valid => Head(frame[d].due) \in valid'
          BY <3>1, <4>2
        <4> QED
          BY <2>s, <4>1, <4>3
      <3>5. \A u \in Timers : rlModes'[u] # {} => u \in valid' \cup firing'
        BY <3>1, <3>2 DEF EndInv
      <3> QED
        BY <1>3, <3>3, <3>4, <3>5 DEF EndInv
    <2>4. CASE RemoveExpired
      <3> DEFINE t == Head(frame[depth].due)
      <3>1. /\ depth > 0 /\ depth \in 1..depth /\ frame[depth].pc = "expired" /\ OthersStay
            /\ valid' = valid /\ firing' = firing
            /\ frame'[depth].pc = "relock" /\ frame'[depth].due = frame[depth].due
            /\ RemoveFrom(frame[depth].modes, t)
        BY <1>0, <2>4, RemoveExpiredHow
      <3>2. t \in Timers /\ frame[depth].modes \in SUBSET Modes
        <4>1. depth \in 1..MaxDepth
          BY <1>0, <3>1 DEF FramesInv
        <4>2. frame[depth] \in Frame
          BY <4>1 DEF StateInv, TypeOK
        <4> QED
          BY <3>1, <1>b, <4>2, FrameTyped DEF Busy
      <3>3. rlModes'[t] = rlModes[t] \ frame[depth].modes
        BY <3>1, <3>2, RemoveFromTakes DEF StateInv
      <3>4. t \notin valid => rlModes'[t] = {}
        BY <3>1, <3>3 DEF EndInv
      <3>5. Ends(depth) /\ depth' = depth
        BY <3>1, <3>4 DEF OthersStay
      <3>6. \A d \in 1..depth' : d # depth => Ends(d)
        BY <2>s, <3>1 DEF OthersStay
      <3>7. \A u \in Timers : rlModes'[u] # {} => u \in valid' \cup firing'
        BY <2>m, <3>1 DEF EndInv
      <3> QED
        BY <1>3, <3>5, <3>6, <3>7 DEF EndInv
    <2>5. CASE TimerDone
      <3> DEFINE t == Head(frame[depth].due)
      <3>1. /\ depth > 0 /\ depth \in 1..depth /\ OthersStay
            /\ ~Busy(frame'[depth]) /\ valid' = valid /\ firing' = firing \ {t}
        BY <1>0, <2>5, TimerDoneEnds DEF Ending
      <3>2. frame[depth].pc = "relock" /\ rlModes' = rlModes
        BY <2>5 DEF TimerDone, At, Top
      <3>3. Ends(depth) /\ depth' = depth
        BY <3>1 DEF OthersStay, Busy
      <3>4. \A d \in 1..depth' : d # depth => Ends(d)
        BY <2>s, <3>1 DEF OthersStay
      <3>5. t \notin valid => rlModes[t] = {}
        BY <3>1, <3>2 DEF EndInv
      <3>6. \A u \in Timers : rlModes'[u] # {} => u \in valid' \cup firing'
        BY <3>1, <3>2, <3>5 DEF EndInv
      <3> QED
        BY <1>3, <3>3, <3>4, <3>6 DEF EndInv
    <2> QED
      BY <1>0, <1>1, <2>1, <2>2, <2>3, <2>4, <2>5
  <1> QED
    BY <1>2, <1>3

----------------------------------------------------------------------------
(* What each mode is armed for.                                            *)

IsPending(a) == a.mkTimer = a.soft \/ a.dispatchTimer = a.soft

\* The timers that wait in each mode, and the modes with one that neither
\* waits nor fires.
WaitingIn == [m \in Modes |-> {t \in Timers : t \in valid \ firing /\ m \in rlModes[t]}]
DeadIn == {m \in Modes : \E u \in Timers : m \in rlModes[u] /\ u \notin valid \cup firing}

\* The modes whose timer's message is queued or in hand, and the mode that is
\* in a pass that has called no timer back yet, with the timers left in it.
HandModes == message \cup {frame[d].mode : d \in {e \in 1..depth : frame[e].pc = "woken"}}
PassModes == IF At("timers") /\ ~Top.handled THEN {Top.mode} ELSE {}
TopDue == Top.due

\* The mode m, armed as a, with the timers W waiting on their dates: it is
\* armed for none of them too late, and if what it was armed for has come, the
\* message is there, or the pass it has brought, or no timer waits for that any
\* more.
IsArmedWell(m, a, time, W, dates, hands, passes, dead, due) ==
  /\ \A t \in W : a.soft <= dates[t]
  /\ a.soft = Never \/ IsPending(a) \/ a.soft <= time
  /\ \/ a.soft = Never \/ IsPending(a) \/ m \in hands
     \/ /\ m \in passes \/ m \in dead
        /\ \A t \in W : dates[t] <= a.soft => m \in passes /\ Holds(due, t)

ArmedInv ==
  \A m \in Modes :
    IsArmedWell(m, armed[m], now, WaitingIn[m], fireTSR, HandModes, PassModes, DeadIn, TopDue)

\* A mode that is left alone, or whose timer has gone off.
LEMMA StaysArmedWell ==
  ASSUME NEW m, NEW a \in Armed, NEW b \in Armed, NEW n \in Nat, NEW n2 \in Nat, n <= n2,
         NEW W, NEW W2, W2 \subseteq W, NEW dates, NEW dates2,
         \A t \in W2 : dates2[t] = dates[t],
         NEW hands, NEW hands2, NEW passes, NEW passes2, NEW dead, NEW dead2, NEW due, NEW due2,
         b.soft = a.soft,
         IsPending(a) => IsPending(b) \/ (m \in hands2 /\ a.soft <= n2),
         m \in hands => m \in hands2, m \in dead => m \in dead2,
         m \in passes => /\ m \in passes2
                         /\ \A t \in W2 : Holds(due, t) /\ dates[t] <= a.soft /\ a.soft <= n
                              => Holds(due2, t),
         IsArmedWell(m, a, n, W, dates, hands, passes, dead, due)
  PROVE  IsArmedWell(m, b, n2, W2, dates2, hands2, passes2, dead2, due2)
  <1>1. a.soft \in Nat
    BY Deadlines DEF Armed
  <1>2. \A t \in W2 : b.soft <= dates2[t]
    BY DEF IsArmedWell
  <1>3. b.soft = Never \/ IsPending(b) \/ b.soft <= n2
    <2>1. a.soft <= n => a.soft <= n2
      BY <1>1
    <2> QED
      BY <2>1 DEF IsArmedWell
  <1>4. CASE a.soft = Never \/ IsPending(a) \/ m \in hands
    <2>1. \/ b.soft = Never \/ IsPending(b) \/ m \in hands2
      BY <1>4
    <2> QED
      BY <1>2, <1>3, <2>1 DEF IsArmedWell
  <1>5. CASE ~(a.soft = Never \/ IsPending(a) \/ m \in hands)
    <2>1. /\ a.soft <= n
          /\ m \in passes \/ m \in dead
          /\ \A t \in W : dates[t] <= a.soft => m \in passes /\ Holds(due, t)
      BY <1>5 DEF IsArmedWell
    <2>2. m \in passes2 \/ m \in dead2
      BY <2>1
    <2>3. ASSUME NEW t \in W2, dates2[t] <= b.soft PROVE m \in passes2 /\ Holds(due2, t)
      <3>1. t \in W /\ dates[t] <= a.soft
        BY <2>3
      <3> QED
        BY <2>1, <3>1
    <2> QED
      BY <1>2, <1>3, <2>2, <2>3 DEF IsArmedWell
  <1> QED
    BY <1>4, <1>5

\* A mode that has been armed again.
LEMMA ArmsWell ==
  ASSUME NEW m, NEW a \in Armed, NEW b \in Armed, NEW n \in Nat,
         NEW W, NEW W2, NEW dates, NEW dates2, \A t \in W : dates[t] \in Nat,
         \A t \in W2 : dates2[t] \in Nat,
         NEW hands, NEW hands2, NEW passes, NEW passes2, NEW dead, NEW dead2, NEW due, NEW due2,
         \/ b.soft = Never \/ IsPending(b) \/ b = a,
         \A t \in W2 : b.soft <= dates2[t],
         m \in hands => m \in hands2,
         \A t \in W : ~(m \in passes /\ Holds(due, t)),
         b.soft # Never => m \in dead2 \/ \E u \in W2 : dates2[u] = b.soft,
         m \in passes \/ m \in dead =>
           \A t \in W2 : (t \in W /\ dates2[t] = dates[t]) \/ dates2[t] > n,
         IsArmedWell(m, a, n, W, dates, hands, passes, dead, due)
  PROVE  IsArmedWell(m, b, n, W2, dates2, hands2, passes2, dead2, due2)
  <1>1. a.soft \in Nat
    BY Deadlines DEF Armed
  <1>2. CASE b.soft = Never \/ IsPending(b)
    BY <1>2 DEF IsArmedWell
  <1>3. CASE b = a /\ ~(a.soft = Never \/ IsPending(a))
    <2>1. a.soft <= n
      BY <1>3 DEF IsArmedWell
    <2>2. CASE m \in hands
      BY <1>3, <2>1, <2>2 DEF IsArmedWell
    <2>3. CASE m \notin hands
      <3>1. /\ m \in passes \/ m \in dead
            /\ \A t \in W : ~(dates[t] <= a.soft)
        BY <1>3, <2>3 DEF IsArmedWell
      <3>2. ASSUME NEW t \in W2 PROVE ~(dates2[t] <= b.soft)
        <4>1. CASE t \in W /\ dates2[t] = dates[t]
          BY <1>3, <3>1, <4>1
        <4>2. CASE dates2[t] > n
          BY <1>1, <1>3, <2>1, <4>2
        <4> QED
          BY <3>1, <4>1, <4>2
      <3>3. m \in dead2
        <4>1. ASSUME NEW u \in W2 PROVE dates2[u] # b.soft
          BY <1>1, <1>3, <3>2
        <4> QED
          BY <1>3, <4>1
      <3> QED
        BY <1>3, <2>1, <3>2, <3>3 DEF IsArmedWell
    <2> QED
      BY <2>2, <2>3
  <1> QED
    BY <1>2, <1>3

LEMMA WaitingAre ==
  ASSUME NEW m \in Modes
  PROVE  /\ \A t : t \in WaitingIn[m] <=>
              t \in Timers /\ t \in valid /\ t \notin firing /\ m \in rlModes[t]
         /\ \A t : t \in WaitingIn'[m] <=>
              t \in Timers /\ t \in valid' /\ t \notin firing' /\ m \in rlModes'[t]
         /\ m \in DeadIn <=> \E u \in Timers : m \in rlModes[u] /\ u \notin valid \cup firing
         /\ m \in DeadIn' <=> \E u \in Timers : m \in rlModes'[u] /\ u \notin valid' \cup firing'
  BY DEF WaitingIn, DeadIn

\* What ArmNext makes of a mode: it is armed for none that waits too late, and
\* for one that is there.
LEMMA NextIsArmed ==
  ASSUME NEW m \in Modes, StateInv', Sorted', tolerance \in [Timers -> Nat]
  PROVE  LET next == NextDeadlines(timers'[m], fireTSR', tolerance, firing')
         IN /\ next \in NextSet /\ next.soft <= next.hard
            /\ \A t \in WaitingIn'[m] : next.soft <= fireTSR'[t] /\ fireTSR'[t] \in Nat
            /\ next.soft # Never =>
                 m \in DeadIn' \/ \E u \in WaitingIn'[m] : fireTSR'[u] = next.soft
  <1> DEFINE array == timers'[m]
             dates == fireTSR'
             busy == firing'
             next == NextDeadlines(array, dates, tolerance, busy)
  <1>1. /\ array \in Seq(Timers) /\ dates \in [Timers -> TSR] /\ InOrder(array, dates)
        /\ \A u \in Timers : Holds(array, u) <=> m \in rlModes'[u]
    BY DEF StateInv, TypeOK, ArraysInv, Agrees, Sorted
  <1> HIDE DEF array, dates, busy
  <1>2. /\ next \in NextSet /\ next.soft <= next.hard
        /\ next.soft # Never =>
             \E i \in 1..Len(array) : array[i] \notin busy /\ dates[array[i]] = next.soft
        /\ \A i \in 1..Len(array) : array[i] \notin busy => next.soft <= dates[array[i]]
    BY <1>1, NextDeadlinesAreFirst
  <1> HIDE DEF next
  <1>3. ASSUME NEW t \in WaitingIn'[m] PROVE next.soft <= dates[t] /\ dates[t] \in Nat
    <2>1. t \in Timers /\ t \notin busy /\ m \in rlModes'[t]
      BY WaitingAre DEF busy
    <2>2. PICK i \in 1..Len(array) : array[i] = t
      BY <1>1, <2>1 DEF Holds
    <2> QED
      BY <1>1, <1>2, <2>1, <2>2, Deadlines
  <1>4. ASSUME next.soft # Never
        PROVE  m \in DeadIn' \/ \E u \in WaitingIn'[m] : dates[u] = next.soft
    <2>1. PICK i \in 1..Len(array) : array[i] \notin busy /\ dates[array[i]] = next.soft
      BY <1>2, <1>4
    <2> DEFINE u == array[i]
    <2>2. u \in Timers /\ Holds(array, u) /\ u \notin busy /\ dates[u] = next.soft
      BY <1>1, <2>1 DEF Holds
    <2> HIDE DEF u
    <2>3. m \in rlModes'[u]
      BY <1>1, <2>2
    <2>4. CASE u \in valid'
      BY <2>2, <2>3, <2>4, WaitingAre DEF busy
    <2>5. CASE u \notin valid'
      BY <2>2, <2>3, <2>5, WaitingAre DEF busy
    <2> QED
      BY <2>4, <2>5
  <1> QED
    BY <1>2, <1>3, <1>4 DEF next, array, dates, busy

LEMMA RearmedIsArmedWell ==
  ASSUME StateInv, StateInv', Sorted', ArmedInv, NEW m \in Modes, now' = now,
         armed'[m] = ArmNext(armed[m], NextDeadlines(timers'[m], fireTSR', tolerance, firing')),
         m \in HandModes => m \in HandModes',
         \A t \in WaitingIn[m] : ~(m \in PassModes /\ Holds(TopDue, t)),
         m \in PassModes \/ m \in DeadIn =>
           \A t \in WaitingIn'[m] :
             (t \in WaitingIn[m] /\ fireTSR'[t] = fireTSR[t]) \/ fireTSR'[t] > now
  PROVE  IsArmedWell(m, armed'[m], now', WaitingIn'[m], fireTSR', HandModes', PassModes', DeadIn',
                     TopDue')
  <1> DEFINE next == NextDeadlines(timers'[m], fireTSR', tolerance, firing')
             a == armed[m]
             b == ArmNext(a, next)
  <1>1. /\ a \in Armed /\ now \in Nat /\ tolerance \in [Timers -> Nat]
        /\ \A t \in WaitingIn[m] : fireTSR[t] \in Nat
    BY WaitingAre, Deadlines DEF StateInv, TypeOK, Armed
  <1>2. /\ next \in NextSet /\ next.soft <= next.hard
        /\ \A t \in WaitingIn'[m] : next.soft <= fireTSR'[t] /\ fireTSR'[t] \in Nat
        /\ next.soft # Never =>
             m \in DeadIn' \/ \E u \in WaitingIn'[m] : fireTSR'[u] = next.soft
    BY <1>1, NextIsArmed
  <1>3. armed'[m] = b
    OBVIOUS
  <1>4. IsArmedWell(m, a, now, WaitingIn[m], fireTSR, HandModes, PassModes, DeadIn, TopDue)
    BY DEF ArmedInv
  <1> HIDE DEF next, a
  <1>5. /\ b \in Armed /\ b.soft = next.soft
        /\ \/ next.soft = Never
           \/ a.soft = next.soft /\ b = a
           \/ b.mkTimer = next.soft
           \/ b.dispatchTimer = next.soft
    BY <1>1, <1>2, ArmNextArms
  <1> HIDE DEF b
  <1>6. b.soft = Never \/ IsPending(b) \/ b = a
    BY <1>5 DEF IsPending
  <1>7. IsArmedWell(m, b, now, WaitingIn'[m], fireTSR', HandModes', PassModes', DeadIn', TopDue')
    BY <1>1, <1>2, <1>4, <1>5, <1>6, ArmsWell
  <1> QED
    BY <1>3, <1>7

----------------------------------------------------------------------------
(* How the steps move the messages and the passes.                         *)

LEMMA FieldKept ==
  ASSUME NEW f, IsFrame(f), NEW v
  PROVE  /\ [f EXCEPT !.pc = v].mode = f.mode /\ [f EXCEPT !.pc = v].handled = f.handled
         /\ [f EXCEPT !.due = v].mode = f.mode /\ [f EXCEPT !.due = v].handled = f.handled
         /\ [f EXCEPT !.handled = v].mode = f.mode /\ [f EXCEPT !.handled = v].handled = v
  <1> DEFINE m == f.mode  p == f.pc  d == f.due  o == f.oldFireTSR
             h == f.handled  n == f.modes
  <1>1. f = [mode |-> m, pc |-> p, due |-> d, oldFireTSR |-> o, handled |-> h, modes |-> n]
    BY DEF IsFrame
  <1> HIDE DEF m, p, d, o, h, n
  <1>2. [f EXCEPT !.pc = v] =
         [mode |-> m, pc |-> v, due |-> d, oldFireTSR |-> o, handled |-> h, modes |-> n]
    BY <1>1
  <1>3. [f EXCEPT !.due = v] =
         [mode |-> m, pc |-> p, due |-> v, oldFireTSR |-> o, handled |-> h, modes |-> n]
    BY <1>1
  <1>5. [f EXCEPT !.handled = v] =
         [mode |-> m, pc |-> p, due |-> d, oldFireTSR |-> o, handled |-> v, modes |-> n]
    BY <1>1
  <1> QED
    BY <1>1, <1>2, <1>3, <1>5 DEF m, h

LEMMA ViewsStay ==
  ASSUME UNCHANGED <<depth, frame>>
  PROVE  /\ PassModes' = PassModes /\ TopDue' = TopDue
         /\ message \subseteq message' => HandModes \subseteq HandModes'
  BY DEF PassModes, At, Top, TopDue, HandModes

\* The innermost activation's frame becomes f.
LEMMA TopViews ==
  ASSUME FramesInv, depth > 0, NEW f, IsFrame(f), SetTop(f)
  PROVE  /\ PassModes' = IF f.pc = "timers" /\ ~f.handled THEN {f.mode} ELSE {}
         /\ TopDue' = f.due
         /\ message \subseteq message' /\ Top.pc # "woken" => HandModes \subseteq HandModes'
         /\ message \ {Top.mode} \subseteq message' /\ f.pc = "woken" /\ f.mode = Top.mode
              => HandModes \subseteq HandModes'
         /\ message \subseteq message' => HandModes \ {Top.mode} \subseteq HandModes'
  <1>1. /\ depth' = depth /\ depth \in 1..depth /\ frame'[depth] = f
        /\ \A d \in 1..depth : d # depth => frame'[d] = frame[d]
    <2>1. depth' = depth /\ frame'[depth] = f /\ OthersStay
      BY TopIsSet, Zenon
    <2>2. depth \in 1..depth
      BY TimersAssumption DEF FramesInv
    <2> QED
      BY <2>1, <2>2 DEF OthersStay
  <1>2. /\ PassModes' = IF f.pc = "timers" /\ ~f.handled THEN {f.mode} ELSE {}
        /\ TopDue' = f.due
    BY <1>1 DEF PassModes, At, Top, TopDue
  <1>3. \A n : n \in HandModes <=>
                 n \in message \/ \E d \in 1..depth : frame[d].pc = "woken" /\ n = frame[d].mode
    BY DEF HandModes
  <1>4. \A n : n \in HandModes' <=>
                 n \in message' \/ \E d \in 1..depth : frame'[d].pc = "woken" /\ n = frame'[d].mode
    BY <1>1 DEF HandModes
  <1>5. Top = frame[depth]
    BY DEF Top
  <1>6. \A d \in 1..depth : d # depth /\ frame[d].pc = "woken"
          => frame'[d].pc = "woken" /\ frame'[d].mode = frame[d].mode
    BY <1>1
  <1>7. ASSUME message \subseteq message', Top.pc # "woken" PROVE HandModes \subseteq HandModes'
    BY <1>3, <1>4, <1>5, <1>6, <1>7
  <1>8. ASSUME message \ {Top.mode} \subseteq message', f.pc = "woken", f.mode = Top.mode
        PROVE  HandModes \subseteq HandModes'
    <2>1. Top.mode \in HandModes'
      BY <1>1, <1>4, <1>8
    <2> QED
      BY <1>3, <1>4, <1>5, <1>6, <1>8, <2>1
  <1>9. ASSUME message \subseteq message' PROVE HandModes \ {Top.mode} \subseteq HandModes'
    BY <1>3, <1>4, <1>5, <1>6, <1>9
  <1> QED
    BY <1>2, <1>7, <1>8, <1>9

LEMMA RunViews ==
  ASSUME FramesInv, Return \/ \E m \in Modes : Run(m)
  PROVE  PassModes = {} /\ HandModes \subseteq HandModes'
  <1>1. PassModes = {}
    BY DEF Return, Run, PassModes, At
  <1>2. message' = message
    BY DEF Return, Run, modeVars
  <1>3. \A n : n \in HandModes <=>
                 n \in message \/ \E d \in 1..depth : frame[d].pc = "woken" /\ n = frame[d].mode
    BY DEF HandModes
  <1>4. \A n : n \in HandModes' <=>
                 n \in message' \/ \E d \in 1..depth' : frame'[d].pc = "woken" /\ n = frame'[d].mode
    BY DEF HandModes
  <1>5. \A d \in 1..depth : frame[d].pc = "woken" => d \in 1..depth' /\ frame'[d] = frame[d]
    <2>0. depth \in 0..MaxDepth /\ MaxDepth \in Nat /\ frame = [d \in 1..MaxDepth |-> frame[d]]
      BY TimersAssumption DEF FramesInv
    <2>1. CASE Return
      <3>1. depth' = depth - 1 /\ frame[depth].pc = "away" /\ depth > 0
        BY <2>1 DEF Return, At, Top
      <3> DEFINE f == NewFrame(Top.mode)
      <3>2. frame' = [frame EXCEPT ![depth] = f]
        BY <2>1 DEF Return
      <3> HIDE DEF f
      <3>3. \A d \in 1..depth : frame[d].pc = "woken" => d # depth
        BY <3>1
      <3> QED
        BY <2>0, <3>1, <3>2, <3>3
    <2>2. ASSUME NEW m \in Modes, Run(m)
          PROVE  \A d \in 1..depth : frame[d].pc = "woken" => d \in 1..depth' /\ frame'[d] = frame[d]
      <3> DEFINE f == NewFrame(m)
      <3>1. depth' = depth + 1 /\ frame' = [frame EXCEPT ![depth + 1] = f]
        BY <2>2 DEF Run
      <3> HIDE DEF f
      <3> QED
        BY <2>0, <3>1
    <2> QED
      BY <2>1, <2>2
  <1> QED
    BY <1>1, <1>2, <1>3, <1>4, <1>5

LEMMA WokenUpViews ==
  ASSUME FramesInv, WokenUp
  PROVE  PassModes = {} /\ HandModes \subseteq HandModes'
  <1> DEFINE f == [Top EXCEPT !.pc = "woken"]
  <1>1. /\ depth > 0 /\ Top.pc = "away" /\ SetTop(f) /\ message' = message \ {Top.mode}
    BY DEF WokenUp, At
  <1>2. IsFrame(Top)
    BY <1>1, TopIsFrame
  <1>3. IsFrame(f) /\ f.pc = "woken" /\ f.mode = Top.mode
    BY <1>2, FieldAssigned, FieldKept, ZenonT(40)
  <1> HIDE DEF f
  <1>4. HandModes \subseteq HandModes'
    BY <1>1, <1>3, TopViews
  <1> QED
    BY <1>1, <1>4 DEF PassModes, At

LEMMA CollectTimersViews ==
  ASSUME FramesInv, CollectTimers
  PROVE  /\ PassModes = {} /\ PassModes' = {Top.mode} /\ HandModes \ {Top.mode} \subseteq HandModes'
         /\ TopDue' = Selected(timers[Top.mode], {t \in Timers : IsDue(t)})
  <1> DEFINE due == Selected(timers[Top.mode], {t \in Timers : IsDue(t)})
             p == [Top EXCEPT !.pc = "timers"]
             h == [p EXCEPT !.handled = FALSE]
             f == [h EXCEPT !.due = due]
  <1>1. depth > 0 /\ Top.pc = "woken" /\ SetTop(f) /\ message' = message
    BY Zenon DEF CollectTimers, At, modeVars
  <1>2. IsFrame(Top)
    BY <1>1, TopIsFrame
  <1> HIDE DEF due
  <1>3. IsFrame(p) /\ p.pc = "timers" /\ p.mode = Top.mode
    BY <1>2, FieldAssigned, FieldKept, ZenonT(40)
  <1> HIDE DEF p
  <1>4. IsFrame(h) /\ h.pc = p.pc /\ h.mode = p.mode /\ h.handled = FALSE
    BY <1>3, FieldAssigned, FieldKept, ZenonT(40)
  <1> HIDE DEF h
  <1>5. IsFrame(f) /\ f.pc = h.pc /\ f.mode = h.mode /\ f.handled = h.handled /\ f.due = due
    <2>1. IsFrame(f)
      BY <1>4, FieldAssigned, Zenon
    <2>a. f.pc = h.pc
      BY <1>4, FieldAssigned, Zenon
    <2>b. f.due = due
      BY <1>4 DEF IsFrame
    <2>2. f.mode = h.mode /\ f.handled = h.handled
      BY <1>4, FieldKept, Zenon
    <2> QED
      BY <2>1, <2>a, <2>b, <2>2
  <1> HIDE DEF f
  <1>f. f.pc = "timers" /\ f.mode = Top.mode /\ f.handled = FALSE
    BY <1>3, <1>4, <1>5
  <1>6. PassModes' = {f.mode} /\ TopDue' = f.due /\ HandModes \ {Top.mode} \subseteq HandModes'
    BY <1>1, <1>5, <1>f, TopViews
  <1> QED
    BY <1>1, <1>5, <1>f, <1>6 DEF PassModes, At, due

LEMMA SkipTimerViews ==
  ASSUME FramesInv, SkipTimer
  PROVE  /\ PassModes' = PassModes /\ PassModes \subseteq {Top.mode} /\ HandModes \subseteq HandModes'
         /\ TopDue' = Tail(Top.due)
  <1> DEFINE f == Skipped(Top)
  <1>1. depth > 0 /\ Top.pc = "timers" /\ SetTop(f) /\ message' = message
    BY DEF SkipTimer, At, modeVars
  <1>2. IsFrame(Top)
    BY <1>1, TopIsFrame
  <1>3. /\ IsFrame(f) /\ f.pc = Top.pc /\ f.mode = Top.mode /\ f.handled = Top.handled
        /\ f.due = Tail(Top.due)
    <2>1. IsFrame(f) /\ f.pc = Top.pc
      BY <1>2, FieldAssigned, Zenon DEF Skipped
    <2>2. f.mode = Top.mode /\ f.handled = Top.handled
      BY <1>2, FieldKept, Zenon DEF Skipped
    <2>3. f.due = Tail(Top.due)
      BY <1>2 DEF Skipped, IsFrame
    <2> QED
      BY <2>1, <2>2, <2>3
  <1> HIDE DEF f
  <1>4. /\ PassModes' = IF f.pc = "timers" /\ ~f.handled THEN {f.mode} ELSE {}
        /\ TopDue' = f.due /\ HandModes \subseteq HandModes'
    BY <1>1, <1>3, TopViews
  <1> QED
    BY <1>1, <1>3, <1>4 DEF PassModes, At

\* The innermost activation's frame becomes one that is in no pass.
LEMMA NoPassViews ==
  ASSUME FramesInv, NEW f, IsFrame(f), f.pc # "timers", SetTop(f),
         depth > 0, Top.pc # "woken", message' = message
  PROVE  /\ PassModes' = {} /\ PassModes \subseteq {Top.mode} /\ HandModes \subseteq HandModes'
         /\ Top.pc # "timers" => PassModes = {}
  <1>1. PassModes' = {} /\ HandModes \subseteq HandModes'
    BY TopViews
  <1> QED
    BY <1>1 DEF PassModes, At

LEMMA FireTimerViews ==
  ASSUME FramesInv, FireTimer
  PROVE  PassModes' = {} /\ PassModes \subseteq {Top.mode} /\ HandModes \subseteq HandModes'
  <1> DEFINE p == [Top EXCEPT !.pc = "callout"]
             f == [p EXCEPT !.oldFireTSR = fireTSR[Head(Top.due)]]
  <1>1. depth > 0 /\ Top.pc = "timers" /\ SetTop(f) /\ message' = message
    BY Zenon DEF FireTimer, At
  <1>2. IsFrame(Top)
    BY <1>1, TopIsFrame
  <1>3. IsFrame(p) /\ p.pc = "callout"
    BY <1>2, FieldAssigned, Zenon
  <1> HIDE DEF p
  <1>4. IsFrame(f) /\ f.pc = "callout"
    BY <1>3, FieldAssigned, ZenonT(30)
  <1> HIDE DEF f
  <1> QED
    BY <1>1, <1>4, NoPassViews

LEMMA ReturningViews ==
  ASSUME FramesInv, CallbackReturns \/ RemoveExpired
  PROVE  PassModes = {} /\ HandModes \subseteq HandModes'
  <1> DEFINE Sets(pc) == [Top EXCEPT !.pc = pc]
             e == [Sets("expired") EXCEPT !.modes = rlModes[Head(Top.due)]]
             r == [Sets("relock") EXCEPT !.modes = {}]
  <1>1. /\ depth > 0 /\ Top.pc \in {"callout", "expired"} /\ message' = message
        /\ SetTop(e) \/ SetTop(r) \/ SetTop(Sets("relock"))
    BY Zenon DEF CallbackReturns, RemoveExpired, At, modeVars
  <1>2. IsFrame(Top)
    BY <1>1, TopIsFrame
  <1>3. \A pc : IsFrame(Sets(pc)) /\ Sets(pc).pc = pc
    BY <1>2, FieldAssigned, ZenonT(30)
  <1> HIDE DEF Sets
  <1>4. IsFrame(e) /\ e.pc = Sets("expired").pc /\ IsFrame(r) /\ r.pc = Sets("relock").pc
    BY <1>3, FieldAssigned, Zenon
  <1> HIDE DEF e, r
  <1> QED
    BY <1>1, <1>3, <1>4, NoPassViews

LEMMA TimersDoneViews ==
  ASSUME FramesInv, TimersDone
  PROVE  /\ PassModes' = {} /\ PassModes \subseteq {Top.mode} /\ HandModes \subseteq HandModes'
         /\ TopDue = <<>> /\ (Top.handled => PassModes = {})
  <1> DEFINE p == [Top EXCEPT !.pc = "away"]
             f == [p EXCEPT !.handled = FALSE]
  <1>1. /\ depth > 0 /\ Top.pc = "timers" /\ SetTop(f) /\ message' = message /\ Top.due = <<>>
    BY Zenon DEF TimersDone, At
  <1>2. IsFrame(Top)
    BY <1>1, TopIsFrame
  <1>3. IsFrame(p) /\ p.pc = "away"
    BY <1>2, FieldAssigned, Zenon
  <1> HIDE DEF p
  <1>4. IsFrame(f) /\ f.pc = "away"
    BY <1>3, FieldAssigned, ZenonT(30)
  <1> HIDE DEF f
  <1>5. PassModes' = {} /\ PassModes \subseteq {Top.mode} /\ HandModes \subseteq HandModes'
    BY <1>1, <1>4, NoPassViews
  <1> QED
    BY <1>1, <1>5 DEF PassModes, TopDue

LEMMA TimerDoneViews ==
  ASSUME FramesInv, TimerDone
  PROVE  PassModes = {} /\ HandModes \subseteq HandModes'
  <1> DEFINE s == Skipped(Top)
             p == [s EXCEPT !.pc = "timers"]
             f == [p EXCEPT !.handled = TRUE]
  <1>1. depth > 0 /\ Top.pc = "relock" /\ SetTop(f) /\ message' = message
    BY Zenon DEF TimerDone, At
  <1>2. IsFrame(Top)
    BY <1>1, TopIsFrame
  <1>3. IsFrame(s)
    BY <1>2, FieldAssigned DEF Skipped
  <1> HIDE DEF s
  <1>4. IsFrame(p)
    BY <1>3, FieldAssigned
  <1> HIDE DEF p
  <1>5. IsFrame(f)
    BY <1>4, FieldAssigned
  <1> HIDE DEF f
  <1>6. HandModes \subseteq HandModes'
    BY <1>1, <1>5, TopViews
  <1> QED
    BY <1>1, <1>6 DEF PassModes, At

----------------------------------------------------------------------------
(* Every mode stays armed well.                                            *)

\* The mode m is armed well after the step.
WellAfter(m) ==
  IsArmedWell(m, armed'[m], now', WaitingIn'[m], fireTSR', HandModes', PassModes', DeadIn', TopDue')

\* A mode whose arming a step leaves alone, or whose timer has gone off.
LEMMA StaysWell ==
  ASSUME StateInv, StateInv', ArmedInv, now' >= now, NEW m \in Modes,
         armed'[m].soft = armed[m].soft,
         IsPending(armed[m]) =>
           IsPending(armed'[m]) \/ (m \in HandModes' /\ armed[m].soft <= now'),
         WaitingIn'[m] \subseteq WaitingIn[m],
         \A t \in WaitingIn'[m] : fireTSR'[t] = fireTSR[t],
         m \in HandModes => m \in HandModes', m \in DeadIn => m \in DeadIn',
         m \in PassModes => /\ m \in PassModes'
                            /\ \A t \in WaitingIn'[m] :
                                 Holds(TopDue, t) /\ fireTSR[t] <= armed[m].soft /\ armed[m].soft <= now
                                   => Holds(TopDue', t)
  PROVE  WellAfter(m)
  <1> DEFINE a == armed[m]
             b == armed'[m]
  <1>1. a \in Armed /\ b \in Armed /\ now \in Nat /\ now' \in Nat /\ now <= now'
    BY TimersAssumption, Deadlines DEF StateInv, TypeOK, Armed
  <1>2. IsArmedWell(m, a, now, WaitingIn[m], fireTSR, HandModes, PassModes, DeadIn, TopDue)
    BY DEF ArmedInv
  <1>3. /\ b.soft = a.soft
        /\ IsPending(a) => IsPending(b) \/ (m \in HandModes' /\ a.soft <= now')
        /\ m \in PassModes => /\ m \in PassModes'
                              /\ \A t \in WaitingIn'[m] :
                                   Holds(TopDue, t) /\ fireTSR[t] <= a.soft /\ a.soft <= now
                                     => Holds(TopDue', t)
    OBVIOUS
  <1> HIDE DEF a, b
  <1>4. IsArmedWell(m, b, now', WaitingIn'[m], fireTSR', HandModes', PassModes', DeadIn', TopDue')
    BY <1>1, <1>2, <1>3, StaysArmedWell
  <1> QED
    BY <1>4 DEF WellAfter, b

\* Where timers at most stop to wait, and a mode that is dead stays so.
LEMMA WaitingStays ==
  ASSUME NEW m \in Modes, StateInv, valid' \subseteq valid, firing \subseteq firing',
         \A u \in Timers : m \in rlModes'[u] <=> m \in rlModes[u],
         \A u \in Timers : u \in firing' => u \in firing \/ u \in valid'
  PROVE  WaitingIn'[m] \subseteq WaitingIn[m] /\ (m \in DeadIn => m \in DeadIn')
  <1>1. WaitingIn'[m] \subseteq WaitingIn[m]
    BY WaitingAre
  <1>2. ASSUME NEW u \in Timers, m \in rlModes[u], u \notin valid \cup firing PROVE m \in DeadIn'
    BY <1>2, WaitingAre
  <1> QED
    BY <1>1, <1>2, WaitingAre

LEMMA QuietStaysWell ==
  ASSUME StateInv, StateInv', ArmedInv, Quiet, valid' \subseteq valid, NEW m \in Modes,
         m \in HandModes => m \in HandModes',
         m \in PassModes => /\ m \in PassModes'
                            /\ \A t \in WaitingIn'[m] :
                                 Holds(TopDue, t) /\ fireTSR[t] <= armed[m].soft /\ armed[m].soft <= now
                                   => Holds(TopDue', t)
  PROVE  WellAfter(m)
  <1>1. /\ armed' = armed /\ now' >= now /\ rlModes' = rlModes /\ firing' = firing
        /\ \A t \in Timers : rlModes[t] # {} => fireTSR'[t] = fireTSR[t]
    BY DEF Quiet
  <1>2. WaitingIn'[m] \subseteq WaitingIn[m] /\ (m \in DeadIn => m \in DeadIn')
    BY <1>1, WaitingStays
  <1>3. \A t \in WaitingIn'[m] : fireTSR'[t] = fireTSR[t]
    BY <1>1, WaitingAre
  <1> QED
    BY <1>1, <1>2, <1>3, StaysWell

\* Time, runs and returns, the message's arrival, the end of a callback, and
\* what callers begin.
LEMMA QuietIsWell ==
  ASSUME StateInv, StateInv', FramesInv, ArmedInv, valid' \subseteq valid,
         \/ Tick \/ Return \/ WokenUp \/ CallbackReturns
         \/ \E m \in Modes : Run(m)
         \/ \E c \in Callers, t \in Timers :
              \/ \E m \in Modes : AddTimer(c, t, m)
              \/ \E date \in 0..MaxTime : SetNextFireDate(c, t, date)
              \/ \E value \in Tolerances : SetTolerance(c, t, value)
              \/ Invalidate(c, t)
         \/ UNCHANGED vars
  PROVE  ArmedInv'
  <1>1. Quiet
    BY QuietSteps, Zenon DEF StateInv
  <1>2. CASE Return \/ WokenUp \/ CallbackReturns \/ \E m \in Modes : Run(m)
    <2>1. PassModes = {} /\ HandModes \subseteq HandModes'
      BY <1>2, RunViews, WokenUpViews, ReturningViews, Zenon
    <2>2. \A m \in Modes : WellAfter(m)
      BY <1>1, <2>1, QuietStaysWell
    <2> QED
      BY <2>2 DEF ArmedInv, WellAfter
  <1>3. CASE \/ Tick \/ UNCHANGED vars
             \/ \E c \in Callers, t \in Timers :
                  \/ \E m \in Modes : AddTimer(c, t, m)
                  \/ \E date \in 0..MaxTime : SetNextFireDate(c, t, date)
                  \/ \E value \in Tolerances : SetTolerance(c, t, value)
                  \/ Invalidate(c, t)
    <2>1. UNCHANGED <<depth, frame, message>>
      BY <1>3 DEF Tick, vars, modeVars, loop, AddTimer, SetNextFireDate, SetTolerance, Invalidate
    <2>2. PassModes' = PassModes /\ TopDue' = TopDue /\ HandModes \subseteq HandModes'
      BY <2>1, ViewsStay
    <2>3. \A m \in Modes : WellAfter(m)
      BY <1>1, <2>2, QuietStaysWell
    <2> QED
      BY <2>3 DEF ArmedInv, WellAfter
  <1> QED
    BY <1>2, <1>3

\* A timer that is passed over is not waiting for its date any more.
LEMMA SkipTimerIsWell ==
  ASSUME StateInv, StateInv', FramesInv, ArmedInv, SkipTimer
  PROVE  ArmedInv'
  <1>1. Quiet /\ valid' = valid /\ firing' = firing
    BY QuietSteps DEF StateInv, SkipTimer, timerVars
  <1>2. /\ PassModes' = PassModes /\ PassModes \subseteq {Top.mode} /\ HandModes \subseteq HandModes'
        /\ TopDue' = Tail(Top.due)
    BY SkipTimerViews
  <1> DEFINE due == Top.due
  <1>3. /\ depth > 0 /\ due # <<>> /\ ~(IsDue(Head(due)) /\ rlModes[Head(due)] # {})
    BY DEF SkipTimer, At
  <1>4. due \in Seq(Timers)
    BY <1>3, TopTyped, FrameTyped DEF StateInv
  <1> HIDE DEF due
  <1>5. ASSUME NEW m \in Modes, NEW t \in WaitingIn'[m], Holds(due, t),
               fireTSR[t] <= armed[m].soft, armed[m].soft <= now
        PROVE  Holds(Tail(due), t)
    <2>1. t \in Timers /\ t \in valid \ firing /\ rlModes[t] # {}
      BY <1>1, WaitingAre, <1>5 DEF Quiet
    <2>2. fireTSR[t] <= now
      <3>1. fireTSR[t] \in Nat /\ now \in Nat /\ armed[m] \in Armed
        BY <2>1, Deadlines, TimersAssumption DEF StateInv, TypeOK, Armed
      <3>2. armed[m].soft \in Nat
        BY <3>1, Deadlines DEF Armed
      <3> QED
        BY <1>5, <3>1, <3>2
    <2>3. t # Head(due)
      BY <1>3, <2>1, <2>2 DEF IsDue
    <2>4. PICK i \in 1..Len(due) : due[i] = t
      BY <1>5 DEF Holds
    <2>5. i # 1 /\ i - 1 \in 1..Len(Tail(due)) /\ Tail(due)[i - 1] = t
      BY <1>3, <1>4, <2>3, <2>4
    <2> QED
      BY <2>5 DEF Holds
  <1>6. \A m \in Modes : WellAfter(m)
    BY <1>1, <1>2, <1>5, QuietStaysWell DEF TopDue, due
  <1> QED
    BY <1>6 DEF ArmedInv, WellAfter

\* The timers that are overdue in a mode are all collected.
LEMMA CollectTimersIsWell ==
  ASSUME StateInv, StateInv', FramesInv, ArmedInv, CollectTimers
  PROVE  ArmedInv'
  <1>1. /\ Quiet /\ depth > 0
        /\ UNCHANGED <<now, valid, firing, fireTSR, rlModes, armed, timers>>
    BY QuietSteps DEF StateInv, CollectTimers, timerVars, modeVars, At
  <1>2. /\ PassModes = {} /\ PassModes' = {Top.mode} /\ HandModes \ {Top.mode} \subseteq HandModes'
        /\ TopDue' = Selected(timers[Top.mode], {t \in Timers : IsDue(t)})
    BY CollectTimersViews
  <1> DEFINE top == Top.mode
             due == Selected(timers[top], {t \in Timers : IsDue(t)})
             a == armed[top]
  <1>3. top \in Modes
    BY <1>1, TopTyped, FrameTyped DEF StateInv
  <1>4. ASSUME NEW t \in Timers, IsDue(t), top \in rlModes[t] PROVE Holds(due, t)
    <2>1. timers[top] \in Seq(Timers) /\ Holds(timers[top], t)
      BY <1>3, <1>4 DEF StateInv, TypeOK, ArraysInv, Agrees
    <2> QED
      BY <1>4, <2>1, SelectedTimers
  <1>5. /\ now \in Nat /\ a \in Armed /\ fireTSR \in [Timers -> TSR]
        /\ WaitingIn'[top] = WaitingIn[top]
    <2>1. WaitingIn' = WaitingIn
      BY <1>1 DEF WaitingIn
    <2> QED
      BY <1>3, <2>1, TimersAssumption, Deadlines, SMTT(30) DEF StateInv, TypeOK, Armed
  <1>6. IsArmedWell(top, a, now, WaitingIn[top], fireTSR, HandModes, PassModes, DeadIn, TopDue)
    BY <1>3 DEF ArmedInv
  <1>7. TopDue' = due
    BY <1>2
  <1> HIDE DEF due, a, top
  <1>8. a.soft \in Nat
    BY <1>5, Deadlines DEF Armed
  <1>9. IsArmedWell(top, a, now, WaitingIn[top], fireTSR, HandModes', PassModes', DeadIn', due)
    <2>1. top \in PassModes'
      BY <1>2 DEF top
    <2>2. ASSUME ~(a.soft = Never \/ IsPending(a)), NEW t \in WaitingIn[top], fireTSR[t] <= a.soft
          PROVE  Holds(due, t)
      <3>1. a.soft <= now
        BY <1>6, <2>2 DEF IsArmedWell
      <3>2. t \in Timers /\ t \in valid \ firing /\ top \in rlModes[t]
        BY <1>3, <2>2, WaitingAre
      <3>3. fireTSR[t] \in Nat
        BY <1>5, <3>2, Deadlines
      <3>4. fireTSR[t] <= now
        BY <1>5, <1>8, <2>2, <3>1, <3>3
      <3> QED
        BY <1>4, <3>2, <3>4 DEF IsDue
    <2> QED
      BY <1>6, <2>1, <2>2 DEF IsArmedWell
  <1>a. WellAfter(top)
    BY <1>1, <1>5, <1>7, <1>9 DEF WellAfter, a
  <1>b. ASSUME NEW m \in Modes, m # top PROVE WellAfter(m)
    BY <1>1, <1>2, <1>b, QuietStaysWell DEF top
  <1> QED
    BY <1>a, <1>b DEF ArmedInv, WellAfter

\* The kernel's timer goes off, no earlier than what it is armed for.
LEMMA ExpiresIsWell ==
  ASSUME StateInv, StateInv', ArmedInv, Early = 0, NEW n \in Modes, Expires(n)
  PROVE  ArmedInv'
  <1>1. /\ UNCHANGED <<now, valid, firing, fireTSR, rlModes, depth, frame>>
        /\ message' = message \cup {n}
        /\ \A m \in Modes : m # n => armed'[m] = armed[m]
    BY ExpiresDoes DEF StateInv
  <1>2. PassModes' = PassModes /\ TopDue' = TopDue /\ HandModes \subseteq HandModes'
    BY <1>1, ViewsStay
  <1>3. n \in HandModes' /\ now \in Nat
    BY <1>1, TimersAssumption, Deadlines DEF HandModes, StateInv, TypeOK
  <1>4. ASSUME NEW m \in Modes
        PROVE  /\ armed'[m].soft = armed[m].soft
               /\ IsPending(armed[m]) =>
                    IsPending(armed'[m]) \/ (m \in HandModes' /\ armed[m].soft <= now')
    <2> DEFINE a == armed[m]
               b == armed'[m]
    <2>1. CASE m # n
      BY <1>1, <2>1
    <2>2. CASE m = n
      <3>1. /\ b.soft = a.soft
            /\ \/ a.mkTimer <= now + Early /\ b.dispatchTimer = a.dispatchTimer
               \/ a.dispatchTimer <= now /\ b.mkTimer = a.mkTimer
        BY <2>2, ExpiresDoes DEF StateInv
      <3>2. \/ a.mkTimer <= now /\ b.dispatchTimer = a.dispatchTimer
            \/ a.dispatchTimer <= now /\ b.mkTimer = a.mkTimer
        <4>1. now + Early = now
          BY <1>3
        <4> QED
          BY <3>1, <4>1
      <3> HIDE DEF a, b
      <3>3. b.soft = a.soft /\ (IsPending(a) => IsPending(b) \/ a.soft <= now)
        BY <3>1, <3>2 DEF IsPending
      <3> QED
        BY <1>1, <1>3, <2>2, <3>3 DEF a, b
    <2> QED
      BY <2>1, <2>2
  <1>5. ASSUME NEW m \in Modes PROVE WellAfter(m)
    <2>1. WaitingIn'[m] \subseteq WaitingIn[m] /\ (m \in DeadIn => m \in DeadIn')
      BY <1>1, WaitingStays
    <2> QED
      BY <1>1, <1>2, <1>3, <1>4, <2>1, StaysWell
  <1> QED
    BY <1>5 DEF ArmedInv, WellAfter

\* The mode is armed for the next of its timers before the callback.
LEMMA FireTimerIsWell ==
  ASSUME StateInv, StateInv', Sorted', FramesInv, ArmedInv, FireTimer
  PROVE  ArmedInv'
  <1> DEFINE top == Top.mode
             next == NextDeadlines(timers[top], fireTSR, tolerance, firing')
             a == armed'[top]
  <1>1. /\ UNCHANGED <<now, valid, rlModes, fireTSR, timers>>
        /\ top \in Modes /\ Head(Top.due) \in valid
        /\ firing' = firing \cup {Head(Top.due)}
        /\ \A m \in Modes : m # top => armed'[m] = armed[m]
        /\ a.soft = next.soft
        /\ a.soft = Never \/ a.mkTimer = a.soft \/ a.dispatchTimer = a.soft
    BY FireTimerDoes
  <1>2. PassModes' = {} /\ PassModes \subseteq {top} /\ HandModes \subseteq HandModes'
    BY FireTimerViews
  <1>3. now \in Nat /\ tolerance \in [Timers -> Nat]
    BY TimersAssumption, Deadlines DEF StateInv, TypeOK
  <1>4. \A t \in WaitingIn'[top] : next.soft <= fireTSR'[t]
    BY <1>1, <1>3, NextIsArmed
  <1>5. WellAfter(top)
    <2> HIDE DEF next, a, top
    <2>1. IsArmedWell(top, a, now', WaitingIn'[top], fireTSR', HandModes', PassModes', DeadIn', TopDue')
      BY <1>1, <1>4 DEF IsArmedWell, IsPending
    <2> QED
      BY <2>1 DEF WellAfter, a
  <1>6. ASSUME NEW m \in Modes, m # top PROVE WellAfter(m)
    <2>1. WaitingIn'[m] \subseteq WaitingIn[m] /\ (m \in DeadIn => m \in DeadIn')
      BY <1>1, WaitingStays
    <2>2. armed'[m] = armed[m] /\ m \notin PassModes /\ now' >= now
      BY <1>1, <1>2, <1>3, <1>6
    <2> HIDE DEF top, next, a
    <2> QED
      BY <1>1, <1>2, <2>1, <2>2, StaysWell
  <1> QED
    BY <1>5, <1>6 DEF ArmedInv, WellAfter

\* CFRunLoopRemoveTimer and the ends of CFRunLoopTimerInvalidate: the modes
\* that lose the timer are armed for the next of the others.
LEMMA RemoveFromIsWell ==
  ASSUME StateInv, StateInv', Sorted', ArmedInv, NEW S \in SUBSET Modes, NEW t \in Timers,
         RemoveFrom(S, t), UNCHANGED <<now, valid, firing, fireTSR>>,
         PassModes = {}, HandModes \subseteq HandModes'
  PROVE  ArmedInv'
  <1>1. /\ Rearmed({m \in S : m \in rlModes[t]}, fireTSR, firing)
        /\ \A u \in Timers : rlModes'[u] = IF u = t THEN rlModes[t] \ S ELSE rlModes[u]
    BY RemoveFromTakes DEF StateInv
  <1>2. now' >= now
    BY TimersAssumption, Deadlines DEF StateInv, TypeOK
  <1>3. ASSUME NEW m \in Modes PROVE WellAfter(m)
    <2>1. WaitingIn'[m] \subseteq WaitingIn[m]
      BY <1>1, WaitingAre
    <2>2. CASE m \in S /\ m \in rlModes[t]
      <3>1. armed'[m] = ArmNext(armed[m], NextDeadlines(timers'[m], fireTSR', tolerance, firing'))
        BY <1>1, <2>2 DEF Rearmed
      <3>2. IsArmedWell(m, armed'[m], now', WaitingIn'[m], fireTSR', HandModes', PassModes', DeadIn',
                        TopDue')
        BY <2>1, <3>1, RearmedIsArmedWell
      <3> QED
        BY <3>2 DEF WellAfter
    <2>3. CASE ~(m \in S /\ m \in rlModes[t])
      <3>1. armed'[m] = armed[m]
        BY <1>1, <2>3 DEF Rearmed
      <3>2. \A u \in Timers : m \in rlModes'[u] <=> m \in rlModes[u]
        BY <1>1, <2>3
      <3>3. m \in DeadIn => m \in DeadIn'
        BY <3>2, WaitingStays
      <3> QED
        BY <1>2, <2>1, <3>1, <3>3, StaysWell
    <2> QED
      BY <2>2, <2>3
  <1> QED
    BY <1>3 DEF ArmedInv, WellAfter

LEMMA RemovingIsWell ==
  ASSUME StateInv, StateInv', Sorted', FramesInv, ArmedInv,
         \/ RemoveExpired
         \/ \E c \in Callers :
              \/ RemoveInvalid(c) \/ \E t \in Timers, m \in Modes : RemoveTimer(c, t, m)
  PROVE  ArmedInv'
  <1>1. Removing
    BY RemovingSteps, Zenon
  <1>2. PICK S \in SUBSET Modes, t \in Timers : RemoveFrom(S, t)
    BY <1>1 DEF Removing
  <1>3. UNCHANGED <<now, valid, firing, fireTSR>>
    BY <1>1 DEF Removing, RestStays
  <1>4. PassModes = {} /\ HandModes \subseteq HandModes'
    <2>1. CASE RemoveExpired
      BY <2>1, ReturningViews
    <2>2. CASE \E c \in Callers :
                 \/ RemoveInvalid(c) \/ \E u \in Timers, m \in Modes : RemoveTimer(c, u, m)
      <3>1. UNCHANGED <<depth, frame, message>> /\ ~LockHeld
        BY <2>2, Zenon DEF RemoveInvalid, RemoveTimer, loop
      <3> QED
        BY <3>1, ViewsStay DEF PassModes, LockHeld
    <2> QED
      BY <2>1, <2>2
  <1> QED
    BY <1>2, <1>3, <1>4, RemoveFromIsWell

\* The mode is armed again when no timer was called back.
LEMMA TimersDoneIsWell ==
  ASSUME StateInv, StateInv', Sorted', FramesInv, ArmedInv, TimersDone
  PROVE  ArmedInv'
  <1>1. /\ UNCHANGED <<now, valid, rlModes, firing, fireTSR, timers>>
        /\ \/ Top.handled /\ armed' = armed
           \/ ~Top.handled /\ Rearmed({Top.mode}, fireTSR, firing)
    BY TimersDoneDoes DEF RestStays
  <1>2. /\ PassModes \subseteq {Top.mode} /\ HandModes \subseteq HandModes'
        /\ TopDue = <<>> /\ (Top.handled => PassModes = {})
    BY TimersDoneViews
  <1>3. WaitingIn' = WaitingIn /\ DeadIn' = DeadIn /\ now' >= now
    BY <1>1, TimersAssumption, Deadlines DEF WaitingIn, DeadIn, StateInv, TypeOK
  <1>4. ASSUME NEW m \in Modes, armed'[m] = armed[m], m \notin PassModes PROVE WellAfter(m)
    BY <1>1, <1>2, <1>3, <1>4, StaysWell
  <1>5. ASSUME NEW m \in Modes,
               armed'[m] = ArmNext(armed[m], NextDeadlines(timers'[m], fireTSR', tolerance, firing'))
        PROVE  WellAfter(m)
    <2>1. \A t : ~Holds(TopDue, t)
      BY <1>2 DEF Holds
    <2>2. IsArmedWell(m, armed'[m], now', WaitingIn'[m], fireTSR', HandModes', PassModes', DeadIn',
                      TopDue')
      BY <1>1, <1>2, <1>3, <1>5, <2>1, RearmedIsArmedWell
    <2> QED
      BY <2>2 DEF WellAfter
  <1>6. CASE Top.handled /\ armed' = armed
    BY <1>2, <1>4, <1>6 DEF ArmedInv, WellAfter
  <1>7. CASE ~Top.handled /\ Rearmed({Top.mode}, fireTSR, firing)
    <2>1. ASSUME NEW m \in Modes PROVE WellAfter(m)
      <3>1. CASE m = Top.mode
        <4>1. armed'[m] = ArmNext(armed[m], NextDeadlines(timers'[m], fireTSR', tolerance, firing'))
          BY <1>1, <1>7, <3>1 DEF Rearmed
        <4> QED
          BY <4>1, <1>5
      <3>2. CASE m # Top.mode
        <4>1. armed'[m] = armed[m] /\ m \notin PassModes
          BY <1>2, <1>7, <3>2 DEF Rearmed
        <4> QED
          BY <4>1, <1>4
      <3> QED
        BY <3>1, <3>2
    <2> QED
      BY <2>1 DEF ArmedInv, WellAfter
  <1> QED
    BY <1>1, <1>6, <1>7

\* Where timers are added or dates set, no mode has a dead timer.
LEMMA NoneIsDead ==
  ASSUME EndInv, AddsOrSets
  PROVE  DeadIn = {}
  BY DEF EndInv, DeadIn

\* __CFRunLoopDoTimer's end: if the date has been set meanwhile there is but
\* one mode to arm; otherwise the next date is still to come, and is armed for
\* in all the modes of the timer.
LEMMA TimerDoneIsWell ==
  ASSUME ArmsInTime, StateInv, StateInv', Sorted', FiringInv, ExpiredInv, EndInv, ArmedInv,
         "setDate" \notin Calls => DatesInv, TimerDone
  PROVE  ArmedInv'
  <1> DEFINE t == Head(frame[depth].due)
  <1>1. /\ UNCHANGED <<now, valid, rlModes>> /\ t \in Timers /\ firing' = firing \ {t}
        /\ depth > 0 /\ Top.pc = "relock" /\ Top.mode \in Modes
        /\ fireTSR' \in [Timers -> TSR] /\ \A u \in Timers : u # t => fireTSR'[u] = fireTSR[u]
        /\ \/ t \notin valid /\ UNCHANGED <<fireTSR, timers, armed>>
           \/ /\ t \in valid /\ Top.oldFireTSR < fireTSR[t] /\ fireTSR' = fireTSR
              /\ Rearmed({Top.mode}, fireTSR', firing')
           \/ t \in valid /\ fireTSR'[t] > now /\ Rearmed(rlModes[t], fireTSR', firing')
    BY TimerDoneDoes DEF RestStays
  <1>2. PassModes = {} /\ HandModes \subseteq HandModes'
    BY TimerDoneViews DEF FiringInv
  <1>3. now' >= now /\ fireTSR \in [Timers -> Nat] /\ depth \in 1..depth /\ Top = frame[depth]
    BY <1>1, TimersAssumption, TopTyped, Deadlines DEF StateInv, TypeOK
  <1>b. t \in firing
    <2>1. Busy(frame[depth])
      BY <1>1, <1>3 DEF Busy
    <2> QED
      BY <1>3, <2>1 DEF FiringInv
  <1> HIDE DEF t
  <1>4. CASE t \notin valid /\ UNCHANGED <<fireTSR, timers, armed>>
    <2>1. ASSUME NEW m \in Modes PROVE WellAfter(m)
      <3>1. WaitingIn'[m] \subseteq WaitingIn[m] /\ (m \in DeadIn => m \in DeadIn')
        BY <1>1, <1>4, WaitingAre
      <3> QED
        BY <1>2, <1>3, <1>4, <3>1, StaysWell
    <2> QED
      BY <2>1 DEF ArmedInv, WellAfter
  <1>5. CASE /\ t \in valid /\ Top.oldFireTSR < fireTSR[t] /\ fireTSR' = fireTSR
             /\ Rearmed({Top.mode}, fireTSR', firing')
    <2>1. "setDate" \in Calls
      <3> SUFFICES ASSUME "setDate" \notin Calls PROVE FALSE
        OBVIOUS
      <3>1. Top.oldFireTSR = fireTSR[t]
        BY <1>1, <1>3 DEF DatesInv, Busy, t
      <3>2. fireTSR[t] \in Nat
        BY <1>1, <1>3
      <3> QED
        BY <1>5, <3>1, <3>2
    <2>2. DeadIn = {} /\ \A m, n \in Modes : m = n
      BY <2>1, NoneIsDead DEF ArmsInTime, AddsOrSets
    <2>3. ASSUME NEW m \in Modes PROVE WellAfter(m)
      <3>1. m = Top.mode
        BY <1>1, <2>2
      <3>2. armed'[m] = ArmNext(armed[m], NextDeadlines(timers'[m], fireTSR', tolerance, firing'))
        BY <1>5, <3>1 DEF Rearmed
      <3>3. IsArmedWell(m, armed'[m], now', WaitingIn'[m], fireTSR', HandModes', PassModes', DeadIn',
                        TopDue')
        BY <1>1, <1>2, <2>2, <3>2, RearmedIsArmedWell
      <3> QED
        BY <3>3 DEF WellAfter
    <2> QED
      BY <2>3 DEF ArmedInv, WellAfter
  <1>6. CASE t \in valid /\ fireTSR'[t] > now /\ Rearmed(rlModes[t], fireTSR', firing')
    <2>1. ASSUME NEW m \in Modes, m \in rlModes[t] PROVE WellAfter(m)
      <3>1. armed'[m] = ArmNext(armed[m], NextDeadlines(timers'[m], fireTSR', tolerance, firing'))
        BY <1>6, <2>1 DEF Rearmed
      <3>2. \A u \in WaitingIn'[m] :
              (u \in WaitingIn[m] /\ fireTSR'[u] = fireTSR[u]) \/ fireTSR'[u] > now
        BY <1>1, <1>6, WaitingAre
      <3>3. IsArmedWell(m, armed'[m], now', WaitingIn'[m], fireTSR', HandModes', PassModes', DeadIn',
                        TopDue')
        BY <1>1, <1>2, <3>1, <3>2, RearmedIsArmedWell
      <3> QED
        BY <3>3 DEF WellAfter
    <2>2. ASSUME NEW m \in Modes, m \notin rlModes[t] PROVE WellAfter(m)
      <3>1. armed'[m] = armed[m]
        BY <1>6, <2>2 DEF Rearmed
      <3>2. /\ WaitingIn'[m] \subseteq WaitingIn[m] /\ (m \in DeadIn => m \in DeadIn')
            /\ \A u \in WaitingIn'[m] : fireTSR'[u] = fireTSR[u]
        BY <1>1, <2>2, WaitingAre
      <3> QED
        BY <1>2, <1>3, <3>1, <3>2, StaysWell
    <2> QED
      BY <2>1, <2>2 DEF ArmedInv, WellAfter
  <1> QED
    BY <1>1, <1>4, <1>5, <1>6

\* CFRunLoopAddTimer arms the mode for the timer.
LEMMA AddTimerIsWell ==
  ASSUME StateInv, StateInv', Sorted', CallsInv, EndInv, ArmedInv,
         NEW c \in Callers, AddTimerToMode(c)
  PROVE  ArmedInv'
  <1>1. /\ UNCHANGED <<now, valid, message, firing, fireTSR>> /\ ~LockHeld
        /\ doing[c].call = "add"
        /\ \/ UNCHANGED <<rlModes, timers, armed>>
           \/ \E m \in Modes :
                /\ Rearmed({m}, fireTSR, firing)
                /\ \A u \in Timers : rlModes[u] \subseteq rlModes'[u]
                /\ \A u \in Timers, n \in Modes : n # m /\ n \in rlModes'[u] => n \in rlModes[u]
    BY AddTimerDoes DEF RestStays
  <1>2. PassModes = {} /\ HandModes \subseteq HandModes'
    <2>1. UNCHANGED <<depth, frame>>
      BY DEF AddTimerToMode, loop
    <2> QED
      BY <1>1, <2>1, ViewsStay DEF PassModes, LockHeld
  <1>3. now' >= now
    BY <1>1, TimersAssumption, Deadlines DEF StateInv, TypeOK
  <1>4. DeadIn = {}
    <2>1. "add" \in Calls
      BY <1>1 DEF CallsInv, Idle
    <2> QED
      BY <2>1, NoneIsDead DEF AddsOrSets
  <1>5. ASSUME NEW m \in Modes, armed'[m] = armed[m], WaitingIn'[m] \subseteq WaitingIn[m]
        PROVE  WellAfter(m)
    BY <1>1, <1>2, <1>3, <1>4, <1>5, StaysWell
  <1>6. CASE UNCHANGED <<rlModes, timers, armed>>
    <2>1. WaitingIn' = WaitingIn
      BY <1>1, <1>6 DEF WaitingIn
    <2> QED
      BY <1>5, <1>6, <2>1 DEF ArmedInv, WellAfter
  <1>7. ASSUME NEW n \in Modes, Rearmed({n}, fireTSR, firing),
               \A u \in Timers, m \in Modes : m # n /\ m \in rlModes'[u] => m \in rlModes[u]
        PROVE  ArmedInv'
    <2>1. ASSUME NEW m \in Modes PROVE WellAfter(m)
      <3>1. CASE m = n
        <4>1. armed'[m] = ArmNext(armed[m], NextDeadlines(timers'[m], fireTSR', tolerance, firing'))
          BY <1>1, <1>7, <3>1 DEF Rearmed
        <4>2. IsArmedWell(m, armed'[m], now', WaitingIn'[m], fireTSR', HandModes', PassModes',
                          DeadIn', TopDue')
          BY <1>1, <1>2, <1>4, <4>1, RearmedIsArmedWell
        <4> QED
          BY <4>2 DEF WellAfter
      <3>2. CASE m # n
        <4>1. armed'[m] = armed[m] /\ WaitingIn'[m] \subseteq WaitingIn[m]
          BY <1>1, <1>7, <3>2, WaitingAre DEF Rearmed
        <4> QED
          BY <4>1, <1>5
      <3> QED
        BY <3>1, <3>2
    <2> QED
      BY <2>1 DEF ArmedInv, WellAfter
  <1> QED
    BY <1>1, <1>6, <1>7

\* CFRunLoopTimerSetNextFireDate arms all the modes of the timer.
LEMMA SetDateIsWell ==
  ASSUME ArmsInTime, StateInv, StateInv', Sorted', CallsInv, EndInv, ArmedInv,
         NEW c \in Callers, SetDateInModes(c)
  PROVE  ArmedInv'
  <1> DEFINE t == doing[c].timer
             S == {m \in doing[c].modes : m \in rlModes[t]}
  <1>1. /\ UNCHANGED <<now, valid, message, firing, rlModes>> /\ ~LockHeld
        /\ doing[c].call = "setDate" /\ t \in Timers
        /\ \A u \in Timers : u # t => fireTSR'[u] = fireTSR[u]
        /\ Rearmed(S, fireTSR', firing)
    BY SetDateDoes DEF RestStays
  <1>2. PassModes = {} /\ HandModes \subseteq HandModes'
    <2>1. UNCHANGED <<depth, frame>>
      BY DEF SetDateInModes, loop
    <2> QED
      BY <1>1, <2>1, ViewsStay DEF PassModes, LockHeld
  <1>3. now' >= now
    BY <1>1, TimersAssumption, Deadlines DEF StateInv, TypeOK
  <1>4. "setDate" \in Calls /\ rlModes[t] \subseteq doing[c].modes
    <2>1. "setDate" \in Calls
      BY <1>1 DEF CallsInv, Idle
    <2>2. "add" \notin Calls
      BY <2>1 DEF ArmsInTime
    <2> QED
      BY <1>1, <2>1, <2>2 DEF CallsInv, Idle
  <1>5. DeadIn = {}
    BY <1>4, NoneIsDead DEF AddsOrSets
  <1>6. \A m : m \in S <=> m \in rlModes[t]
    BY <1>4
  <1> HIDE DEF S, t
  <1>7. ASSUME NEW m \in Modes PROVE WellAfter(m)
    <2>1. CASE m \in S
      <3>1. armed'[m] = ArmNext(armed[m], NextDeadlines(timers'[m], fireTSR', tolerance, firing'))
        BY <1>1, <2>1 DEF Rearmed
      <3>2. IsArmedWell(m, armed'[m], now', WaitingIn'[m], fireTSR', HandModes', PassModes', DeadIn',
                        TopDue')
        BY <1>1, <1>2, <1>5, <3>1, RearmedIsArmedWell
      <3> QED
        BY <3>2 DEF WellAfter
    <2>2. CASE m \notin S
      <3>1. armed'[m] = armed[m]
        BY <1>1, <2>2 DEF Rearmed
      <3>2. /\ WaitingIn'[m] \subseteq WaitingIn[m]
            /\ \A u \in WaitingIn'[m] : fireTSR'[u] = fireTSR[u]
        BY <1>1, <1>6, <2>2, WaitingAre
      <3> QED
        BY <1>2, <1>3, <1>5, <3>1, <3>2, StaysWell
    <2> QED
      BY <2>1, <2>2
  <1> QED
    BY <1>7 DEF ArmedInv, WellAfter

\* The dates are those of DatesInv where nobody sets them.
UnlessSet == "setDate" \notin Calls => DatesInv

LEMMA NextArmed ==
  ASSUME ArmsInTime
  PROVE  StateInv /\ FiringInv /\ ExpiredInv /\ CallsInv /\ EndInv /\ UnlessSet /\ ArmedInv
           /\ StateInv' /\ Sorted' /\ [Next]_vars => ArmedInv'
  <1> SUFFICES ASSUME StateInv, StateInv', Sorted', FiringInv, ExpiredInv, CallsInv, EndInv,
                      UnlessSet, ArmedInv, [Next]_vars
               PROVE  ArmedInv'
    OBVIOUS
  <1>1. FramesInv /\ valid' \subseteq valid /\ Early = 0
    BY FramesStayTyped DEF FiringInv, StateInv, ArmsInTime
  <1>2. CASE Tick \/ Return \/ UNCHANGED vars
    BY <1>1, <1>2, QuietIsWell
  <1>3. CASE Step
    <2>1. CASE WokenUp \/ CallbackReturns
      BY <1>1, <2>1, QuietIsWell
    <2>2. CASE CollectTimers
      BY <1>1, <2>2, CollectTimersIsWell
    <2>3. CASE SkipTimer
      BY <1>1, <2>3, SkipTimerIsWell
    <2>4. CASE FireTimer
      BY <1>1, <2>4, FireTimerIsWell
    <2>5. CASE RemoveExpired
      BY <1>1, <2>5, RemovingIsWell
    <2>6. CASE TimerDone
      BY <2>6, TimerDoneIsWell DEF UnlessSet
    <2>7. CASE TimersDone
      BY <1>1, <2>7, TimersDoneIsWell
    <2> QED
      BY <1>3, <2>1, <2>2, <2>3, <2>4, <2>5, <2>6, <2>7 DEF Step
  <1>4. ASSUME NEW m \in Modes, Expires(m) \/ Run(m) PROVE ArmedInv'
    <2>1. CASE Expires(m)
      BY <1>1, <2>1, ExpiresIsWell
    <2>2. CASE Run(m)
      BY <1>1, <2>2, QuietIsWell
    <2> QED
      BY <1>4, <2>1, <2>2
  <1>5. ASSUME NEW c \in Callers, Begin(c) PROVE ArmedInv'
    <2>1. CASE \E t \in Timers, m \in Modes : RemoveTimer(c, t, m)
      BY <1>1, <2>1, RemovingIsWell
    <2>2. CASE \E t \in Timers :
                 \/ \E m \in Modes : AddTimer(c, t, m)
                 \/ \E date \in 0..MaxTime : SetNextFireDate(c, t, date)
                 \/ \E value \in Tolerances : SetTolerance(c, t, value)
                 \/ Invalidate(c, t)
      BY <1>1, <2>2, QuietIsWell
    <2> QED
      BY <1>5, <2>1, <2>2, Zenon DEF Begin
  <1>6. ASSUME NEW c \in Callers, Finish(c) PROVE ArmedInv'
    <2>1. CASE AddTimerToMode(c)
      BY <2>1, AddTimerIsWell
    <2>2. CASE SetDateInModes(c)
      BY <2>2, SetDateIsWell
    <2>3. CASE RemoveInvalid(c)
      BY <1>1, <2>3, RemovingIsWell
    <2> QED
      BY <1>6, <2>1, <2>2, <2>3 DEF Finish
  <1> QED
    BY <1>2, <1>3, <1>4, <1>5, <1>6 DEF Next

LEMMA InitArmedInv == Init => ArmedInv
  <1> SUFFICES ASSUME Init PROVE ArmedInv
    OBVIOUS
  <1>1. StateInv /\ Sorted /\ firing = {} /\ valid = Timers
    BY InitState DEF Init
  <1>2. ASSUME NEW m \in Modes
        PROVE  IsArmedWell(m, armed[m], now, WaitingIn[m], fireTSR, HandModes, PassModes, DeadIn,
                           TopDue)
    <2> DEFINE array == timers[m]
               next == NextDeadlines(array, fireTSR, tolerance, {})
               a == armed[m]
    <2>1. a.soft = next.soft /\ (a.soft = Never \/ a.mkTimer = a.soft \/ a.dispatchTimer = a.soft)
      BY InitArmed
    <2>2. /\ array \in Seq(Timers) /\ InOrder(array, fireTSR)
          /\ fireTSR \in [Timers -> TSR] /\ tolerance \in [Timers -> Nat]
          /\ \A u \in Timers : Holds(array, u) <=> m \in rlModes[u]
      BY <1>1 DEF StateInv, TypeOK, Sorted, ArraysInv, Agrees
    <2>3. \A i \in 1..Len(array) : next.soft <= fireTSR[array[i]]
      BY <2>2, NextDeadlinesAreFirst
    <2>4. \A t \in WaitingIn[m] : Holds(array, t)
      BY <2>2, WaitingAre
    <2> HIDE DEF next, array, a
    <2>5. \A t \in WaitingIn[m] : a.soft <= fireTSR[t]
      BY <2>1, <2>3, <2>4 DEF Holds
    <2>6. IsArmedWell(m, a, now, WaitingIn[m], fireTSR, HandModes, PassModes, DeadIn, TopDue)
      BY <2>1, <2>5 DEF IsArmedWell, IsPending
    <2> QED
      BY <2>6 DEF a
  <1> QED
    BY <1>2 DEF ArmedInv

LEMMA ArmedInvMeans ==
  ASSUME StateInv, ArmedInv
  PROVE  NextTimerIsArmed
  <1> SUFFICES ASSUME ~LockHeld, NEW m \in Modes, NEW t \in Timers, Waiting(m, t), HoldsOnlyValid(m)
               PROVE  IsServed(m, t)
    BY DEF NextTimerIsArmed
  <1> DEFINE a == armed[m]
  <1>1. IsArmedWell(m, a, now, WaitingIn[m], fireTSR, HandModes, PassModes, DeadIn, TopDue)
    BY DEF ArmedInv
  <1>2. PassModes = {}
    BY DEF PassModes, LockHeld
  <1>3. m \notin DeadIn
    <2> SUFFICES ASSUME NEW u \in Timers, m \in rlModes[u], u \notin valid PROVE FALSE
      BY WaitingAre
    <2>1. timers[m] \in Seq(Timers) /\ Holds(timers[m], u)
      BY DEF StateInv, TypeOK, ArraysInv, Agrees
    <2>2. DOMAIN timers[m] = 1..Len(timers[m])
      BY <2>1
    <2> QED
      BY <2>1, <2>2 DEF Holds, HoldsOnlyValid
  <1>4. t \in WaitingIn[m]
    BY WaitingAre DEF Waiting
  <1>5. a \in Armed /\ fireTSR[t] \in TSR
    BY DEF StateInv, TypeOK, Armed
  <1> HIDE DEF a
  <1>6. a.soft <= fireTSR[t] /\ a.soft \in Nat
    BY <1>1, <1>4, <1>5, Deadlines DEF IsArmedWell, Armed
  <1>7. a.soft # Never
    BY <1>5, <1>6, Deadlines
  <1>8. IsPending(a) \/ m \in HandModes
    BY <1>1, <1>2, <1>3, <1>7 DEF IsArmedWell
  <1>9. CASE IsPending(a)
    BY <1>6, <1>9 DEF IsPending, IsServed, a
  <1>a. CASE m \in HandModes
    BY <1>a DEF HandModes, IsServed, InHand
  <1> QED
    BY <1>8, <1>9, <1>a

\* Whenever the run loop is unlocked, each mode has its timer armed in time for
\* every timer that waits in it, or the message of that timer still comes: the
\* calls of other threads and the pass over the timers that are due leave none
\* behind (__CFArmNextTimerInMode, its callers, and "Re-arm the next timer" of
\* __CFRunLoopRun).  What is called is limited to what can be said of the
\* code: the other combinations do leave timers unarmed.
THEOREM TimersAreArmed ==
  ASSUME ArmsInTime
  PROVE  Spec => []NextTimerIsArmed
  <1>1. Init => ExpiredInv /\ UnlessSet
    BY InitDates DEF Init, ExpiredInv, UnlessSet
  <1>2. FiringInv /\ ExpiredInv /\ [Next]_vars => ExpiredInv'
    BY NextExpired
  <1>3. FiringInv /\ ExpiredInv /\ UnlessSet /\ [Next]_vars => UnlessSet'
    BY NextDates DEF UnlessSet
  <1>4. NoneSetsWhileAdding
    BY DEF ArmsInTime, NoneSetsWhileAdding
  <1>5. StateInv /\ FiringInv /\ ExpiredInv /\ CallsInv /\ Sorted /\ [Next]_vars => Sorted'
    BY <1>4, NextSorted
  <1>6. StateInv /\ FiringInv /\ ExpiredInv /\ CallsInv /\ EndInv /\ [Next]_vars => EndInv'
    BY NextEnd
  <1>7. StateInv /\ FiringInv /\ ExpiredInv /\ CallsInv /\ EndInv /\ UnlessSet /\ ArmedInv
          /\ StateInv' /\ Sorted' /\ [Next]_vars => ArmedInv'
    BY NextArmed
  <1>8. StateInv /\ ArmedInv => NextTimerIsArmed
    BY ArmedInvMeans
  <1> QED
    BY <1>1, <1>2, <1>3, <1>5, <1>6, <1>7, <1>8, InitFiring, NextFiring, InitState, NextState,
       InitCalls, NextCalls, InitEnd, InitArmedInv, PTL DEF Spec
=============================================================================
