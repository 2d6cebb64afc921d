--------------------------- MODULE RunLoopTimers ---------------------------
(***************************************************************************)
(* The timers of a CFRunLoop (CFRunLoop.c): the array of timers of each    *)
(* mode, the one kernel or libdispatch timer each mode arms for the next   *)
(* of them, the pass of __CFRunLoopDoTimers over those that are due, and   *)
(* the calls of other threads, which race with it and with each other      *)
(* wherever they let a lock go.                                            *)
(*                                                                         *)
(* A callback's own calls are those of a caller that makes them while the  *)
(* callback runs.  What else an activation does is in RunLoop.             *)
(***************************************************************************)
EXTENDS TimerArray

CONSTANTS
  Modes,      \* the modes of the loop
  Timers,     \* the timers, created before the start
  FireDate,   \* the date each timer was created with
  Interval,   \* _interval of each timer, 0 if it does not repeat
  Added,      \* the modes each timer has been added to
  Callers,    \* the threads that call the timer functions
  Calls,      \* what they call
  Tolerances, \* the tolerances they set
  Early,      \* how early the kernel's timer may go off
  MaxTime,    \* bound on the time
  MaxDepth    \* bound on the nesting of activations

Functions == {"add", "remove", "setDate", "setTolerance", "invalidate"}

ASSUME TimersAssumption ==
  /\ FireDate \in [Timers -> TSR] /\ Interval \in [Timers -> TSR]
  /\ Added \in [Timers -> SUBSET Modes]
  /\ Calls \subseteq Functions /\ Tolerances \subseteq Nat
  /\ Early \in Nat /\ MaxTime \in TSR /\ MaxDepth \in Nat \ {0}
  /\ IsFiniteSet(Timers) /\ Modes # {}
  \* Nobody tests whether a date comes to lie behind the last one because the
  \* clock has come near that, after some centuries.
  /\ 2 * MaxTime <= LongMax

VARIABLES
  now,        \* mach_absolute_time()
  valid,      \* the timers that are valid
  firing,     \* the timers whose callback is running
  fireTSR,    \* _fireTSR of each timer
  tolerance,  \* _tolerance of each timer
  rlModes,    \* _rlModes of each timer; _runLoop is NULL when it is empty
  timers,     \* _timers of each mode, by fire date
  armed,      \* what each mode has armed its timer for
  message,    \* the modes whose timer has sent its message
  depth,      \* the number of activations on the loop's stack
  frame,      \* the locals of each of them
  doing,      \* the call each caller is in, once it has let a lock go
  fired       \* history: the timers whose callback has been called

timerVars == <<valid, firing, fireTSR, tolerance, rlModes>>
modeVars == <<timers, armed, message>>
loop == <<depth, frame>>
vars == <<now, timerVars, modeVars, loop, doing, fired>>

----------------------------------------------------------------------------
\* The locals of DoTimers, DoTimer and, when the timer does not repeat, of
\* CFRunLoopTimerInvalidate.  An activation is away when it is asleep or in
\* another part of its iteration.
Frame ==
  [mode : Modes,
   pc : {"away", "woken", "timers", "callout", "expired", "relock"},
   due : Seq(Timers), oldFireTSR : TSR, handled : BOOLEAN, modes : SUBSET Modes]

NewFrame(m) ==
  [mode |-> m, pc |-> "away", due |-> <<>>, oldFireTSR |-> 0, handled |-> FALSE, modes |-> {}]

Top == frame[depth]
At(pc) == depth > 0 /\ Top.pc = pc
SetTop(f) == frame' = [frame EXCEPT ![depth] = f] /\ UNCHANGED depth
\* The loop's thread holds the locks of the run loop and the mode.
LockHeld == At("timers")

Idle == [call |-> "none"]
Call ==
  {Idle} \cup [call : {"add"}, timer : Timers, mode : Modes]
    \cup [call : {"setDate"}, timer : Timers, tsr : TSR, modes : SUBSET Modes]
    \cup [call : {"invalidate"}, timer : Timers, modes : SUBSET Modes]

\* The array and the deadlines of the modes in S after each has been handed to
\* __CFArmNextTimerInMode with the array arrays[m].
ArmModes(S, arrays, tsr, busy) ==
  /\ timers' = [m \in Modes |-> IF m \in S THEN arrays[m] ELSE timers[m]]
  /\ armed' = [m \in Modes |->
       IF m \in S THEN ArmNext(armed[m], NextDeadlines(arrays[m], tsr, tolerance, busy))
       ELSE armed[m]]

\* __CFRepositionTimerInMode for each mode in S that still has the timer.
Reposition(S, t, tsr, busy) ==
  LET has == {m \in S : Contains(timers[m], t)}
  IN ArmModes(has, [m \in has |-> Repositioned(timers[m], t, tsr)], tsr, busy)

\* CFRunLoopRemoveTimer for each mode in S that still has the timer.
RemoveFrom(S, t) ==
  LET has == {m \in S : Contains(timers[m], t)}
  IN /\ ArmModes(has, [m \in has |-> Without(timers[m], t)], fireTSR, firing)
     /\ rlModes' = [rlModes EXCEPT ![t] = @ \ has]

\* The arrays CFRunLoopAddTimer may have made of the timers of a mode, in the
\* order of their dates and, where these are equal, in that of the calls.
InitialArrays(m) ==
  LET S == {t \in Timers : m \in Added[t]}
  IN {s \in [1..Cardinality(S) -> S] :
       /\ ToSet(s) = S /\ IsInjective(s)
       /\ \A i, j \in 1..Cardinality(S) : i < j => FireDate[s[i]] <= FireDate[s[j]]}

NothingArmed == [soft |-> Never, hard |-> Never, mkTimer |-> Never, dispatchTimer |-> Never]

Init ==
  /\ now = 0 /\ valid = Timers /\ firing = {} /\ fired = {}
  /\ fireTSR = FireDate /\ tolerance = [t \in Timers |-> 0] /\ rlModes = Added
  /\ timers \in [Modes -> UNION {InitialArrays(m) : m \in Modes}]
  /\ \A m \in Modes : timers[m] \in InitialArrays(m)
  /\ armed = [m \in Modes |->
       ArmNext(NothingArmed, NextDeadlines(timers[m], fireTSR, tolerance, {}))]
  /\ message = {}
  /\ depth = 0 /\ frame = [d \in 1..MaxDepth |-> NewFrame(CHOOSE m \in Modes : TRUE)]
  /\ doing = [c \in Callers |-> Idle]

----------------------------------------------------------------------------
(* Time, the timers of the modes, and the activations. *)

Tick ==
  /\ now < MaxTime /\ now' = now + 1
  /\ UNCHANGED <<timerVars, modeVars, loop, doing, fired>>

\* The kernel's timer goes off, once: its message is queued on _timerPort.
MkTimerExpires(m) ==
  /\ armed[m].mkTimer # Never /\ armed[m].mkTimer <= now + Early
  /\ armed' = [armed EXCEPT ![m].mkTimer = Never]
  /\ message' = message \cup {m}
  /\ UNCHANGED <<now, timerVars, timers, loop, doing, fired>>

\* libdispatch's timer goes off, once, within its leeway.
DispatchTimerExpires(m) ==
  /\ armed[m].dispatchTimer # Never /\ armed[m].dispatchTimer <= now
  /\ armed' = [armed EXCEPT ![m].dispatchTimer = Never]
  /\ message' = message \cup {m}
  /\ UNCHANGED <<now, timerVars, timers, loop, doing, fired>>

\* CFRunLoopRunInMode, from outside or from a callout.
Run(m) ==
  /\ depth < MaxDepth /\ (depth > 0 => Top.pc \in {"away", "callout"})
  /\ depth' = depth + 1 /\ frame' = [frame EXCEPT ![depth + 1] = NewFrame(m)]
  /\ UNCHANGED <<now, timerVars, modeVars, doing, fired>>

Return ==
  /\ At("away")
  /\ depth' = depth - 1 /\ frame' = [frame EXCEPT ![depth] = NewFrame(Top.mode)]
  /\ UNCHANGED <<now, timerVars, modeVars, doing, fired>>

\* __CFRunLoopServiceMachPort takes the message off the port of the mode.
WokenUp ==
  /\ At("away") /\ Top.mode \in message
  /\ message' = message \ {Top.mode}
  /\ SetTop([Top EXCEPT !.pc = "woken"])
  /\ UNCHANGED <<now, timerVars, timers, armed, doing, fired>>

IsDue_WhileFiring(t) == t \in valid /\ fireTSR[t] <= now   \* mutants
IsDue_Invalid(t) == t \notin firing /\ fireTSR[t] <= now
IsDue(t) == t \in valid \ firing /\ fireTSR[t] <= now

\* __CFRunLoopDoTimers: the timers that are due.
CollectTimers ==
  /\ At("woken")
  /\ SetTop([Top EXCEPT !.pc = "timers", !.handled = FALSE,
                        !.due = Selected(timers[Top.mode], {t \in Timers : IsDue(t)})])
  /\ UNCHANGED <<now, timerVars, modeVars, doing, fired>>

Skipped(f) == [f EXCEPT !.due = Tail(@)]

\* __CFRunLoopDoTimer looks at the timer again, which another thread, or the
\* callback of another timer, may have changed meanwhile.
SkipTimer ==
  /\ At("timers") /\ Top.due # <<>>
  /\ ~(IsDue(Head(Top.due)) /\ rlModes[Head(Top.due)] # {})
  /\ SetTop(Skipped(Top))
  /\ UNCHANGED <<now, timerVars, modeVars, doing, fired>>

Forgotten(deadlines) == [deadlines EXCEPT !.soft = Never, !.hard = Never]

\* __CFRunLoopDoTimer up to the callback: the mode forgets what it has armed,
\* "just in case the next timer has exactly the same deadlines", and arms for
\* the next of the others.
FireTimer ==
  LET t == Head(Top.due)
      m == Top.mode
  IN /\ At("timers") /\ Top.due # <<>>
     /\ IsDue(t) /\ rlModes[t] # {}
     /\ firing' = firing \cup {t} /\ fired' = fired \cup {t}
     /\ armed' = [armed EXCEPT ![m] =
          ArmNext(Forgotten(@),
                  NextDeadlines(timers[m], fireTSR, tolerance, firing'))]
     /\ SetTop([Top EXCEPT !.pc = "callout", !.oldFireTSR = fireTSR[t]])
     /\ UNCHANGED <<now, valid, fireTSR, tolerance, rlModes, timers, message, doing>>

\* The callback returns, and a timer that does not repeat is invalidated
\* (CFRunLoopTimerInvalidate, up to its letting the timer's lock go).
CallbackReturns ==
  LET t == Head(Top.due)
  IN /\ At("callout")
     /\ IF Interval[t] = 0 /\ t \in valid
        THEN /\ valid' = valid \ {t}
             /\ SetTop([Top EXCEPT !.pc = "expired", !.modes = rlModes[t]])
        ELSE UNCHANGED valid /\ SetTop([Top EXCEPT !.pc = "relock"])
     /\ UNCHANGED <<now, firing, fireTSR, tolerance, rlModes, modeVars, doing, fired>>

\* The rest of CFRunLoopTimerInvalidate, under the lock of the run loop.
RemoveExpired ==
  /\ At("expired")
  /\ RemoveFrom(Top.modes, Head(Top.due))
  /\ SetTop([Top EXCEPT !.pc = "relock", !.modes = {}])
  /\ UNCHANGED <<now, valid, firing, fireTSR, tolerance, message, doing, fired>>

NextFireTSR_FromNow(oldFireTSR, interval) ==   \* mutants
  IF LongMax - interval <= oldFireTSR THEN LongMax ELSE now + interval
\* The first of the dates oldFireTSR + k * interval that is still to come.
NextFireTSR(oldFireTSR, interval) ==
  IF LongMax - interval <= oldFireTSR THEN LongMax
  ELSE LET missed == CHOOSE k \in 0..(now + 1) :
             /\ oldFireTSR + k * interval > now
             /\ k > 0 => oldFireTSR + (k - 1) * interval <= now
       IN oldFireTSR + missed * interval

RearmedModes_None(m) == {}   \* mutant
RearmedModes(m) == {m}

\* The rest of __CFRunLoopDoTimer.  A date that was set during the callback is
\* kept if it is later; the timer is then armed for in this mode.  Otherwise
\* the next date is, in all its modes.
TimerDone ==
  LET t == Head(Top.due)
      m == Top.mode
      next == NextFireTSR(Top.oldFireTSR, Interval[t])
  IN /\ At("relock")
     /\ firing' = firing \ {t}
     /\ CASE t \notin valid -> UNCHANGED <<fireTSR, timers, armed>>
          [] t \in valid /\ Top.oldFireTSR < fireTSR[t] ->
               ArmModes(RearmedModes(m), timers, fireTSR, firing') /\ UNCHANGED fireTSR
          [] t \in valid /\ Top.oldFireTSR >= fireTSR[t] ->
               /\ fireTSR' = [fireTSR EXCEPT ![t] = next]
               /\ Reposition(rlModes[t], t, fireTSR', firing')
     /\ SetTop([Skipped(Top) EXCEPT !.pc = "timers", !.handled = TRUE])
     /\ UNCHANGED <<now, valid, tolerance, rlModes, message, doing, fired>>

\* "Re-arm the next timer, because we apparently fired early" (__CFRunLoopRun)
TimersDone ==
  /\ At("timers") /\ Top.due = <<>>
  /\ IF Top.handled THEN UNCHANGED <<timers, armed>>
     ELSE ArmModes({Top.mode}, timers, fireTSR, firing)
  /\ SetTop([Top EXCEPT !.pc = "away", !.handled = FALSE])
  /\ UNCHANGED <<now, timerVars, message, doing, fired>>

----------------------------------------------------------------------------
(* The calls of other threads. *)

Begins(c, call) == doing[c] = Idle /\ call \in Calls

\* CFRunLoopAddTimer, in two parts: it looks whether the timer is valid, and
\* then takes the lock.
AddTimer(c, t, m) ==
  /\ Begins(c, "add") /\ t \in valid
  /\ doing' = [doing EXCEPT ![c] = [call |-> "add", timer |-> t, mode |-> m]]
  /\ UNCHANGED <<now, timerVars, modeVars, loop, fired>>

HasMode_Unchecked(t, m) == FALSE   \* mutant
HasMode(t, m) == m \in rlModes[t]

AddTimerToMode(c) ==
  LET t == doing[c].timer
      m == doing[c].mode
  IN /\ doing[c].call = "add" /\ ~LockHeld
     /\ IF HasMode(t, m) THEN UNCHANGED <<rlModes, timers, armed>>
        ELSE /\ rlModes' = [rlModes EXCEPT ![t] = @ \cup {m}]
             /\ ArmModes({m}, [n \in {m} |-> Inserted(timers[n], t, fireTSR)],
                         fireTSR, firing)
     /\ doing' = [doing EXCEPT ![c] = Idle]
     /\ UNCHANGED <<now, valid, firing, fireTSR, tolerance, message, loop, fired>>

\* CFRunLoopRemoveTimer
RemoveTimer(c, t, m) ==
  /\ Begins(c, "remove") /\ ~LockHeld
  /\ RemoveFrom({m}, t)
  /\ UNCHANGED <<now, valid, firing, fireTSR, tolerance, message, loop, doing, fired>>

\* CFRunLoopTimerSetNextFireDate, in two parts when the timer is in a mode: it
\* reads the modes under the timer's lock, and lets that go before it takes
\* the run loop's.
SetNextFireDate(c, t, date) ==
  LET tsr == IF date < now THEN now ELSE date
  IN /\ Begins(c, "setDate") /\ t \in valid
     /\ IF rlModes[t] # {}
        THEN /\ doing' = [doing EXCEPT ![c] =
                  [call |-> "setDate", timer |-> t, tsr |-> tsr, modes |-> rlModes[t]]]
             /\ UNCHANGED fireTSR
        ELSE fireTSR' = [fireTSR EXCEPT ![t] = tsr] /\ UNCHANGED doing
     /\ UNCHANGED <<now, valid, firing, tolerance, rlModes, modeVars, loop, fired>>

SetDateInModes(c) ==
  LET t == doing[c].timer
  IN /\ doing[c].call = "setDate" /\ ~LockHeld
     /\ fireTSR' = [fireTSR EXCEPT ![t] = doing[c].tsr]
     /\ Reposition(doing[c].modes, t, fireTSR', firing)
     /\ doing' = [doing EXCEPT ![c] = Idle]
     /\ UNCHANGED <<now, valid, firing, tolerance, rlModes, message, loop, fired>>

\* CFRunLoopTimerSetTolerance takes no lock and arms nothing.
SetTolerance(c, t, value) ==
  /\ Begins(c, "setTolerance")
  /\ tolerance' = [tolerance EXCEPT ![t] =
       IF Interval[t] > 0 THEN Sooner(value, Interval[t] \div 2) ELSE value]
  /\ UNCHANGED <<now, valid, firing, fireTSR, rlModes, modeVars, loop, doing, fired>>

\* CFRunLoopTimerInvalidate, in two parts as in SetNextFireDate.
Invalidate(c, t) ==
  /\ Begins(c, "invalidate") /\ t \in valid
  /\ valid' = valid \ {t}
  /\ doing' = IF rlModes[t] = {} THEN doing
              ELSE [doing EXCEPT ![c] =
                     [call |-> "invalidate", timer |-> t, modes |-> rlModes[t]]]
  /\ UNCHANGED <<now, firing, fireTSR, tolerance, rlModes, modeVars, loop, fired>>

RemoveInvalid(c) ==
  /\ doing[c].call = "invalidate" /\ ~LockHeld
  /\ RemoveFrom(doing[c].modes, doing[c].timer)
  /\ doing' = [doing EXCEPT ![c] = Idle]
  /\ UNCHANGED <<now, valid, firing, fireTSR, tolerance, message, loop, fired>>

----------------------------------------------------------------------------
\* One step of the innermost activation.
Step ==
  \/ WokenUp \/ CollectTimers \/ SkipTimer \/ FireTimer \/ CallbackReturns
  \/ RemoveExpired \/ TimerDone \/ TimersDone

Finish(c) == AddTimerToMode(c) \/ SetDateInModes(c) \/ RemoveInvalid(c)

Begin(c) ==
  \E t \in Timers :
    \/ \E m \in Modes : AddTimer(c, t, m) \/ RemoveTimer(c, t, m)
    \/ \E date \in 0..MaxTime : SetNextFireDate(c, t, date)
    \/ \E value \in Tolerances : SetTolerance(c, t, value)
    \/ Invalidate(c, t)

Expires(m) == MkTimerExpires(m) \/ DispatchTimerExpires(m)

Next ==
  \/ Tick \/ Step \/ Return
  \/ \E m \in Modes : Expires(m) \/ Run(m)
  \/ \E c \in Callers : Begin(c) \/ Finish(c)

Spec == Init /\ [][Next]_vars

\* When these are enabled.
CanStep == depth > 0 /\ (Top.pc = "away" => Top.mode \in message)
CanFinish(c) == doing[c] # Idle /\ ~LockHeld
CanExpire(m) == armed[m].mkTimer <= now + Early \/ armed[m].dispatchTimer <= now

\* Callbacks return, calls that have begun get done, and a timer that has been
\* armed goes off: the weak fairness of each, written out with the condition
\* that enables it, which is quicker to evaluate than ENABLED.
FairSpec ==
  /\ Spec
  /\ []<>~CanStep \/ []<><<Step>>_vars
  /\ \A m \in Modes : []<>~CanExpire(m) \/ []<><<Expires(m)>>_vars
  /\ \A c \in Callers : []<>~CanFinish(c) \/ []<><<Finish(c)>>_vars

----------------------------------------------------------------------------
(* Properties. *)

\* Every variable has its type.
Armed == [soft : Deadline, hard : Deadline, mkTimer : Deadline, dispatchTimer : Deadline]
TypeOK ==
  /\ now \in 0..MaxTime /\ valid \subseteq Timers /\ firing \subseteq Timers
  /\ fireTSR \in [Timers -> TSR] /\ tolerance \in [Timers -> Nat]
  /\ rlModes \in [Timers -> SUBSET Modes]
  /\ timers \in [Modes -> Seq(Timers)] /\ armed \in [Modes -> Armed]
  /\ message \subseteq Modes
  /\ depth \in 0..MaxDepth /\ frame \in [1..MaxDepth -> Frame]
  /\ doing \in [Callers -> Call] /\ fired \subseteq Timers

\* A timer is in the array of a mode, once, exactly when the mode is in the
\* timer's own set of modes.
ArraysAgreeWithModes ==
  \A m \in Modes :
    /\ ToSet(timers[m]) = {t \in Timers : m \in rlModes[t]}
    /\ IsInjective(timers[m])

\* "our sorted list of timers" (__CFArmNextTimerInMode): the array of a mode
\* is in the order of the fire dates.
ArraysAreSorted ==
  \A m \in Modes : \A i, j \in DOMAIN timers[m] :
    i < j => fireTSR[timers[m][i]] <= fireTSR[timers[m][j]]

\* What __CFRepositionTimerInMode and the next date keep: the array of every
\* mode is in the order of the dates, and no date or deadline has run over
\* (CFRunLoop.c:2106-2121, 2311-2338).
DatesAndArraysAgree == TypeOK /\ ArraysAreSorted

\* A timer's callback does not run while it runs already, in whatever mode
\* and however the activations nest.
CallbackNotReentered ==
  \A d, e \in 1..depth :
    (/\ frame[d].pc \in {"callout", "expired", "relock"}
     /\ frame[e].pc \in {"callout", "expired", "relock"}
     /\ Head(frame[d].due) = Head(frame[e].due)) => d = e

\* A timer that does not repeat calls back once, whatever modes it is in, and
\* however often it is added or its date is set.
OneShotFiresOnce ==
  [][\A t \in fired : Interval[t] = 0 => t \notin firing' \ firing]_vars

\* "the next fire date is calculated from the original fire date ..., to avoid
\* drift" (CFRunLoop.h): a timer whose date nobody sets stays on the dates it
\* was created with, however late its callbacks were.
NoDrift ==
  \A t \in Timers :
    (Interval[t] > 0 /\ fireTSR[t] # LongMax)
      => \E k \in 0..(MaxTime + 1) : fireTSR[t] = FireDate[t] + k * Interval[t]

\* A timer the mode waits for.
Waiting(m, t) == t \in valid \ firing /\ m \in rlModes[t]

\* The message of the mode's timer is queued, or an activation has it in hand.
InHand(m) == m \in message \/ \E d \in 1..depth : frame[d].mode = m /\ frame[d].pc = "woken"

\* The mode m has a timer armed that goes off in time for t.
IsServed(m, t) ==
  \/ InHand(m)
  \/ armed[m].mkTimer <= fireTSR[t] \/ armed[m].dispatchTimer <= fireTSR[t]

HoldsOnlyValid(m) == \A i \in DOMAIN timers[m] : timers[m][i] \in valid

\* Whenever the run loop is unlocked, each mode has its timer armed in time for
\* every timer that waits in it, or the message of that timer still comes --
\* an invalid timer that is about to be removed may put the others off.
NextTimerIsArmed ==
  ~LockHeld => \A m \in Modes, t \in Timers :
    Waiting(m, t) /\ HoldsOnlyValid(m) => IsServed(m, t)

\* A timer that is due in the mode the loop runs in is called back, unless it
\* is removed, invalidated or postponed, or the run ends or starts another.
DueTimersFire ==
  \A m \in Modes, t \in Timers :
    (depth = 1 /\ Top.mode = m /\ Waiting(m, t) /\ fireTSR[t] <= now)
      ~> (depth # 1 \/ ~Waiting(m, t) \/ fireTSR[t] > now)
============================================================================
