--------------------------- MODULE MCTimerArray ----------------------------
(***************************************************************************)
(* The operators of TimerArray against what they are for, on every array   *)
(* that adding and moving a few timers makes.                              *)
(***************************************************************************)
EXTENDS TimerArray

CONSTANTS Timers, Times, Tolerances

VARIABLES array, fireTSR, tolerance
vars == <<array, fireTSR, tolerance>>

Init ==
  /\ array = <<>> /\ fireTSR = [t \in Timers |-> 0]
  /\ tolerance \in [Timers -> Tolerances]

Add(t, tsr) ==
  /\ ~Contains(array, t)
  /\ fireTSR' = [fireTSR EXCEPT ![t] = tsr]
  /\ array' = Inserted(array, t, fireTSR')
  /\ UNCHANGED tolerance

Move(t, tsr) ==
  /\ Contains(array, t)
  /\ fireTSR' = [fireTSR EXCEPT ![t] = tsr]
  /\ array' = Repositioned(array, t, fireTSR')
  /\ UNCHANGED tolerance

Next == \E t \in Timers, tsr \in Times : Add(t, tsr) \/ Move(t, tsr)
Spec == Init /\ [][Next]_vars

Least(S) == IF S = {} THEN Never ELSE CHOOSE x \in S : \A y \in S : x <= y

\* __CFRunLoopInsertionIndexInTimerArray puts a timer after all that fire no
\* later and before all others, for every length and through every shortcut.
InsertionIndexIsAfterEarlier ==
  \A tsr \in Times :
    InsertionIndex(array, fireTSR, tsr)
      = Cardinality({i \in DOMAIN array : fireTSR[array[i]] <= tsr})

\* __CFArmNextTimerInMode may stop where it does: the deadlines it finds are
\* the least of all timers, whichever of them are firing.
DeadlinesAreLeast ==
  \A firing \in SUBSET Timers :
    LET waiting == ToSet(array) \ firing
    IN NextDeadlines(array, fireTSR, tolerance, firing)
         = [soft |-> Least({fireTSR[t] : t \in waiting}),
            hard |-> Least({HardDeadline(t, fireTSR, tolerance) : t \in waiting})]
============================================================================
