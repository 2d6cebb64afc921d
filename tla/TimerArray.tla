---------------------------- MODULE TimerArray -----------------------------
(***************************************************************************)
(* The pure part of a mode's timers in CFRunLoop.c: where a timer goes in  *)
(* the mode's array, and the deadlines __CFArmNextTimerInMode finds there. *)
(* Times are TSRs; Never is UINT64_MAX.                                    *)
(***************************************************************************)
EXTENDS Naturals, Sequences, SequencesExt

CONSTANTS
  LongMax,    \* LLONG_MAX, the last TSR a timer may have
  ManyTimers  \* 256: above it, the ends of the array are tried first

ASSUME TSRAssumption == LongMax \in Nat /\ ManyTimers \in Nat

Never == 2 * LongMax + 1
TSR == 0..LongMax
Deadline == 0..Never

Sooner(a, b) == IF a < b THEN a ELSE b

(* Where a timer goes in the array. *)

PowerOf2[k \in Nat] == IF k = 0 THEN 1 ELSE 2 * PowerOf2[k - 1]

\* The place of the highest bit of cnt that is set, from 1.
Flsl(cnt) == CHOOSE k \in 0..cnt : PowerOf2[k] > cnt /\ (k > 0 => PowerOf2[k - 1] <= cnt)

\* The timer at an index, from 0, of the array is there and fires no later.
IsLEQ(array, fireTSR, tsr, i) == i < Len(array) /\ fireTSR[array[i + 1]] <= tsr

\* One test of the search, which goes on by add if it can.
Tested(array, fireTSR, tsr, idx, add) ==
  IF IsLEQ(array, fireTSR, tsr, idx + add) THEN idx + add ELSE idx

\* The index the search has got to after each of its tests, which add falling
\* powers of two.
IndexAfter(array, fireTSR, tsr) ==
  LET index[n \in 0..(Flsl(Len(array)) + 1)] ==
        IF n = 0 THEN 0
        ELSE Tested(array, fireTSR, tsr, index[n - 1], PowerOf2[(Flsl(Len(array)) + 1) - n])
  IN index

\* __CFRunLoopInsertionIndexInTimerArray: the number of timers of the array
\* that the new one goes after.  The search tries the last index it has got to
\* once more in the end (add = 0).
InsertionIndex(array, fireTSR, tsr) ==
  LET cnt == Len(array)
      index == IndexAfter(array, fireTSR, tsr)[Flsl(cnt) + 1]
  IN CASE cnt = 0 -> 0
       [] cnt > ManyTimers /\ IsLEQ(array, fireTSR, tsr, cnt - 1) -> cnt
       [] cnt > ManyTimers /\ ~IsLEQ(array, fireTSR, tsr, cnt - 1)
            /\ ~IsLEQ(array, fireTSR, tsr, 0) -> 0
       [] OTHER -> IF IsLEQ(array, fireTSR, tsr, index) THEN index + 1 ELSE index

\* CFArrayGetFirstIndexOfValue and CFArrayRemoveValueAtIndex, of a timer that
\* is in the array.
Without(array, t) ==
  RemoveAt(array, CHOOSE i \in 1..Len(array) :
                    array[i] = t /\ \A j \in 1..(i - 1) : array[j] # t)

\* The array after __CFRepositionTimerInMode, for a timer that is just being
\* added and for one that is in it already.
Inserted(array, t, fireTSR) ==
  InsertAt(array, InsertionIndex(array, fireTSR, fireTSR[t]) + 1, t)
Repositioned_InPlace(array, t, fireTSR) == array   \* mutant
Repositioned(array, t, fireTSR) == Inserted(Without(array, t), t, fireTSR)

\* The timers of the array that are in S, in its order.
Selected(array, S) ==
  LET selected[i \in 0..Len(array)] ==
        IF i = 0 THEN <<>>
        ELSE IF array[i] \in S THEN Append(selected[i - 1], array[i]) ELSE selected[i - 1]
  IN selected[Len(array)]

----------------------------------------------------------------------------
(* What a mode's timer is armed for. *)

\* check_uint64_add
HardDeadline(t, fireTSR, tolerance) == Sooner(fireTSR[t] + tolerance[t], Never)

Passed(tsr, found) == tsr > found.hard

\* The search of __CFArmNextTimerInMode: the first time any timer may fire and
\* the last at which all are in their tolerance, timers that are firing left
\* out; it stops at the first timer that may fire only after that.
Nothing == [soft |-> Never, hard |-> Never, stop |-> FALSE]
Found(before, t, fireTSR, tolerance, firing) ==
  IF before.stop \/ t \in firing THEN before
  ELSE IF Passed(fireTSR[t], before)
  THEN [soft |-> before.soft, hard |-> before.hard, stop |-> TRUE]
  ELSE [soft |-> Sooner(fireTSR[t], before.soft),
        hard |-> Sooner(HardDeadline(t, fireTSR, tolerance), before.hard), stop |-> FALSE]

FoundAfter(array, fireTSR, tolerance, firing) ==
  LET found[i \in 0..Len(array)] ==
        IF i = 0 THEN Nothing
        ELSE Found(found[i - 1], array[i], fireTSR, tolerance, firing)
  IN found

NextDeadlines(array, fireTSR, tolerance, firing) ==
  LET found == FoundAfter(array, fireTSR, tolerance, firing)[Len(array)]
  IN [soft |-> found.soft, hard |-> found.hard]

\* The rest of __CFArmNextTimerInMode: the timer of the kernel is for timers
\* without tolerance, the one of libdispatch for those with, and neither is
\* touched if it was armed for the same deadlines before.  The flags
\* _mkTimerArmed and _dispatchTimerArmed only save calls.
ArmNext(armed, next) ==
  CASE next.soft = Never ->
         [soft |-> next.soft, hard |-> next.hard, mkTimer |-> Never, dispatchTimer |-> Never]
    [] next.soft # Never /\ next.soft = armed.soft /\ next.hard = armed.hard -> armed
    [] OTHER ->
         [soft |-> next.soft, hard |-> next.hard,
          mkTimer |-> IF next.hard = next.soft THEN next.soft ELSE Never,
          dispatchTimer |-> IF next.hard > next.soft THEN next.soft ELSE Never]
============================================================================
