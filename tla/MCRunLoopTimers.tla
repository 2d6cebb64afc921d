-------------------------- MODULE MCRunLoopTimers --------------------------
(* Small instances of RunLoopTimers for TLC. *)
EXTENDS RunLoopTimers

CONSTANTS a, b, t1, t2, c1, c2

\* Both timers are due at once.
MCFireDate == [t \in Timers |-> 1]
\* t1 repeats, t2 does not.
MCInterval == [t \in Timers |-> IF t = t1 THEN 2 ELSE 0]
\* t1 repeats so seldom that its second date is the last one, t2 often.
SeldomAndOften == [t \in Timers |-> IF t = t1 THEN LongMax - 1 ELSE 1]
OneMode == [t \in Timers |-> {a}]
TwoModes == [t \in Timers |-> IF t = t1 THEN {a, b} ELSE {b}]
============================================================================
