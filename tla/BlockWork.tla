----------------------------- MODULE BlockWork -----------------------------
(***************************************************************************)
(* What CFRunLoopPerformBlock promises, whatever the modes and however     *)
(* activations nest: a block handed over is performed at most once, and    *)
(* until then it is not lost.                                              *)
(***************************************************************************)
CONSTANT Blocks
VARIABLES pending, done

Init == pending = {} /\ done = {}

HandOver(b) ==
  /\ b \notin pending \cup done
  /\ pending' = pending \cup {b} /\ UNCHANGED done

Perform(b) ==
  /\ b \in pending
  /\ pending' = pending \ {b} /\ done' = done \cup {b}

Next == \E b \in Blocks : HandOver(b) \/ Perform(b)

Spec == Init /\ [][Next]_<<pending, done>>
============================================================================
