----------------------------- MODULE MCRunLoop -----------------------------
(* Small instances of RunLoop: a common mode and one that is not. *)
EXTENDS RunLoop, TLC

CONSTANTS default, other, common, b1, b2, s1, s2, p1, t1, t2

MCCommonModes == {default}
\* The first block is for the common modes, the others for either mode.
MCBlockModes == [b \in Blocks |-> IF b = b1 THEN {common} ELSE {default, other}]
MCSourceOrder == [s \in Sources0 |-> IF s = s1 THEN 0 ELSE 1]
\* Every source is in the default mode, two are in the other mode as well.
MCMembers ==
  [m \in Modes |-> IF m = default THEN Sources ELSE Sources \cap {s1, p1}]
\* The arguments of the runs.
Hard == {[soft |-> FALSE, seconds |-> "never"]}
HardOrSoft == [soft : BOOLEAN, seconds : {"never"}]
SoftOrTimed == HardOrSoft \cup {[soft |-> FALSE, seconds |-> "future"]}
AnyRun == RunKind
=============================================================================
