--------------------------- MODULE MCRunLoopItems ---------------------------
(* The version 1 source of a message port, which forgets its port. *)
EXTENDS RunLoopItems, TLC

CONSTANTS t1, r1, s1, p1

Owners == r1 :> t1
PortsOf == s1 :> p1
=============================================================================
