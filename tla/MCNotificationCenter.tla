----------------------- MODULE MCNotificationCenter ------------------------
(* Small instances of NotificationCenter for TLC. *)
EXTENDS NotificationCenter

CONSTANTS n, x

\* Signatures without and with wild cards.
WildCards == {<<n, x>>, <<n, Null>>, <<Null, x>>}
OneOrEverything == {<<n, x>>, <<Null, Null>>}
Two == {<<n, x>>, <<n, Null>>}
OnePost == {<<n, x>>}
============================================================================
