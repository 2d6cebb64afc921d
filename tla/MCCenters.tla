----------------------------- MODULE MCCenters -----------------------------
(* A local notification center that two threads use, a distributed one whose *)
(* callbacks post, the tables of message ports, and the preferences, in one  *)
(* run.  Each behaviour is of one part; the others stay in their initial     *)
(* state.                                                                    *)
EXTENDS NotificationCenter, TLC

CONSTANTS n, x, t1, o1

\* Signatures without and with wild cards.
WildCards == {<<n, x>>, <<n, Null>>, <<Null, x>>}
OneOrEverything == {<<n, x>>, <<Null, Null>>}
OnePost == {<<n, x>>}

\* Of message ports: n1 is the name of a service of another task.
CONSTANTS portThreads, ports, machPorts, n1, n2, f1, checker, ownPort, None
ForeignServices == n1 :> f1 @@ n2 :> None
CONSTANT Foreign

\* Of preferences: an application, all of them, a suite.
CONSTANTS a1, all1, s1, k1, v1
App == <<a1, "user", "any">>
AllApps == <<all1, "user", "any">>

VARIABLES
  part,
  file, cacheExists, cache, obj, prefs, appLock, cacheLock, busy, frame, pCalls, foreign,
  latest, clobbered, pending, outdated, leftOver,
  service, rights, dead, native, mp, local, remote, held, stack, calls, lost,
  dCell, dList, dCount, dLock, dListening, dPosts, dFailed

centerVars == vars
distributedVars == <<dCell, dList, dCount, dLock, dListening, dPosts, dFailed>>
portVars ==
  <<service, rights, dead, native, mp, local, remote, held, stack, calls, lost>>
prefVars ==
  <<file, cacheExists, cache, obj, prefs, appLock, cacheLock, busy, frame, pCalls,
    foreign, latest, clobbered, pending, outdated, leftOver>>
all == <<part, centerVars, distributedVars, portVars, prefVars>>
----------------------------------------------------------------------------
D == INSTANCE NotificationCenter WITH
       Kind <- "distributed", Threads <- {t1}, Observers <- {o1},
       Added <- {<<n, x>>, <<n, Null>>}, Removed <- OneOrEverything,
       Cells <- {1, 2, 3}, MayFail <- TRUE, MaxDepth <- 2,
       cell <- dCell, list <- dList, observersCount <- dCount, lock <- dLock,
       listening <- dListening, posts <- dPosts, failed <- dFailed
M == INSTANCE MessagePort WITH
       Threads <- portThreads, Checker <- checker, Objects <- ports, Names <- {n1, n2},
       OwnPorts <- {ownPort}, Natives <- machPorts, MaxCalls <- 4
P == INSTANCE Preferences WITH
       Threads <- portThreads, Apps <- {a1}, Suites <- {}, AnyApp <- all1,
       Located <- {App, AllApps}, Keys <- {k1}, Values <- {v1}, Objects <- 1..3,
       Calls <- {"copy", "set", "sync", "appCopy", "appSet", "appSync", "flush", "purge"},
       MaxCalls <- 2, MaxForeign <- 1, MaxCopies <- 2, calls <- pCalls
U == INSTANCE Preferences WITH
       Threads <- {t1}, Apps <- {a1}, Suites <- {s1}, AnyApp <- all1,
       Located <- {App, AllApps, <<s1, "user", "any">>, <<s1, "user", "this">>,
                   <<a1, "any", "any">>, <<s1, "any", "any">>},
       Keys <- {k1}, Values <- {}, Objects <- 1..6,
       Calls <- {"appCopy", "addSuite", "removeSuite"},
       MaxCalls <- 7, MaxForeign <- 0, MaxCopies <- 2, calls <- pCalls

Symmetry ==
  Permutations(portThreads) \cup Permutations(ports) \cup Permutations(machPorts)

CentersInit ==
  /\ part \in {"local", "distributed", "messagePorts", "preferences", "suites"}
  /\ Init /\ D!Init
  /\ M!Init
  /\ CASE part = "preferences" -> P!Init
       [] part = "suites"      -> U!Init
       [] OTHER                -> P!Init /\ file = [d \in {App, AllApps} |-> P!Empty]

CentersNext ==
  \/ part = "local" /\ Next /\ UNCHANGED <<part, distributedVars, portVars, prefVars>>
  \/ part = "distributed" /\ D!Next /\ UNCHANGED <<part, centerVars, portVars, prefVars>>
  \/ part = "messagePorts" /\ M!Next
     /\ UNCHANGED <<part, centerVars, distributedVars, prefVars>>
  \/ part = "preferences" /\ P!Next
     /\ UNCHANGED <<part, centerVars, distributedVars, portVars>>
  \/ part = "suites" /\ U!Next
     /\ UNCHANGED <<part, centerVars, distributedVars, portVars>>

CentersSpec == CentersInit /\ [][CentersNext]_all
----------------------------------------------------------------------------
\* On one thread, an observer that was removed is not called.
RemovedIsNotCalledThen == [][part = "distributed" => D!PresentIsCalled]_all

\* What other tasks were told is true: the daemon of the distributed center
\* listens for what observers ask for, and a post that comes from it reaches
\* them (CFNotificationCenter.c); the tables of message ports have none that is
\* freed, and the task has the rights of its remote ports (CFMessagePort.c:664,
\* 726, 754).
OtherTasksAgree ==
  /\ D!TypeOK /\ D!PostReachesAll /\ D!TableCountsObservers
  /\ part = "messagePorts" =>
       M!MessagePortAssumption /\ M!TypeOK /\ M!TablesHaveNoFreed /\ M!RightsCoverRemotes

\* No value that was set is lost, other processes' keys are kept, what an
\* application reads follows what was set, and its search list is in order
\* (CFPreferences.c:517, CFApplicationPreferences.c:517, 642).
PreferencesAgree ==
  (part = "preferences" => P!PreferencesOK) /\ (part = "suites" => U!PreferencesOK)
============================================================================
