-------------------------- MODULE RunLoopRegistry ---------------------------
(* Which run loop belongs to which thread: the dictionary __CFRunLoops, the  *)
(* thread's own data (CFPlatform.c), and the teardown of both when a thread  *)
(* exits.  The system calls the destructor of a thread's data several times; *)
(* each pass goes over the slots in order, and the run loop's slot counts    *)
(* passes so that the loop goes in the last one.  An address of a thread is  *)
(* used again by later threads.                                              *)
EXTENDS Integers, FiniteSets

CONSTANTS
  Addresses,   \* of threads (pthread_t)
  None,
  Iterations,  \* PTHREAD_DESTRUCTOR_ITERATIONS
  Moments,     \* <<pass, "below" or "above">>: when destructors of other slots
               \* ask for the current loop
  AsksEarly,   \* whether a thread's loop is asked for by another thread before
               \* the thread itself has
  MaxLives, MaxLoops  \* bounds: threads per address, loops made

RegistryAssumption ==
  /\ Iterations \in Nat /\ Iterations > 1
  /\ Moments \subseteq ((1..Iterations) \X {"below", "above"})
  /\ MaxLives \in Nat \ {0} /\ MaxLoops \in Nat /\ None \notin 1..MaxLoops

Made == 1..MaxLoops

VARIABLES
  dict,      \* __CFRunLoops: of an address
  slotLoop,  \* of an address: the slot __CFTSDKeyRunLoop
  slotCntr,  \* of an address: the slot __CFTSDKeyRunLoopCntr
  torn,      \* addresses whose table of data is gone (CF_TSD_BAD_PTR)
  place,     \* of an address: where its thread is
  life,      \* of an address: how many threads have had it
  maker,     \* of a loop: <<address, life>> it was made for
  loops,     \* the loops made
  refs,      \* of a loop: references held by the dictionary and by threads
  held,      \* of an address: the loop __CFFinalizeRunLoop has retained
  answer     \* of an address: the last loop CFRunLoopGetCurrent gave it

vars == <<dict, slotLoop, slotCntr, torn, place, life, maker, loops, refs, held,
          answer>>
data == <<slotLoop, slotCntr>>

Running == <<0, "running">>
Ended == <<0, "ended">>

Init ==
  /\ dict = [a \in Addresses |-> None]
  /\ slotLoop = [a \in Addresses |-> None]
  /\ slotCntr = [a \in Addresses |-> 0]
  /\ torn = {} /\ loops = {}
  /\ place = [a \in Addresses |-> Running]
  /\ life = [a \in Addresses |-> 1]
  /\ maker = [l \in Made |-> None]
  /\ refs = [l \in Made |-> 0]
  /\ held = [a \in Addresses |-> None]
  /\ answer = [a \in Addresses |-> None]

Freed == {l \in loops : refs[l] = 0}
Runs(a) == place[a] = Running
MayAsk(a) == Runs(a) \/ place[a] \in Moments

(***************************************************************************)
(* _CFRunLoopGet0: under loopsLock the loop is looked up or made           *)
(***************************************************************************)
Fresh == Cardinality(loops) + 1
LoopFor(a) == IF dict[a] = None THEN Fresh ELSE dict[a]

LookUp(a) ==
  IF dict[a] = None
  THEN /\ Fresh \in Made
       /\ loops' = loops \cup {Fresh}
       /\ maker' = [maker EXCEPT ![Fresh] = <<a, life[a]>>]
       /\ refs' = [refs EXCEPT ![Fresh] = 1]
       /\ dict' = [dict EXCEPT ![a] = Fresh]
  ELSE UNCHANGED <<loops, maker, refs, dict>>

\* The thread itself also writes its slots; the counter only where it is 0.
Counter(c) == IF c = 0 THEN Iterations - 1 ELSE c

GetCurrent(a) ==
  /\ MayAsk(a)
  /\ IF slotLoop[a] # None /\ a \notin torn
     THEN /\ answer' = [answer EXCEPT ![a] = slotLoop[a]]
          /\ UNCHANGED <<loops, maker, refs, dict, data>>
     ELSE /\ LookUp(a)
          /\ answer' = [answer EXCEPT ![a] = LoopFor(a)]
          /\ IF a \in torn THEN UNCHANGED data
             ELSE /\ slotLoop' = [slotLoop EXCEPT ![a] = LoopFor(a)]
                  /\ slotCntr' = [slotCntr EXCEPT ![a] = Counter(@)]
  /\ UNCHANGED <<torn, place, life, held>>

\* Another thread asks for the loop of a thread that runs.
GetOther(a, b) ==
  /\ a # b /\ Runs(a) /\ Runs(b) /\ (AsksEarly \/ slotLoop[b] # None)
  /\ LookUp(b)
  /\ UNCHANGED <<data, torn, place, life, held, answer>>

ClearedSlot_Not(a) == slotLoop   \* mutant
\* _CFRunLoopSetCurrent(NULL), not of the main thread.
ClearedSlot(a) == [slotLoop EXCEPT ![a] = None]

SetCurrentNone(a) ==
  /\ Runs(a) /\ dict[a] # None
  /\ refs' = [refs EXCEPT ![dict[a]] = @ - 1]
  /\ dict' = [dict EXCEPT ![a] = None]
  /\ slotLoop' = ClearedSlot(a)
  /\ slotCntr' = [slotCntr EXCEPT ![a] = 0]
  /\ answer' = [answer EXCEPT ![a] = None]
  /\ UNCHANGED <<torn, place, life, maker, loops, held>>

(***************************************************************************)
(* The thread exits: __CFTSDFinalize, __CFFinalizeRunLoop                  *)
(***************************************************************************)
Exit(a) ==
  /\ Runs(a)
  /\ place' = [place EXCEPT ![a] = <<1, "below">>]
  /\ UNCHANGED <<dict, data, torn, life, maker, loops, refs, held, answer>>

\* The pass comes to the counter's slot.
IsLastCall(c) == c <= 1

\* The dictionary's reference becomes that of the finalizer.
TakenOff(a) == [dict EXCEPT ![a] = None]

CounterSlot(a) ==
  /\ place[a][2] = "below"
  /\ place' = [place EXCEPT ![a] = <<place[a][1], "above">>]
  /\ IF slotCntr[a] = 0 \/ a \in torn
     THEN UNCHANGED <<slotCntr, dict, held>>
     ELSE IF IsLastCall(slotCntr[a])
     THEN /\ slotCntr' = [slotCntr EXCEPT ![a] = 0]
          /\ held' = [held EXCEPT ![a] = dict[a]]
          /\ dict' = TakenOff(a)
     ELSE /\ slotCntr' = [slotCntr EXCEPT ![a] = @ - 1]
          /\ UNCHANGED <<dict, held>>
  /\ UNCHANGED <<slotLoop, torn, life, maker, loops, refs, answer>>

\* The loop is purged (RunLoopItems) and released.
FinalizeReleases(a) ==
  /\ held[a] # None
  /\ refs' = [refs EXCEPT ![held[a]] = @ - 1]
  /\ held' = [held EXCEPT ![a] = None]
  /\ UNCHANGED <<dict, data, torn, place, life, maker, loops, answer>>

\* After the last pass but one the table is freed; the passes after it return
\* at once.
TornAfter(p) == p = Iterations - 1

PassEnds(a) ==
  /\ place[a][2] = "above" /\ held[a] = None
  /\ LET p == place[a][1] IN
     /\ place' = [place EXCEPT ![a] =
          IF p = Iterations THEN Ended ELSE <<p + 1, "below">>]
     /\ torn' = IF TornAfter(p) THEN torn \cup {a} ELSE torn
     /\ answer' = IF p = Iterations THEN [answer EXCEPT ![a] = None] ELSE answer
  /\ UNCHANGED <<dict, data, life, maker, loops, refs, held>>

\* A new thread gets the address.
Restart(a) ==
  /\ place[a] = Ended /\ life[a] < MaxLives
  /\ life' = [life EXCEPT ![a] = @ + 1]
  /\ place' = [place EXCEPT ![a] = Running]
  /\ slotLoop' = [slotLoop EXCEPT ![a] = None]
  /\ slotCntr' = [slotCntr EXCEPT ![a] = 0]
  /\ torn' = torn \ {a}
  /\ UNCHANGED <<dict, maker, loops, refs, held, answer>>

Next ==
  \E a \in Addresses :
    \/ GetCurrent(a) \/ SetCurrentNone(a) \/ Exit(a) \/ CounterSlot(a)
    \/ FinalizeReleases(a) \/ PassEnds(a) \/ Restart(a)
    \/ \E b \in Addresses : GetOther(a, b)

Spec == Init /\ [][Next]_vars
-----------------------------------------------------------------------------
\* The variables have their types; a loop in the dictionary is not freed.
TypeOK ==
  /\ dict \in [Addresses -> loops \cup {None}]
  /\ slotLoop \in [Addresses -> loops \cup {None}]
  /\ slotCntr \in [Addresses -> 0..Iterations]
  /\ torn \subseteq Addresses
  /\ place \in [Addresses ->
       ((1..Iterations) \X {"below", "above"}) \cup {Running, Ended}]
  /\ life \in [Addresses -> 1..MaxLives]
  /\ refs \in [Made -> 0..1]
  /\ held \in [Addresses -> loops \cup {None}]
  /\ \A a \in Addresses : dict[a] \notin Freed

\* A thread is given the loop that was made for it, and never one that is
\* freed: not that of an earlier thread of the same address, nor the one its
\* slot still names (1513, 1562).
CurrentIsOwn ==
  \A a \in Addresses : answer[a] # None /\ Runs(a) =>
    answer[a] \notin Freed /\ maker[answer[a]] = <<a, life[a]>>

\* A thread that has ended has left no loop: the finalizer is "Called for each
\* thread as it exits" (1562).  True as long as a thread is the first to ask for
\* its loop, and other destructors ask for it in the first pass and before the
\* loop's slot only.
EndedThreadsHaveNoLoop ==
  \A a \in Addresses : place[a] = Ended =>
    /\ dict[a] = None
    /\ \A l \in loops : maker[l] # None /\ maker[l][1] = a => l \in Freed

\* A thread is given its own loop, and a thread that has ended has left none
\* (1513, 1562).
ThreadsHaveTheirLoop == TypeOK /\ CurrentIsOwn /\ EndedThreadsHaveNoLoop
=============================================================================
