------------------------- MODULE NotificationCenter ------------------------
(***************************************************************************)
(* A notification center of CFNotificationCenter.c: its list of observers, *)
(* each with a retain count, posts that call the observers they match with *)
(* the lock let go, so that the callbacks may add, remove and post, and    *)
(* the table that says what the center has asked the daemon to listen for. *)
(*                                                                         *)
(* Posting to the distributed or the Darwin center sends a message to a    *)
(* daemon; Post is then the arrival of the message the daemon sends back.  *)
(* Hashes of names and objects are these themselves, and 0 is Null.  That  *)
(* a center is suspended has no effect, and its queue is never used:       *)
(* deliverNow is never 0, as it is the flags of the header                 *)
(* | kCFNotificationDeliverImmediately.  The model ends where the code     *)
(* would read a record it has freed.                                       *)
(***************************************************************************)
EXTENDS Integers, Sequences, SequencesExt, FiniteSets

CONSTANTS
  Kind,       \* the type of the center: "local", "distributed" or "darwin"
  Threads,    \* the threads that use it
  Observers,  \* the clients' observers
  Null,       \* a NULL name or object, which stands for any
  Added,      \* the <<name, object>> clients add observers for
  Removed,    \* the <<name, object>> they remove them by
  Posted,     \* the <<name, object>> they post
  Cells,      \* the memory of observer records
  MayFail,    \* whether registering with the daemon may fail
  MaxDepth    \* bound on the posts nested on a thread

NoLock == "none"
Names == {s[1] : s \in Added \cup Removed \cup Posted}
Objects == {s[2] : s \in Added \cup Removed \cup Posted}

ASSUME CenterAssumption ==
  /\ Kind \in {"local", "distributed", "darwin"} /\ MayFail \in BOOLEAN
  /\ \A s \in Added \cup Removed \cup Posted : s = <<s[1], s[2]>>
  /\ \A s \in Posted : s[1] # Null
  /\ Null \notin Observers
  /\ Kind = "darwin" => \A s \in Added : s[1] # Null /\ s[2] = Null
  /\ MaxDepth \in Nat \ {0}
  /\ IsFiniteSet(Threads) /\ IsFiniteSet(Cells) /\ NoLock \notin Threads

VARIABLES
  cell,            \* the observer record in each cell
  list,            \* the cells linked from firstObserver
  observersCount,
  lock,            \* the thread that holds the center's lock
  listening,       \* the count of each notification in the table
  posts,           \* the activations of __CFInvokeCallBacks on each thread
  failed           \* history: the keys that registering has failed for

table == <<listening, failed>>
vars == <<cell, list, observersCount, lock, table, posts>>

Free == [observer |-> Null, name |-> Null, object |-> Null, callback |-> FALSE, retainCount |-> 0]
Record ==
  [observer : Observers \cup {Null}, name : Names \cup {Null}, object : Objects \cup {Null},
   callback : BOOLEAN, retainCount : Nat]

\* The locals of __CFInvokeCallBacks; called and expected are history, the
\* observers called so far and those matched.  An observer's callback is read
\* after the unlock that precedes the call (pc = "unlocked").
Frame ==
  [matched : Seq(Cells), pc : {"next", "unlocked", "callback", "null"},
   expected : Seq(Cells), called : Seq(Cells)]

Top(t) == posts[t][Len(posts[t])]
At(t, pc) == posts[t] # <<>> /\ Top(t).pc = pc
SetTop(t, f) == posts' = [posts EXCEPT ![t] = [@ EXCEPT ![Len(@)] = f]]
\* Client code: outside of any post, or in a callback.
InClientCode(t) == posts[t] = <<>> \/ At(t, "callback")

\* The members of seq that are in S, in their order: of the first i, and of all.
Kept(seq, S) ==
  LET kept[i \in 0..Len(seq)] ==
        IF i = 0 THEN <<>>
        ELSE IF seq[i] \in S THEN Append(kept[i - 1], seq[i]) ELSE kept[i - 1]
  IN kept
Within(seq, S) == Kept(seq, S)[Len(seq)]

\* What the table tells notifications apart by.
Key(name, object) == IF Kind = "darwin" THEN <<name, Null>> ELSE <<name, object>>
Keys == {Key(n, o) : n \in Names \cup {Null}, o \in Objects \cup {Null}}

Init ==
  /\ cell = [c \in Cells |-> Free] /\ list = <<>> /\ observersCount = 0
  /\ lock = NoLock
  /\ listening = [k \in Keys |-> 0] /\ failed = {}
  /\ posts = [t \in Threads |-> <<>>]

----------------------------------------------------------------------------
(* Observers. *)

\* __CFDistAddNotification and __CFDarwinAddNotification: the first one of its
\* signature registers with the daemon, and is left out when that fails.
AddNotification(name, object) ==
  LET k == Key(name, object)
  IN \/ Kind = "local" /\ UNCHANGED table
     \/ /\ Kind # "local"
        /\ listening' = [listening EXCEPT ![k] = @ + 1] /\ UNCHANGED failed
     \/ /\ Kind # "local" /\ MayFail /\ listening[k] = 0
        /\ failed' = failed \cup {k} /\ UNCHANGED listening

\* __CFDistRemoveNotification and __CFDarwinRemoveNotification, called times
\* times: the last one of its signature unregisters.
AfterRemoval(name, object, times) ==
  LET k == Key(name, object)
  IN IF Kind = "local" THEN listening
     ELSE [listening EXCEPT ![k] = IF @ > times THEN @ - times ELSE 0]

\* __CFAddObserver links a new record at the end of the list.  A cell is used
\* once, so that what is freed stays recognizable.
AddObserver(t, c, o, s) ==
  /\ InClientCode(t) /\ lock = NoLock
  /\ cell[c] = Free
  /\ cell' = [cell EXCEPT ![c] =
       [observer |-> o, name |-> s[1], object |-> s[2], callback |-> TRUE, retainCount |-> 1]]
  /\ list' = Append(list, c)
  /\ observersCount' = observersCount + 1
  /\ AddNotification(s[1], s[2])
  /\ UNCHANGED <<lock, posts>>

Unlinked_NoClear(r) == [r EXCEPT !.retainCount = @ - 1]   \* mutant
Unlinked(r) == [r EXCEPT !.callback = FALSE, !.retainCount = @ - 1]

IsRemovedBy(c, o, name, object) ==
  /\ cell[c].observer = o
  /\ name \in {Null, cell[c].name} /\ object \in {Null, cell[c].object}

CountAfter(n) == observersCount - n

\* Each record removed takes one notification with the name and the object of
\* the call, not its own, off the table.
TakenOff(gone) == Cardinality(gone)

\* CFNotificationCenterRemoveObserver by a name or an object (__CFRemoveObserver)
RemoveObserver(t, o, s) ==
  /\ InClientCode(t) /\ lock = NoLock
  /\ s[1] # Null \/ (s[2] # Null /\ Kind # "darwin")
  /\ LET object == IF Kind = "darwin" THEN Null ELSE s[2]
         gone == {c \in ToSet(list) : IsRemovedBy(c, o, s[1], object)}
     IN /\ list' = Within(list, Cells \ gone)
        /\ cell' = [c \in Cells |-> IF c \in gone THEN Unlinked(cell[c]) ELSE cell[c]]
        /\ observersCount' = CountAfter(Cardinality(gone))
        /\ listening' = AfterRemoval(s[1], object, TakenOff(gone))
  /\ UNCHANGED <<lock, posts, failed>>

\* CFNotificationCenterRemoveEveryObserver, and CFNotificationCenterRemoveObserver
\* by neither (__CFRemoveEveryObserver): releases every record of the list, of
\* whatever observer, and leaves the list and the table as they are.
RemoveEveryObserver(t, o) ==
  /\ InClientCode(t) /\ lock = NoLock
  /\ <<Null, Null>> \in Removed
  /\ cell' = [c \in Cells |-> IF c \in ToSet(list) THEN Unlinked(cell[c]) ELSE cell[c]]
  /\ observersCount' = observersCount - Len(list)
  /\ UNCHANGED <<list, lock, table, posts>>

----------------------------------------------------------------------------
(* Posts. *)

Matches(c, s) == cell[c].name \in {Null, s[1]} /\ cell[c].object \in {Null, s[2]}

Retained(r) == [r EXCEPT !.retainCount = @ + 1]

\* __CFInvokeCallBacks up to its loop: locks and retains what matches.  (That a
\* local center has an observer is asked without the lock, and may not hold.)
Post(t, s) ==
  /\ InClientCode(t) /\ lock = NoLock /\ Len(posts[t]) < MaxDepth
  /\ LET matched == Within(list, {c \in Cells : Matches(c, s)})
     IN /\ cell' = [c \in Cells |->
             IF c \in ToSet(matched) THEN Retained(cell[c]) ELSE cell[c]]
        /\ posts' = [posts EXCEPT ![t] = Append(@,
             [matched |-> matched, pc |-> "next", expected |-> matched, called |-> <<>>])]
  /\ lock' = t
  /\ UNCHANGED <<list, observersCount, table>>

Rest_SkipsNext(matched) == IF Len(matched) > 1 THEN Tail(Tail(matched)) ELSE <<>>   \* mutant
Rest(matched) == Tail(matched)

\* __CFObserverRelease of the observer at hand, and on to the next.
Release(t, c) ==
  /\ cell' = [cell EXCEPT ![c].retainCount = @ - 1]
  /\ SetTop(t, [Top(t) EXCEPT !.pc = "next", !.matched = Rest(@)])

\* An observer that was removed meanwhile is skipped...
SkipRemoved(t) ==
  /\ At(t, "next") /\ lock = t /\ Top(t).matched # <<>>
  /\ ~cell[Head(Top(t).matched)].callback
  /\ Release(t, Head(Top(t).matched))
  /\ UNCHANGED <<list, observersCount, lock, table>>

\* ...for any other the center is unlocked...
Deliver(t) ==
  /\ At(t, "next") /\ lock = t /\ Top(t).matched # <<>>
  /\ cell[Head(Top(t).matched)].callback
  /\ lock' = NoLock
  /\ SetTop(t, [Top(t) EXCEPT !.pc = "unlocked"])
  /\ UNCHANGED <<cell, list, observersCount, table>>

\* ...and its callback is called, whatever it is by then.
CallBack(t) ==
  /\ At(t, "unlocked")
  /\ LET c == Head(Top(t).matched)
     IN SetTop(t, [Top(t) EXCEPT !.pc = IF cell[c].callback THEN "callback" ELSE "null",
                                 !.called = Append(@, c)])
  /\ UNCHANGED <<cell, list, observersCount, lock, table>>

CallbackReturns(t) ==
  /\ At(t, "callback") /\ lock = NoLock
  /\ lock' = t
  /\ Release(t, Head(Top(t).matched))
  /\ UNCHANGED <<list, observersCount, table>>

PostDone(t) ==
  /\ At(t, "next") /\ lock = t /\ Top(t).matched = <<>>
  /\ lock' = NoLock
  /\ posts' = [posts EXCEPT ![t] = Front(@)]
  /\ UNCHANGED <<cell, list, observersCount, table>>

----------------------------------------------------------------------------
Client(t) ==
  \/ \E c \in Cells, o \in Observers, s \in Added : AddObserver(t, c, o, s)
  \/ \E o \in Observers, s \in Removed : RemoveObserver(t, o, s)
  \/ \E o \in Observers : RemoveEveryObserver(t, o)
  \/ \E s \in Posted : Post(t, s)

Step(t) == SkipRemoved(t) \/ Deliver(t) \/ CallBack(t) \/ CallbackReturns(t) \/ PostDone(t)

\* No record the list or a post refers to has been freed.
Sound ==
  /\ \A c \in ToSet(list) : cell[c].retainCount > 0
  /\ \A t \in Threads : \A d \in DOMAIN posts[t] :
       \A c \in ToSet(posts[t][d].matched) : cell[c].retainCount > 0

Next == Sound /\ \E t \in Threads : Client(t) \/ Step(t)
Spec == Init /\ [][Next]_vars

----------------------------------------------------------------------------
(* Properties. *)

\* Every variable has its type.
TypeOK ==
  /\ cell \in [Cells -> Record] /\ list \in Seq(Cells) /\ observersCount \in Int
  /\ lock \in Threads \cup {NoLock}
  /\ listening \in [Keys -> Nat] /\ failed \subseteq Keys
  /\ posts \in [Threads -> Seq(Frame)]

\* The posts in progress that refer to a record.
Held(c) ==
  {p \in Threads \X (1..MaxDepth) :
     p[2] <= Len(posts[p[1]]) /\ c \in ToSet(posts[p[1]][p[2]].matched)}

\* The retain count of an observer's record is the number of places that refer
\* to it, the list and the posts in progress: it is freed when the last one
\* lets it go, neither earlier nor never (__CFObserverRelease).
RetainCountsAreExact ==
  \A c \in Cells :
    cell[c].retainCount = Cardinality(Held(c)) + (IF c \in ToSet(list) THEN 1 ELSE 0)

\* What a post matches fits what it has allocated, calloc(observersCount).
MatchesFitAllocation == observersCount = Len(list)

\* "callback is set to NULL when unlinking" (__CFInvokeCallBacks): an observer
\* removed from the center is not called, not even through NULL.
PresentIsCalled ==
  \A t \in Threads : CallBack(t) =>
    LET c == Head(Top(t).matched) IN c \in ToSet(list) /\ cell[c].callback
RemovedIsNotCalled == [][PresentIsCalled]_vars

Live == {c \in Cells : cell[c].callback}

\* However callbacks change the list, a post calls, once and in the order of
\* the list, every observer it has matched that is still there.
PostReachesAll ==
  \A t \in Threads :
    (At(t, "next") /\ Top(t).matched = <<>>) =>
      Within(Top(t).expected, Live) = Within(Top(t).called, Live)

\* What a center counts is right -- the references to each record and the
\* observers a post allocates for -- and a post reaches the observers it is for.
CentersCountAndReach ==
  TypeOK /\ RetainCountsAreExact /\ MatchesFitAllocation /\ PostReachesAll

ObserversFor(k) == {c \in ToSet(list) : Key(cell[c].name, cell[c].object) = k}

\* "When the first notification with a unique signature is added (or the last
\* is removed) we make a call to the ddistnoted daemon": nothing is listened for
\* that no observer asks for, and as long as registering has not failed the
\* table counts, for each signature, the observers that have it.
TableCountsObservers ==
  Kind # "local" => \A k \in Keys :
    /\ listening[k] <= Cardinality(ObserversFor(k))
    /\ k \notin failed => listening[k] = Cardinality(ObserversFor(k))
============================================================================
