--------------------------- MODULE ReferenceCount ---------------------------
(* The reference count of one object (CFRuntime.c: _CFRetain, _CFRelease).   *)
(* Count and state bits share a word that is changed by compare-and-swap.    *)
(* In 64-bit builds the count has 32 bits of the word; in 32-bit builds it   *)
(* has 7, an eighth says that the rest is in a table (__NSRetainCounters)    *)
(* guarded by a lock, whose entries count half of what 7 bits hold.          *)
(* Client threads own references, share, retain and release them; others     *)
(* hold weak references and use _CFTryRetain.  The finalizer may retain the  *)
(* object again (resurrection), and give the reference away.                 *)
EXTENDS Integers

CONSTANTS
  Threads, Nobody,
  Is64,     \* __LP64__
  Half,     \* 1 << 6: what an entry of the table counts
  Limit,    \* 1 << 32: the counts of a 64-bit build are below
  MaxOwned  \* bound: references a thread owns when it retains

ASSUME CountAssumption ==
  /\ Nobody \notin Threads
  /\ Is64 \in BOOLEAN
  /\ Half \in Nat /\ Half > 1
  /\ Limit \in Nat /\ Limit > 1 /\ MaxOwned \in Nat

InTable == 2 * Half         \* 1 << 7: the eighth bit
Fields == IF Is64 THEN 0..(Limit - 1) ELSE 0..(4 * Half - 1)

VARIABLES
  field,      \* the count in the word
  table,      \* the object's count in the table
  dying,      \* RC_DEALLOCATING_BIT
  dead,       \* RC_DEALLOCATED_BIT
  freed,      \* the memory is given back
  lock,       \* __CFRuntimeExternRefCountTableLock
  owed,       \* what its holder still has to add to the table
  pc,         \* of a thread: where it is
  seen,       \* of a thread: the word it has loaded
  within,     \* of a thread: whether it runs the finalizer
  owned,      \* of a thread: the references it owns
  refs        \* the references there are, a dying object's last one included

word == <<field, dying, dead>>
vars == <<field, table, dying, dead, freed, lock, owed, pc, seen, within, owned,
          refs>>

Init ==
  /\ field = 1 /\ table = 0 /\ dying = FALSE /\ dead = FALSE /\ freed = FALSE
  /\ lock = Nobody /\ owed = 0
  /\ pc = [t \in Threads |-> "idle"]
  /\ seen = [t \in Threads |-> word]
  /\ within = [t \in Threads |-> FALSE]
  /\ \E t \in Threads : owned = [u \in Threads |-> IF u = t THEN 1 ELSE 0]
  /\ refs = 1

Goto(t, label) == pc' = [pc EXCEPT ![t] = label]
Load(t) == seen' = [seen EXCEPT ![t] = word]
IsCurrent(t) == seen[t] = word
\* What a call returns to, or the finalizer of an outer call.
Return(t) == Goto(t, IF within[t] THEN "finalizer" ELSE "idle")
At(t, label) == pc[t] = label
MayCall(t) == At(t, "idle") \/ At(t, "finalizer")

(***************************************************************************)
(* The count                                                               *)
(***************************************************************************)
\* The references a word and a table stand for; 0 is a constant object.
Count(f, e) == IF Is64 \/ f < InTable THEN f ELSE f - InTable + Half * e

\* A retain carries to the table, a release borrows from it.
Carries(f) == ~Is64 /\ (f + 1 = InTable \/ f + 1 = 2 * InTable)
Borrows(f) == ~Is64 /\ f = InTable

\* In 64 bits the count wraps to that of a constant object.
Incremented_Whole(f) == IF Is64 THEN (IF f + 1 = Limit THEN 0 ELSE f + 1)
                        ELSE IF Carries(f) THEN InTable ELSE f + 1
Incremented(f) == IF Is64 THEN (IF f + 1 = Limit THEN 0 ELSE f + 1)
                  ELSE IF Carries(f) THEN InTable + Half ELSE f + 1
Decremented(f, e) ==
  IF Borrows(f) THEN (IF e = 1 THEN Half - 1 ELSE InTable + Half - 1) ELSE f - 1

(***************************************************************************)
(* _CFRetain, with tryR for a weak reference                               *)
(***************************************************************************)
Retain(t) ==
  /\ MayCall(t) /\ (owned[t] > 0 \/ within[t]) /\ owned[t] < MaxOwned
  /\ Goto(t, "retain") /\ Load(t)
  /\ UNCHANGED <<word, table, freed, lock, owed, within, owned, refs>>

TryRetain(t) ==
  /\ At(t, "idle") /\ ~freed /\ owned[t] < MaxOwned
  /\ Goto(t, "try") /\ Load(t)
  /\ UNCHANGED <<word, table, freed, lock, owed, within, owned, refs>>

Refused_Dead(w) == w[3]
Refused(w) == w[2] \/ w[3]

TryFails(t) ==
  /\ At(t, "try") /\ Refused(seen[t])
  /\ Return(t)
  /\ UNCHANGED <<word, table, freed, lock, owed, seen, within, owned, refs>>

Retaining(t) == At(t, "retain") \/ (At(t, "try") /\ ~Refused(seen[t]))

\* A constant object is not counted.
RetainConstant(t) ==
  /\ Retaining(t) /\ seen[t][1] = 0
  /\ owned' = [owned EXCEPT ![t] = @ + 1] /\ Return(t)
  /\ UNCHANGED <<word, table, freed, lock, owed, seen, within, refs>>

RetainSwap(t) ==
  /\ Retaining(t) /\ seen[t][1] # 0 /\ IsCurrent(t)
  /\ Carries(field) => lock = Nobody
  /\ field' = Incremented(field)
  /\ owned' = [owned EXCEPT ![t] = @ + 1] /\ refs' = refs + 1
  /\ IF Carries(field)
     THEN lock' = t /\ owed' = 1 /\ Goto(t, "table")
     ELSE UNCHANGED <<lock, owed>> /\ Return(t)
  /\ UNCHANGED <<table, dying, dead, freed, seen, within>>

\* __CFDoExternRefOperation and unlock.
UpdateTable(t) ==
  /\ At(t, "table")
  /\ table' = table + owed /\ owed' = 0 /\ lock' = Nobody
  /\ Return(t)
  /\ UNCHANGED <<word, freed, seen, within, owned, refs>>

\* The swap fails, and has loaded the word again.
SwapFails(t) ==
  /\ Retaining(t) \/ At(t, "release")
  /\ ~IsCurrent(t) /\ Load(t)
  /\ UNCHANGED <<word, table, freed, lock, owed, pc, within, owned, refs>>

(***************************************************************************)
(* _CFRelease                                                              *)
(***************************************************************************)
Release(t) ==
  /\ MayCall(t) /\ owned[t] > 0
  /\ owned' = [owned EXCEPT ![t] = @ - 1]
  /\ Goto(t, "release") /\ Load(t)
  /\ UNCHANGED <<word, table, freed, lock, owed, within, refs>>

ReleaseConstant(t) ==
  /\ At(t, "release") /\ seen[t][1] = 0
  /\ Return(t)
  /\ UNCHANGED <<word, table, freed, lock, owed, seen, within, owned, refs>>

IsLast_OrSecond(f) == f = 1 \/ f = 2
IsLast(f) == f = 1

ReleaseSwap(t) ==
  /\ At(t, "release") /\ seen[t][1] # 0 /\ IsCurrent(t) /\ ~IsLast(field)
  /\ Borrows(field) => lock = Nobody
  /\ field' = Decremented(field, table)
  /\ refs' = refs - 1
  /\ IF Borrows(field)
     THEN lock' = t /\ owed' = -1 /\ Goto(t, "table")
     ELSE UNCHANGED <<lock, owed>> /\ Return(t)
  /\ UNCHANGED <<table, dying, dead, freed, seen, within, owned>>

\* The last reference: the finalizer is called.
ReleaseLast(t) ==
  /\ At(t, "release") /\ seen[t][1] # 0 /\ IsCurrent(t) /\ IsLast(field)
  /\ dying' = TRUE
  /\ Goto(t, "finalizer") /\ within' = [within EXCEPT ![t] = TRUE]
  /\ UNCHANGED <<field, table, dead, freed, lock, owed, seen, owned, refs>>

\* The finalizer is done: the word is loaded again.
Finalized(t) ==
  /\ At(t, "finalizer")
  /\ Load(t) /\ within' = [within EXCEPT ![t] = FALSE]
  /\ Goto(t, IF IsLast(field) THEN "kill" ELSE "revive")
  /\ UNCHANGED <<word, table, freed, lock, owed, owned, refs>>

Kill(t) ==
  /\ At(t, "kill")
  /\ dead' = TRUE /\ freed' = TRUE
  /\ field' = IF Is64 /\ field > 0 THEN field - 1 ELSE field
  /\ refs' = refs - 1
  /\ Goto(t, "idle")
  /\ UNCHANGED <<table, dying, lock, owed, seen, within, owned>>

\* "drop the deallocating bit": the finalizer has retained the object, which
\* is released once more.
Revive(t) ==
  /\ At(t, "revive")
  /\ dying' = FALSE
  /\ Goto(t, "release")
  /\ UNCHANGED <<field, table, dead, freed, lock, owed, seen, within, owned, refs>>

\* A thread gives a reference to another.
Give(t, u) ==
  /\ MayCall(t) /\ owned[t] > 0 /\ t # u /\ owned[u] < MaxOwned
  /\ owned' = [owned EXCEPT ![t] = @ - 1, ![u] = @ + 1]
  /\ UNCHANGED <<word, table, freed, lock, owed, pc, seen, within, refs>>

Next ==
  \E t \in Threads :
    \/ Retain(t) \/ TryRetain(t) \/ TryFails(t) \/ RetainConstant(t)
    \/ RetainSwap(t) \/ UpdateTable(t) \/ SwapFails(t)
    \/ Release(t) \/ ReleaseConstant(t) \/ ReleaseSwap(t) \/ ReleaseLast(t)
    \/ Finalized(t) \/ Kill(t) \/ Revive(t)
    \/ \E u \in Threads : Give(t, u)

Spec == Init /\ [][Next]_vars
-----------------------------------------------------------------------------
Labels == {"idle", "retain", "try", "table", "release", "finalizer", "kill",
           "revive"}

\* The variables have their types.
TypeOK ==
  /\ field \in Fields /\ table \in Nat /\ dying \in BOOLEAN /\ dead \in BOOLEAN
  /\ freed \in BOOLEAN /\ lock \in Threads \cup {Nobody} /\ owed \in {-1, 0, 1}
  /\ pc \in [Threads -> Labels]
  /\ seen \in [Threads -> Fields \X BOOLEAN \X BOOLEAN]
  /\ within \in [Threads -> BOOLEAN]
  /\ owned \in [Threads -> Nat] /\ refs \in Nat

\* The count is exact across carries to the table and borrows from it, what the
\* lock's holder still owes included; it may only have overflowed to that of a
\* constant object (1504, 1524, 1667).
CountIsExact ==
  (Is64 /\ field = 0) \/ freed \/ Count(field, table + owed) = refs

\* Memory that is given back has no reference and no entry in the table but one
\* a release is about to take out, and no thread works on it (1600-1632).
FreedIsUnreferenced ==
  freed => /\ table + owed = 0
           /\ \A t \in Threads :
                owned[t] = 0 /\ pc[t] \notin {"retain", "release", "finalizer",
                                              "kill", "revive"}

\* One thread at a time finalizes the object, retains of weak references and
\* resurrections notwithstanding (1589-1630).
Finalizing(t) == within[t] \/ pc[t] \in {"kill", "revive"}
FinalizersDoNotOverlap ==
  \A t, u \in Threads : Finalizing(t) /\ Finalizing(u) => t = u

\* An object without references is given back, unless it has become constant:
\* no release is lost.
UnreferencedIsFreed ==
  (\A t \in Threads : owned[t] = 0 /\ At(t, "idle")) => freed \/ field = 0

\* An object is finalized by one thread at a time, and given back when it has no
\* reference, neither earlier nor never (1589-1632).
ObjectsEndOnce ==
  FinalizersDoNotOverlap /\ FreedIsUnreferenced /\ UnreferencedIsFreed
=============================================================================
