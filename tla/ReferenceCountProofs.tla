------------------------ MODULE ReferenceCountProofs ------------------------
(* The count of references is exact for every set of threads and every width *)
(* of the fields: no retain and no release is lost or made twice.            *)
EXTENDS ReferenceCount, FiniteSets, FiniteSetTheorems, TLAPS

\* The types the argument needs, weaker than TypeOK: that references are not
\* released too often is the client's duty.
Typed ==
  /\ field \in Fields /\ table \in Int /\ refs \in Int
  /\ owed \in {-1, 0, 1}
  /\ lock \in Threads \cup {Nobody}
  /\ pc \in [Threads -> Labels]
  /\ within \in [Threads -> BOOLEAN]
  /\ seen \in [Threads -> Fields \X BOOLEAN \X BOOLEAN]
  /\ dying \in BOOLEAN /\ dead \in BOOLEAN /\ freed \in BOOLEAN

\* Only the lock's holder owes something to the table.
LockProtects ==
  /\ lock = Nobody => owed = 0
  /\ \A t \in Threads : pc[t] = "table" => lock = t

\* The table has an entry for the object exactly if the word says so.
TableAgrees ==
  ~Is64 /\ ~freed =>
    /\ field < InTable => table + owed = 0
    /\ field >= InTable => table + owed >= 1

IInv == Typed /\ LockProtects /\ TableAgrees /\ CountIsExact

\* A retain adds one reference, whatever it carries to the table.
LEMMA RetainAddsOne ==
  ASSUME ~Is64, NEW f \in 0..(4 * Half - 1), NEW e \in Int, NEW more \in Int,
         f < InTable => e = 0, f >= InTable => e >= 1,
         more = IF Carries(f) THEN e + 1 ELSE e
  PROVE  /\ Incremented(f) \in 0..(4 * Half - 1)
         /\ Count(Incremented(f), more) = Count(f, e) + 1
         /\ Incremented(f) < InTable => more = 0
         /\ Incremented(f) >= InTable => more >= 1
PROOF
<1>1. Half \in Nat /\ Half > 1 BY CountAssumption
<1>2. Half * (e + 1) = Half * e + Half BY <1>1
<1>3. Half * e \in Int BY <1>1
<1>4. CASE Carries(f)
  BY <1>1, <1>2, <1>3, <1>4 DEF Carries, Incremented, Count, InTable
<1>5. CASE ~Carries(f)
  BY <1>1, <1>3, <1>5 DEF Carries, Incremented, Count, InTable
<1> QED BY <1>4, <1>5

\* A release takes one away, whatever it borrows from the table.
LEMMA ReleaseTakesOne ==
  ASSUME ~Is64, NEW f \in 0..(4 * Half - 1), NEW e \in Int, NEW less \in Int,
         f # 0, f < InTable => e = 0, f >= InTable => e >= 1,
         less = IF Borrows(f) THEN e - 1 ELSE e
  PROVE  /\ Decremented(f, e) \in 0..(4 * Half - 1)
         /\ Count(Decremented(f, e), less) = Count(f, e) - 1
         /\ Decremented(f, e) < InTable => less = 0
         /\ Decremented(f, e) >= InTable => less >= 1
PROOF
<1>1. Half \in Nat /\ Half > 1 BY CountAssumption
<1>2. Half * (e - 1) = Half * e - Half BY <1>1
<1>3. Half * e \in Int BY <1>1
<1>4. CASE Borrows(f)
  BY <1>1, <1>2, <1>3, <1>4 DEF Borrows, Decremented, Count, InTable
<1>5. CASE ~Borrows(f)
  BY <1>1, <1>3, <1>5 DEF Borrows, Decremented, Count, InTable
<1> QED BY <1>4, <1>5

\* A step that leaves the counts alone and takes no lock keeps the invariant.
LEMMA QuietStep ==
  ASSUME IInv, NEW t \in Threads, NEW l \in Labels, l # "table",
         UNCHANGED <<field, table, freed, lock, owed, refs>>,
         pc' = [pc EXCEPT ![t] = l] \/ pc' = pc,
         within' \in [Threads -> BOOLEAN],
         seen' \in [Threads -> Fields \X BOOLEAN \X BOOLEAN],
         dying' \in BOOLEAN, dead' \in BOOLEAN
  PROVE  IInv'
PROOF
<1>1. Typed' BY DEF IInv, Typed
<1>2. LockProtects' BY DEF IInv, LockProtects, Typed
<1>3. TableAgrees' BY DEF IInv, TableAgrees
<1>4. CountIsExact' BY DEF IInv, CountIsExact, Count
<1> QED BY <1>1, <1>2, <1>3, <1>4 DEF IInv

\* Loading the word gives a word.
LEMMA LoadIsTyped ==
  ASSUME Typed, NEW t \in Threads, Load(t)
  PROVE  seen' \in [Threads -> Fields \X BOOLEAN \X BOOLEAN]
PROOF
<1>1. word \in Fields \X BOOLEAN \X BOOLEAN BY DEF Typed, word
<1> QED BY <1>1 DEF Typed, Load

\* A swap by which a retain or a release takes effect keeps the invariant.
LEMMA RetainSwapKeeps ==
  ASSUME IInv, NEW t \in Threads, RetainSwap(t) PROVE IInv'
PROOF
<1> DEFINE e == table + owed
           more == table' + owed'
<1>1. Half \in Nat /\ Half > 1 /\ Limit \in Nat /\ Limit > 1 BY CountAssumption
<1>2. field # 0 /\ field' = Incremented(field) /\ refs' = refs + 1
  BY DEF RetainSwap, IsCurrent, word
<1>3. UNCHANGED <<table, dying, dead, freed, seen, within>> BY DEF RetainSwap
<1>4. /\ lock' \in Threads \cup {Nobody} /\ owed' \in {-1, 0, 1}
      /\ pc' \in [Threads -> Labels]
  BY DEF RetainSwap, IInv, Typed, Goto, Return, Labels
<1>5. field' \in Fields
  BY <1>1, <1>2 DEF IInv, Typed, Fields, Incremented, Carries, InTable
<1>6. Typed' BY <1>2, <1>3, <1>4, <1>5 DEF IInv, Typed
<1>7. LockProtects'
  <2>1. CASE Carries(field)
    <3>1. lock = Nobody /\ lock' = t /\ pc' = [pc EXCEPT ![t] = "table"]
      BY <2>1 DEF RetainSwap, Goto
    <3>2. \A u \in Threads : pc[u] # "table"
      BY <3>1, CountAssumption DEF IInv, LockProtects
    <3> QED BY <3>1, <3>2, CountAssumption DEF IInv, Typed, LockProtects
  <2>2. CASE ~Carries(field)
    <3>1. UNCHANGED <<lock, owed>> /\ Return(t) BY <2>2 DEF RetainSwap
    <3>2. pc' = [pc EXCEPT ![t] = "finalizer"] \/ pc' = [pc EXCEPT ![t] = "idle"]
      BY <3>1 DEF Return, Goto
    <3> QED BY <3>1, <3>2 DEF IInv, Typed, LockProtects
  <2> QED BY <2>1, <2>2
<1>8. e \in Int /\ more = IF Carries(field) THEN e + 1 ELSE e
  BY <1>3 DEF RetainSwap, IInv, Typed, LockProtects
<1>9. TableAgrees' /\ CountIsExact'
  <2>1. CASE freed BY <2>1, <1>3 DEF TableAgrees, CountIsExact
  <2>2. CASE Is64
    <3>1. field' = 0 \/ field' = field + 1 BY <1>2, <2>2 DEF Incremented
    <3>2. field = refs \/ freed
      BY <2>2, <1>2 DEF IInv, CountIsExact, Count
    <3> QED BY <3>1, <3>2, <2>2, <1>2, <1>3
      DEF TableAgrees, CountIsExact, Count
  <2>3. CASE ~Is64 /\ ~freed
    <3>1. field \in 0..(4 * Half - 1) BY <2>3 DEF IInv, Typed, Fields
    <3>2. /\ field < InTable => e = 0
          /\ field >= InTable => e >= 1
          /\ Count(field, e) = refs
      BY <2>3 DEF IInv, TableAgrees, CountIsExact
    <3>3. more \in Int BY <1>8
    <3>4. /\ Count(Incremented(field), more) = Count(field, e) + 1
          /\ Incremented(field) < InTable => more = 0
          /\ Incremented(field) >= InTable => more >= 1
      BY <3>1, <3>2, <3>3, <1>8, <2>3, RetainAddsOne
    <3> QED BY <3>2, <3>4, <1>2, <2>3 DEF TableAgrees, CountIsExact, Count, InTable
  <2> QED BY <2>1, <2>2, <2>3
<1> QED BY <1>6, <1>7, <1>9 DEF IInv

LEMMA ReleaseSwapKeeps ==
  ASSUME IInv, NEW t \in Threads, ReleaseSwap(t) PROVE IInv'
PROOF
<1> DEFINE e == table + owed
           less == table' + owed'
<1>1. Half \in Nat /\ Half > 1 /\ Limit \in Nat /\ Limit > 1 BY CountAssumption
<1>2. field # 0 /\ field' = Decremented(field, table) /\ refs' = refs - 1
  BY DEF ReleaseSwap, IsCurrent, word
<1>3. UNCHANGED <<table, dying, dead, freed, seen, within>> BY DEF ReleaseSwap
<1>4. /\ lock' \in Threads \cup {Nobody} /\ owed' \in {-1, 0, 1}
      /\ pc' \in [Threads -> Labels]
  BY DEF ReleaseSwap, IInv, Typed, Goto, Return, Labels
<1>5. field' \in Fields
  BY <1>1, <1>2 DEF IInv, Typed, Fields, Decremented, Borrows, InTable
<1>6. Typed' BY <1>2, <1>3, <1>4, <1>5 DEF IInv, Typed
<1>7. LockProtects'
  <2>1. CASE Borrows(field)
    <3>1. lock = Nobody /\ lock' = t /\ pc' = [pc EXCEPT ![t] = "table"]
      BY <2>1 DEF ReleaseSwap, Goto
    <3>2. \A u \in Threads : pc[u] # "table"
      BY <3>1, CountAssumption DEF IInv, LockProtects
    <3> QED BY <3>1, <3>2, CountAssumption DEF IInv, Typed, LockProtects
  <2>2. CASE ~Borrows(field)
    <3>1. UNCHANGED <<lock, owed>> /\ Return(t) BY <2>2 DEF ReleaseSwap
    <3>2. pc' = [pc EXCEPT ![t] = "finalizer"] \/ pc' = [pc EXCEPT ![t] = "idle"]
      BY <3>1 DEF Return, Goto
    <3> QED BY <3>1, <3>2 DEF IInv, Typed, LockProtects
  <2> QED BY <2>1, <2>2
<1>8. /\ e \in Int /\ less = IF Borrows(field) THEN e - 1 ELSE e
      /\ Borrows(field) => e = table
  BY <1>3 DEF ReleaseSwap, IInv, Typed, LockProtects
<1>9. TableAgrees' /\ CountIsExact'
  <2>1. CASE freed BY <2>1, <1>3 DEF TableAgrees, CountIsExact
  <2>2. CASE Is64
    <3>1. field' = field - 1 BY <1>2, <2>2 DEF Decremented, Borrows
    <3>2. field = refs \/ freed
      BY <2>2, <1>2 DEF IInv, CountIsExact, Count
    <3> QED BY <3>1, <3>2, <2>2, <1>2, <1>3
      DEF TableAgrees, CountIsExact, Count
  <2>3. CASE ~Is64 /\ ~freed
    <3>1. field \in 0..(4 * Half - 1) BY <2>3 DEF IInv, Typed, Fields
    <3>2. /\ field < InTable => e = 0
          /\ field >= InTable => e >= 1
          /\ Count(field, e) = refs
      BY <2>3 DEF IInv, TableAgrees, CountIsExact
    <3>3. less \in Int BY <1>8
    <3>4. Decremented(field, table) = Decremented(field, e)
      BY <1>8 DEF Decremented
    <3>5. /\ Count(Decremented(field, e), less) = Count(field, e) - 1
          /\ Decremented(field, e) < InTable => less = 0
          /\ Decremented(field, e) >= InTable => less >= 1
      BY <3>1, <3>2, <3>3, <1>2, <1>8, <2>3, ReleaseTakesOne
    <3> QED BY <3>2, <3>4, <3>5, <1>2, <2>3
      DEF TableAgrees, CountIsExact, Count, InTable
  <2> QED BY <2>1, <2>2, <2>3
<1> QED BY <1>6, <1>7, <1>9 DEF IInv

LEMMA UpdateTableKeeps ==
  ASSUME IInv, NEW t \in Threads, UpdateTable(t) PROVE IInv'
PROOF
<1>1. /\ table' = table + owed /\ owed' = 0 /\ lock' = Nobody
      /\ UNCHANGED <<word, freed, seen, within, refs>>
  BY DEF UpdateTable
<1>2. table' + owed' = table + owed BY <1>1 DEF IInv, Typed
<1>3. pc' = [pc EXCEPT ![t] = "finalizer"] \/ pc' = [pc EXCEPT ![t] = "idle"]
  BY DEF UpdateTable, Return, Goto
<1>4. Typed' BY <1>1, <1>3 DEF IInv, Typed, word, Labels
<1>5. \A u \in Threads : pc[u] = "table" => u = t
  BY DEF IInv, LockProtects, UpdateTable, At
<1>6. LockProtects' BY <1>1, <1>3, <1>5 DEF IInv, Typed, LockProtects
<1>7. TableAgrees' BY <1>1, <1>2 DEF IInv, TableAgrees, word
<1>8. CountIsExact' BY <1>1, <1>2 DEF IInv, CountIsExact, Count, word
<1> QED BY <1>4, <1>6, <1>7, <1>8 DEF IInv

LEMMA KillKeeps ==
  ASSUME IInv, NEW t \in Threads, Kill(t) PROVE IInv'
PROOF
<1>1. field' \in Fields BY CountAssumption DEF Kill, IInv, Typed, Fields
<1>2. Typed' BY <1>1 DEF Kill, IInv, Typed, Goto, Labels
<1>3. LockProtects' BY DEF Kill, IInv, Typed, LockProtects, Goto
<1>4. TableAgrees' /\ CountIsExact' BY DEF Kill, TableAgrees, CountIsExact
<1> QED BY <1>2, <1>3, <1>4 DEF IInv

LEMMA InitHolds == Init => IInv
PROOF
<1> SUFFICES ASSUME Init PROVE IInv OBVIOUS
<1>1. Half \in Nat /\ Half > 1 /\ Limit \in Nat /\ Limit > 1 BY CountAssumption
<1>2. field = 1 /\ table = 0 /\ owed = 0 /\ refs = 1 BY DEF Init
<1>3. 1 \in Fields /\ 1 < InTable BY <1>1 DEF Fields, InTable
<1>4. Typed
  <2>1. word \in Fields \X BOOLEAN \X BOOLEAN BY <1>2, <1>3 DEF Init, word
  <2>2. seen \in [Threads -> Fields \X BOOLEAN \X BOOLEAN]
    BY <2>1 DEF Init
  <2>3. /\ pc \in [Threads -> Labels] /\ within \in [Threads -> BOOLEAN]
        /\ dying \in BOOLEAN /\ dead \in BOOLEAN /\ freed \in BOOLEAN
    BY DEF Init, Labels
  <2>4. lock \in Threads \cup {Nobody} BY DEF Init
  <2> QED BY <1>2, <1>3, <2>2, <2>3, <2>4 DEF Typed
<1>5. LockProtects BY <1>2 DEF Init, LockProtects
<1>6. TableAgrees BY <1>1, <1>2, <1>3 DEF TableAgrees, InTable
<1>7. CountIsExact BY <1>2, <1>3 DEF CountIsExact, Count
<1> QED BY <1>4, <1>5, <1>6, <1>7 DEF IInv

LEMMA NextHolds == IInv /\ [Next]_vars => IInv'
PROOF
<1> SUFFICES ASSUME IInv, [Next]_vars PROVE IInv' OBVIOUS
<1> Typed BY DEF IInv
<1>1. ASSUME NEW t \in Threads, Retain(t) \/ TryRetain(t) PROVE IInv'
  BY <1>1, QuietStep, LoadIsTyped
  DEF Retain, TryRetain, Goto, Typed, Labels, word
<1>2. ASSUME NEW t \in Threads,
             TryFails(t) \/ RetainConstant(t) \/ ReleaseConstant(t) PROVE IInv'
  <2>1. /\ UNCHANGED <<word, table, freed, lock, owed, seen, within, refs>>
        /\ Return(t)
    BY <1>2 DEF TryFails, RetainConstant, ReleaseConstant
  <2> QED BY <2>1, QuietStep DEF Return, Goto, Typed, Labels, word
<1>3. ASSUME NEW t \in Threads, SwapFails(t) PROVE IInv'
  BY <1>3, QuietStep, LoadIsTyped DEF SwapFails, Typed, Labels, word
<1>4. ASSUME NEW t \in Threads, Release(t) PROVE IInv'
  BY <1>4, QuietStep, LoadIsTyped DEF Release, Goto, Typed, Labels, word
<1>5. ASSUME NEW t \in Threads, ReleaseLast(t) \/ Revive(t) PROVE IInv'
  BY <1>5, QuietStep DEF ReleaseLast, Revive, Goto, Typed, Labels
<1>6. ASSUME NEW t \in Threads, Finalized(t) PROVE IInv'
  <2>1. \E l \in {"kill", "revive"} : Goto(t, l) BY <1>6 DEF Finalized
  <2> QED BY <1>6, <2>1, QuietStep, LoadIsTyped
    DEF Finalized, Goto, Typed, Labels, word
<1>7. ASSUME NEW t \in Threads, NEW u \in Threads, Give(t, u) PROVE IInv'
  BY <1>7, QuietStep DEF Give, Typed, Labels, word
<1>8. CASE UNCHANGED vars
  BY <1>8 DEF vars, word, IInv, Typed, LockProtects, TableAgrees, CountIsExact,
              Count
<1> QED
  BY <1>1, <1>2, <1>3, <1>4, <1>5, <1>6, <1>7, <1>8, RetainSwapKeeps,
     ReleaseSwapKeeps, UpdateTableKeeps, KillKeeps DEF Next

\* The count of an object is that of its references, for all threads and all
\* widths of the fields, whatever carries to the table are under way
\* (_CFRetain, _CFRelease).
THEOREM CountCorrect == Spec => []CountIsExact
PROOF
<1>1. IInv => CountIsExact BY DEF IInv
<1> QED BY <1>1, InitHolds, NextHolds, PTL DEF Spec
-----------------------------------------------------------------------------
(* An object is finalized by one thread at a time and given back once, when  *)
(* no one holds it.  The argument counts who holds it: each reference a       *)
(* thread owns, the one it is releasing and the last one, which the finalizer *)
(* keeps, is an element of a set, whose cardinality is that of the references *)
(* until the count has become that of a constant object.                      *)

HeldBy(own, at, inside) ==
  {h \in Threads \X Int :
     \/ h[2] >= 0 /\ h[2] < own[h[1]]
     \/ h[2] = -1 /\ at[h[1]] = "release"
     \/ h[2] = -2 /\ (inside[h[1]] \/ at[h[1]] \in {"kill", "revive"})}
Held == HeldBy(owned, pc, within)

IsConstant == Is64 /\ field = 0 /\ ~freed

HoldersAreCounted == ~IsConstant => IsFiniteSet(Held) /\ Cardinality(Held) = refs

\* Where a thread is within the finalizer, and that it has what it retains.
PlacesAgree ==
  \A t \in Threads :
    /\ within[t] => pc[t] \in {"finalizer", "retain", "table", "release"}
    /\ pc[t] = "finalizer" => within[t]
    /\ pc[t] = "retain" => owned[t] > 0 \/ within[t]

\* While one finalizes, weak references are refused; what is about to be given
\* back has its last reference.
FinalizingIsDying ==
  \A t \in Threads :
    /\ within[t] \/ pc[t] \in {"kill", "revive"} => dying
    /\ pc[t] = "kill" => field = 1

OneFinalizes ==
  \A t, u \in Threads :
    /\ within[t] \/ pc[t] \in {"kill", "revive"}
    /\ within[u] \/ pc[u] \in {"kill", "revive"}
    => t = u

FreedIsDead == dead = freed /\ (freed => Held = {})

\* A thread that has seen the count of a constant object has seen what stays.
SeenConstantStays ==
  \A t \in Threads :
    /\ seen[t][3] => freed
    /\ seen[t][1] = 0 => freed \/ field = 0
    /\ seen[t][1] = 0 /\ freed => seen[t][3]

NeverZero == ~Is64 /\ ~freed => field # 0

EndInv ==
  /\ owned \in [Threads -> Nat]
  /\ HoldersAreCounted /\ PlacesAgree /\ FinalizingIsDying /\ OneFinalizes
  /\ FreedIsDead /\ SeenConstantStays /\ NeverZero

\* The elements a thread stands for.
LEMMA Holders ==
  ASSUME NEW t \in Threads
  PROVE  /\ owned \in [Threads -> Nat] /\ owned[t] > 0 => <<t, 0>> \in Held
         /\ pc[t] = "release" <=> <<t, -1>> \in Held
         /\ within[t] \/ pc[t] \in {"kill", "revive"} <=> <<t, -2>> \in Held
PROOF
  BY DEF Held, HeldBy

\* Whoever holds the object whose count is one is alone.
LEMMA LastIsAlone ==
  ASSUME IInv, EndInv, field = 1, ~freed, NEW x \in Held, NEW y \in Held
  PROVE  x = y
PROOF
<1>1. Half \in Nat /\ Half > 1 BY CountAssumption
<1>2. ~IsConstant BY DEF IsConstant
<1>3. refs = 1
  BY <1>1 DEF IInv, CountIsExact, Count, InTable
<1>4. IsFiniteSet(Held) /\ Cardinality(Held) = 1
  BY <1>2, <1>3 DEF EndInv, HoldersAreCounted
<1>5. \E z : Held = {z} BY <1>4, FS_Singleton
<1> QED BY <1>5

\* A thread that has passed what TryRetain refuses works on a live object.
LEMMA WorksOnLive ==
  ASSUME IInv, EndInv, NEW t \in Threads,
         \/ Retaining(t) /\ (IsCurrent(t) \/ seen[t][1] = 0)
         \/ pc[t] \in {"release", "finalizer", "kill", "revive"}
         \/ owned[t] > 0
  PROVE  ~freed
PROOF
<1>1. SUFFICES ASSUME freed PROVE FALSE OBVIOUS
<1>2. Held = {} /\ dead BY <1>1 DEF EndInv, FreedIsDead
<1>3. owned[t] = 0 /\ ~within[t] /\ pc[t] \notin {"release", "kill", "revive"}
  BY <1>2, Holders DEF EndInv
<1>4. pc[t] \notin {"finalizer", "retain"}
  BY <1>3 DEF EndInv, PlacesAgree
<1>5. Retaining(t) /\ (IsCurrent(t) \/ seen[t][1] = 0) /\ pc[t] = "try"
  BY <1>3, <1>4 DEF Retaining, At, EndInv
<1>6. ~seen[t][3] BY <1>5 DEF Retaining, Refused, At
<1>7. ~IsCurrent(t)
  <2>1. word[3] = dead BY DEF word
  <2>2. seen[t] # word BY <2>1, <1>2, <1>6
  <2> QED BY <2>2 DEF IsCurrent
<1> QED BY <1>1, <1>5, <1>6, <1>7 DEF EndInv, SeenConstantStays

\* What a thread sees of an object is what there is.
LEMMA LoadSees ==
  ASSUME EndInv, NEW t \in Threads, Load(t) \/ seen' = seen,
         UNCHANGED <<field, freed>>, seen \in [Threads -> Fields \X BOOLEAN \X BOOLEAN]
  PROVE  SeenConstantStays'
PROOF
<1>1. CASE seen' = seen BY <1>1 DEF EndInv, SeenConstantStays
<1>2. CASE Load(t)
  <2>1. \A u \in Threads : seen'[u] = IF u = t THEN word ELSE seen[u]
    BY <1>2 DEF Load
  <2>2. word[1] = field /\ word[3] = dead BY DEF word
  <2> QED BY <2>1, <2>2 DEF EndInv, SeenConstantStays, FreedIsDead
<1> QED BY <1>1, <1>2

\* A step that changes none of who holds the object, nor the count.
LEMMA SameHolders ==
  ASSUME IInv, EndInv, NEW t \in Threads, owned' = owned,
         UNCHANGED <<field, dead, freed, refs, dying>>,
         Held' = Held, PlacesAgree', SeenConstantStays',
         pc'[t] = "kill" => field = 1,
         \A u \in Threads \ {t} : pc'[u] = pc[u] /\ within'[u] = within[u],
         within'[t] \/ pc'[t] \in {"kill", "revive"} =>
           within[t] \/ pc[t] \in {"kill", "revive"}
  PROVE  EndInv'
PROOF
<1>1. HoldersAreCounted' BY DEF EndInv, HoldersAreCounted, IsConstant
<1>2. FinalizingIsDying' BY DEF EndInv, FinalizingIsDying
<1>3. OneFinalizes' BY DEF EndInv, OneFinalizes
<1>4. FreedIsDead' BY DEF EndInv, FreedIsDead
<1>5. NeverZero' BY DEF EndInv, NeverZero
<1> QED BY <1>1, <1>2, <1>3, <1>4, <1>5 DEF EndInv

\* One element in another's place.
LEMMA InItsPlace ==
  ASSUME NEW S, IsFiniteSet(S), NEW x \in S, NEW y, y \notin S
  PROVE  /\ IsFiniteSet((S \ {x}) \cup {y})
         /\ Cardinality((S \ {x}) \cup {y}) = Cardinality(S)
PROOF
<1> DEFINE R == S \ {x}
<1>1. IsFiniteSet(R) /\ Cardinality(R) = Cardinality(S) - 1
  BY FS_RemoveElement
<1>2. y \notin R OBVIOUS
<1>3. IsFiniteSet(R \cup {y}) /\ Cardinality(R \cup {y}) = Cardinality(R) + 1
  <2> HIDE DEF R
  <2> QED BY <1>1, <1>2, FS_AddElement
<1>4. Cardinality(S) \in Nat BY FS_CardinalityType
<1> QED BY <1>1, <1>3, <1>4

\* A retain or a release of an object that has become constant changes nothing.
LEMMA ConstantIsLeft ==
  ASSUME IInv, EndInv, NEW t \in Threads, RetainConstant(t) \/ ReleaseConstant(t)
  PROVE  EndInv'
PROOF
<1>1. /\ UNCHANGED <<field, dying, dead, freed, seen, within>> /\ Return(t)
      /\ seen[t][1] = 0 /\ (Retaining(t) \/ pc[t] = "release")
  BY DEF RetainConstant, ReleaseConstant, word, At
<1>2. ~freed BY <1>1, WorksOnLive
<1>3. field = 0 /\ Is64
  BY <1>1, <1>2 DEF EndInv, SeenConstantStays, NeverZero
<1>4. IsConstant' BY <1>1, <1>2, <1>3 DEF IsConstant
<1>5. HoldersAreCounted' BY <1>4 DEF HoldersAreCounted
<1>6. owned' \in [Threads -> Nat]
  BY DEF RetainConstant, ReleaseConstant, EndInv
<1>7. /\ pc[t] \in {"retain", "try", "release"}
      /\ pc' = [pc EXCEPT ![t] = IF within[t] THEN "finalizer" ELSE "idle"]
  BY <1>1 DEF Return, Goto, Retaining, At
<1>8. \A u \in Threads : u # t => pc'[u] = pc[u] /\ owned'[u] = owned[u]
  BY <1>7 DEF RetainConstant, ReleaseConstant, EndInv, IInv, Typed
<1>9. pc'[t] = IF within[t] THEN "finalizer" ELSE "idle"
  BY <1>7 DEF IInv, Typed
<1>10. PlacesAgree' BY <1>1, <1>8, <1>9 DEF EndInv, PlacesAgree
<1>11. FinalizingIsDying' BY <1>1, <1>7, <1>8, <1>9 DEF EndInv, FinalizingIsDying
<1>12. OneFinalizes' BY <1>1, <1>7, <1>8, <1>9 DEF EndInv, OneFinalizes
<1>13. FreedIsDead' BY <1>1, <1>2 DEF EndInv, FreedIsDead
<1>14. SeenConstantStays' /\ NeverZero'
  BY <1>1 DEF EndInv, SeenConstantStays, NeverZero
<1> QED BY <1>5, <1>6, <1>10, <1>11, <1>12, <1>13, <1>14 DEF EndInv

\* The steps that leave alone who holds the object.
LEMMA StepsThatHoldTheSame ==
  ASSUME IInv, EndInv, NEW t \in Threads,
         \/ Retain(t) \/ TryRetain(t) \/ TryFails(t) \/ UpdateTable(t)
         \/ SwapFails(t) \/ Finalized(t)
  PROVE  EndInv'
PROOF
<1>1. UNCHANGED <<field, dead, freed, refs, dying, owned>>
  BY DEF Retain, TryRetain, TryFails, UpdateTable, SwapFails, Finalized, word
<1>2. Load(t) \/ seen' = seen
  BY DEF Retain, TryRetain, TryFails, UpdateTable, SwapFails, Finalized
<1>3. SeenConstantStays' BY <1>1, <1>2, LoadSees DEF IInv, Typed
<1>4. /\ pc \in [Threads -> Labels] /\ within \in [Threads -> BOOLEAN]
  BY DEF IInv, Typed
<1>5. /\ \A u \in Threads \ {t} : pc'[u] = pc[u] /\ within'[u] = within[u]
      /\ pc'[t] = "release" <=> pc[t] = "release"
      /\ within'[t] \/ pc'[t] \in {"kill", "revive"} <=>
           within[t] \/ pc[t] \in {"kill", "revive"}
  <2>1. CASE Retain(t) \/ TryRetain(t)
    BY <2>1, <1>4 DEF Retain, TryRetain, Goto, MayCall, At
  <2>2. CASE TryFails(t) \/ UpdateTable(t)
    BY <2>2, <1>4 DEF TryFails, UpdateTable, Return, Goto, At
  <2>3. CASE SwapFails(t) BY <2>3 DEF SwapFails
  <2>4. CASE Finalized(t)
    BY <2>4, <1>4 DEF Finalized, Goto, At, EndInv, PlacesAgree
  <2> QED BY <2>1, <2>2, <2>3, <2>4
<1>6. Held' = Held BY <1>1, <1>5 DEF Held, HeldBy
<1>7. PlacesAgree'
  <2>1. CASE Retain(t) \/ TryRetain(t)
    BY <2>1, <1>4 DEF Retain, TryRetain, Goto, MayCall, At, EndInv, PlacesAgree
  <2>2. CASE TryFails(t) \/ UpdateTable(t)
    BY <2>2, <1>4 DEF TryFails, UpdateTable, Return, Goto, At, EndInv, PlacesAgree
  <2>3. CASE SwapFails(t) BY <2>3 DEF SwapFails, EndInv, PlacesAgree
  <2>4. CASE Finalized(t)
    BY <2>4, <1>4 DEF Finalized, Goto, At, EndInv, PlacesAgree
  <2> QED BY <2>1, <2>2, <2>3, <2>4
<1>8. pc'[t] = "kill" => field = 1
  <2>1. CASE Finalized(t) BY <2>1, <1>4 DEF Finalized, Goto, IsLast
  <2>2. CASE SwapFails(t) BY <2>2 DEF SwapFails, EndInv, FinalizingIsDying
  <2>3. CASE Retain(t) \/ TryRetain(t) \/ TryFails(t) \/ UpdateTable(t)
    BY <2>3, <1>4 DEF Retain, TryRetain, TryFails, UpdateTable, Goto, Return
  <2> QED BY <2>1, <2>2, <2>3
<1> QED BY <1>1, <1>3, <1>5, <1>6, <1>7, <1>8, SameHolders

LEMMA RetainSwapEnds ==
  ASSUME IInv, EndInv, NEW t \in Threads, RetainSwap(t)
  PROVE  EndInv'
PROOF
<1> DEFINE x == <<t, owned[t]>>
<1>1. /\ UNCHANGED <<dying, dead, freed, seen, within>> /\ refs' = refs + 1
      /\ owned' = [owned EXCEPT ![t] = @ + 1] /\ field # 0
      /\ field' = Incremented(field) /\ Retaining(t) /\ IsCurrent(t)
  BY DEF RetainSwap, IsCurrent, word
<1>2. ~freed BY <1>1, WorksOnLive
<1>3. /\ pc \in [Threads -> Labels] /\ within \in [Threads -> BOOLEAN]
      /\ owned \in [Threads -> Nat] /\ field \in Fields
  BY DEF IInv, Typed, EndInv
<1>4. /\ pc[t] \in {"retain", "try"}
      /\ pc'[t] \in {"table", IF within[t] THEN "finalizer" ELSE "idle"}
      /\ \A u \in Threads \ {t} : pc'[u] = pc[u] /\ owned'[u] = owned[u]
      /\ owned'[t] = owned[t] + 1
  BY <1>1, <1>3 DEF RetainSwap, Goto, Return, Retaining, At
<1>5. Held' = Held \cup {x} /\ x \notin Held
  <2>1. \A h \in Threads \X Int : h = x <=> h[1] = t /\ h[2] = owned[t]
    BY <1>3
  <2>2. x \in Threads \X Int BY <1>3
  <2>3. \A h \in Threads \X Int : h \in Held' <=> h \in Held \/ h = x
    BY <1>1, <1>3, <1>4, <2>1 DEF Held, HeldBy
  <2>4. x \notin Held BY <1>3, <1>4 DEF Held, HeldBy
  <2>5. Held' \subseteq Threads \X Int /\ Held \subseteq Threads \X Int
    BY DEF Held, HeldBy
  <2> QED BY <2>2, <2>3, <2>4, <2>5
<1>6. HoldersAreCounted'
  <2>1. ~IsConstant BY <1>1 DEF IsConstant
  <2>2. IsFiniteSet(Held) /\ Cardinality(Held) = refs
    BY <2>1 DEF EndInv, HoldersAreCounted
  <2>3. IsFiniteSet(Held \cup {x}) /\ Cardinality(Held \cup {x}) = refs + 1
    BY <2>2, <1>5, FS_AddElement
  <2> QED BY <2>3, <1>1, <1>5 DEF HoldersAreCounted
<1>7. PlacesAgree' BY <1>1, <1>4 DEF EndInv, PlacesAgree
<1>8. \A u \in Threads : pc[u] # "kill"
  <2>1. SUFFICES ASSUME NEW u \in Threads, pc[u] = "kill" PROVE FALSE OBVIOUS
  <2>2. field = 1 /\ dying BY <2>1 DEF EndInv, FinalizingIsDying
  <2>3. pc[t] = "retain"
    <3>1. word[2] = dying BY DEF word
    <3>2. seen[t][2] BY <3>1, <2>2, <1>1 DEF IsCurrent
    <3> QED BY <3>2, <1>1 DEF Retaining, Refused, At
  <2>4. <<u, -2>> \in Held BY <2>1, Holders
  <2>5. <<t, 0>> \in Held \/ <<t, -2>> \in Held
    BY <2>3, <1>3, Holders DEF EndInv, PlacesAgree
  <2>6. t # u BY <2>1, <2>3
  <2> QED BY <2>2, <2>4, <2>5, <2>6, <1>2, LastIsAlone
<1>9. FinalizingIsDying' BY <1>1, <1>4, <1>8 DEF EndInv, FinalizingIsDying
<1>10. OneFinalizes' BY <1>1, <1>4 DEF EndInv, OneFinalizes
<1>11. FreedIsDead' BY <1>1, <1>2 DEF EndInv, FreedIsDead
<1>12. SeenConstantStays' BY <1>1, <1>2 DEF EndInv, SeenConstantStays
<1>13. NeverZero'
  BY <1>1, <1>3, CountAssumption
  DEF NeverZero, Incremented, Carries, InTable, Fields
<1>14. owned' \in [Threads -> Nat] BY <1>1, <1>3
<1> QED
  BY <1>6, <1>7, <1>9, <1>10, <1>11, <1>12, <1>13, <1>14 DEF EndInv

LEMMA ReleaseEnds ==
  ASSUME IInv, EndInv, NEW t \in Threads, Release(t)
  PROVE  EndInv'
PROOF
<1> DEFINE x == <<t, owned[t] - 1>>
           y == <<t, -1>>
<1>1. /\ UNCHANGED <<field, dying, dead, freed, within, refs>>
      /\ owned' = [owned EXCEPT ![t] = @ - 1] /\ owned[t] > 0 /\ MayCall(t)
      /\ Goto(t, "release") /\ Load(t)
  BY DEF Release, word
<1>2. ~freed BY <1>1, WorksOnLive
<1>3. /\ pc \in [Threads -> Labels] /\ within \in [Threads -> BOOLEAN]
      /\ owned \in [Threads -> Nat]
  BY DEF IInv, Typed, EndInv
<1>4. /\ pc[t] \in {"idle", "finalizer"} /\ pc'[t] = "release"
      /\ \A u \in Threads \ {t} : pc'[u] = pc[u] /\ owned'[u] = owned[u]
      /\ owned'[t] = owned[t] - 1 /\ owned[t] - 1 \in Nat
  BY <1>1, <1>3 DEF Goto, MayCall, At
<1>5. Held' = (Held \ {x}) \cup {y} /\ x \in Held /\ y \notin Held
  <2>1. \A h \in Threads \X Int :
          /\ h = x <=> h[1] = t /\ h[2] = owned[t] - 1
          /\ h = y <=> h[1] = t /\ h[2] = -1
    BY <1>3
  <2>2. x \in Threads \X Int /\ y \in Threads \X Int BY <1>3
  <2>3. \A h \in Threads \X Int : h \in Held' <=> (h \in Held /\ h # x) \/ h = y
    BY <1>1, <1>3, <1>4, <2>1 DEF Held, HeldBy
  <2>4. x \in Held /\ y \notin Held BY <1>3, <1>4, <2>2 DEF Held, HeldBy
  <2>5. Held' \subseteq Threads \X Int /\ Held \subseteq Threads \X Int
    BY DEF Held, HeldBy
  <2> QED BY <2>2, <2>3, <2>4, <2>5
<1>6. HoldersAreCounted'
  <2>1. ASSUME ~IsConstant
        PROVE  IsFiniteSet(Held') /\ Cardinality(Held') = refs
    BY <2>1, <1>5, InItsPlace DEF EndInv, HoldersAreCounted
  <2> QED BY <2>1, <1>1 DEF HoldersAreCounted, IsConstant
<1>7. PlacesAgree' BY <1>1, <1>4 DEF EndInv, PlacesAgree
<1>8. FinalizingIsDying' BY <1>1, <1>4 DEF EndInv, FinalizingIsDying
<1>9. OneFinalizes' BY <1>1, <1>4 DEF EndInv, OneFinalizes
<1>10. FreedIsDead' BY <1>1, <1>2 DEF EndInv, FreedIsDead
<1>11. SeenConstantStays' BY <1>1, LoadSees DEF IInv, Typed
<1>12. NeverZero' BY <1>1 DEF EndInv, NeverZero
<1>13. owned' \in [Threads -> Nat] BY <1>1, <1>3
<1> QED
  BY <1>6, <1>7, <1>8, <1>9, <1>10, <1>11, <1>12, <1>13 DEF EndInv

LEMMA ReleaseSwapEnds ==
  ASSUME IInv, EndInv, NEW t \in Threads, ReleaseSwap(t)
  PROVE  EndInv'
PROOF
<1> DEFINE x == <<t, -1>>
<1>1. /\ UNCHANGED <<dying, dead, freed, seen, within, owned>> /\ refs' = refs - 1
      /\ field # 0 /\ field # 1 /\ field' = Decremented(field, table)
      /\ pc[t] = "release"
  BY DEF ReleaseSwap, IsCurrent, IsLast, At, word
<1>2. ~freed BY <1>1, WorksOnLive
<1>3. /\ pc \in [Threads -> Labels] /\ within \in [Threads -> BOOLEAN]
      /\ owned \in [Threads -> Nat] /\ field \in Fields
  BY DEF IInv, Typed, EndInv
<1>4. /\ pc'[t] \in {"table", IF within[t] THEN "finalizer" ELSE "idle"}
      /\ \A u \in Threads \ {t} : pc'[u] = pc[u]
  BY <1>1, <1>3 DEF ReleaseSwap, Goto, Return
<1>5. Held' = Held \ {x} /\ x \in Held
  <2>1. \A h \in Threads \X Int : h = x <=> h[1] = t /\ h[2] = -1
    BY <1>3
  <2>2. \A h \in Threads \X Int : h \in Held' <=> h \in Held /\ h # x
    BY <1>1, <1>3, <1>4, <2>1 DEF Held, HeldBy
  <2>3. x \in Held BY <1>1, Holders
  <2>4. Held' \subseteq Threads \X Int /\ Held \subseteq Threads \X Int
    BY DEF Held, HeldBy
  <2> QED BY <2>2, <2>3, <2>4
<1>6. HoldersAreCounted'
  <2>1. ~IsConstant BY <1>1 DEF IsConstant
  <2>2. IsFiniteSet(Held) /\ Cardinality(Held) = refs
    BY <2>1 DEF EndInv, HoldersAreCounted
  <2>3. IsFiniteSet(Held \ {x}) /\ Cardinality(Held \ {x}) = refs - 1
    BY <2>2, <1>5, FS_RemoveElement
  <2> QED BY <2>3, <1>1, <1>5 DEF HoldersAreCounted
<1>7. PlacesAgree' BY <1>1, <1>4 DEF EndInv, PlacesAgree
<1>8. FinalizingIsDying' BY <1>1, <1>4 DEF EndInv, FinalizingIsDying
<1>9. OneFinalizes' BY <1>1, <1>4 DEF EndInv, OneFinalizes
<1>10. FreedIsDead' BY <1>1, <1>2 DEF EndInv, FreedIsDead
<1>11. SeenConstantStays' BY <1>1, <1>2 DEF EndInv, SeenConstantStays
<1>12. NeverZero'
  BY <1>1, <1>3, CountAssumption
  DEF NeverZero, Decremented, Borrows, InTable, Fields
<1> QED
  BY <1>1, <1>3, <1>6, <1>7, <1>8, <1>9, <1>10, <1>11, <1>12 DEF EndInv

LEMMA ReleaseLastEnds ==
  ASSUME IInv, EndInv, NEW t \in Threads, ReleaseLast(t)
  PROVE  EndInv'
PROOF
<1> DEFINE x == <<t, -1>>
           y == <<t, -2>>
<1>1. /\ UNCHANGED <<field, dead, freed, seen, owned, refs>> /\ dying' = TRUE
      /\ field = 1 /\ pc[t] = "release" /\ Goto(t, "finalizer")
      /\ within' = [within EXCEPT ![t] = TRUE]
  BY DEF ReleaseLast, IsLast, At
<1>2. ~freed BY <1>1, WorksOnLive
<1>3. /\ pc \in [Threads -> Labels] /\ within \in [Threads -> BOOLEAN]
      /\ owned \in [Threads -> Nat]
  BY DEF IInv, Typed, EndInv
<1>4. /\ pc'[t] = "finalizer" /\ within'[t] = TRUE
      /\ \A u \in Threads \ {t} : pc'[u] = pc[u] /\ within'[u] = within[u]
  BY <1>1, <1>3 DEF Goto
<1>5. \A u \in Threads : ~(within[u] \/ pc[u] \in {"kill", "revive"})
  <2>1. SUFFICES ASSUME NEW u \in Threads,
                        within[u] \/ pc[u] \in {"kill", "revive"}
                 PROVE  FALSE
    OBVIOUS
  <2>2. <<u, -2>> \in Held /\ x \in Held BY <2>1, <1>1, Holders
  <2>3. <<u, -2>> # x OBVIOUS
  <2> QED BY <2>2, <2>3, <1>1, <1>2, LastIsAlone
<1>6. Held' = (Held \ {x}) \cup {y} /\ x \in Held /\ y \notin Held
  <2>1. \A h \in Threads \X Int :
          /\ h = x <=> h[1] = t /\ h[2] = -1
          /\ h = y <=> h[1] = t /\ h[2] = -2
    BY <1>3
  <2>2. x \in Threads \X Int /\ y \in Threads \X Int BY <1>3
  <2>3. \A h \in Threads \X Int : h \in Held' <=> (h \in Held /\ h # x) \/ h = y
    BY <1>1, <1>3, <1>4, <1>5, <2>1 DEF Held, HeldBy
  <2>4. x \in Held /\ y \notin Held BY <1>1, <1>5, Holders
  <2>5. Held' \subseteq Threads \X Int /\ Held \subseteq Threads \X Int
    BY DEF Held, HeldBy
  <2> QED BY <2>2, <2>3, <2>4, <2>5
<1>7. HoldersAreCounted'
  <2>1. IsFiniteSet(Held) /\ Cardinality(Held) = refs
    BY <1>1 DEF EndInv, HoldersAreCounted, IsConstant
  <2>2. IsFiniteSet(Held') /\ Cardinality(Held') = refs
    BY <2>1, <1>6, InItsPlace
  <2> QED BY <2>2, <1>1 DEF HoldersAreCounted
<1>8. PlacesAgree' BY <1>1, <1>4 DEF EndInv, PlacesAgree
<1>9. FinalizingIsDying' BY <1>1, <1>4, <1>5 DEF FinalizingIsDying
<1>10. OneFinalizes' BY <1>4, <1>5 DEF OneFinalizes
<1>11. FreedIsDead' BY <1>1, <1>2 DEF EndInv, FreedIsDead
<1>12. SeenConstantStays' /\ NeverZero'
  BY <1>1 DEF EndInv, SeenConstantStays, NeverZero
<1> QED
  BY <1>1, <1>3, <1>7, <1>8, <1>9, <1>10, <1>11, <1>12 DEF EndInv

LEMMA KillEnds ==
  ASSUME IInv, EndInv, NEW t \in Threads, Kill(t)
  PROVE  EndInv' /\ field = 1 /\ ~freed
PROOF
<1> DEFINE x == <<t, -2>>
<1>1. /\ UNCHANGED <<dying, seen, within, owned>> /\ refs' = refs - 1
      /\ dead' = TRUE /\ freed' = TRUE /\ pc[t] = "kill" /\ Goto(t, "idle")
  BY DEF Kill, At
<1>2. ~freed BY <1>1, WorksOnLive
<1>3. /\ pc \in [Threads -> Labels] /\ within \in [Threads -> BOOLEAN]
      /\ owned \in [Threads -> Nat]
  BY DEF IInv, Typed, EndInv
<1>4. /\ pc'[t] = "idle" /\ \A u \in Threads \ {t} : pc'[u] = pc[u]
  BY <1>1, <1>3 DEF Goto
<1>5. field = 1 /\ ~within[t]
  BY <1>1 DEF EndInv, FinalizingIsDying, PlacesAgree
<1>6. x \in Held BY <1>1, Holders
<1>7. Held = {x} BY <1>2, <1>5, <1>6, LastIsAlone
<1>8. Held' = {}
  <2>1. \A h \in Threads \X Int : h = x <=> h[1] = t /\ h[2] = -2
    BY <1>3
  <2>2. \A h \in Threads \X Int : h \in Held' => h \in Held /\ h # x
    BY <1>1, <1>3, <1>4, <1>5, <2>1 DEF Held, HeldBy
  <2>3. Held' \subseteq Threads \X Int BY DEF Held, HeldBy
  <2> QED BY <2>2, <2>3, <1>7
<1>9. HoldersAreCounted'
  <2>1. Cardinality(Held) = refs
    BY <1>5 DEF EndInv, HoldersAreCounted, IsConstant
  <2>2. refs = 1 BY <2>1, <1>7, FS_Singleton
  <2> QED BY <2>2, <1>1, <1>8, FS_EmptySet DEF HoldersAreCounted
<1>10. PlacesAgree' BY <1>1, <1>4, <1>5 DEF EndInv, PlacesAgree
<1>11. \A u \in Threads \ {t} : ~(within[u] \/ pc[u] \in {"kill", "revive"})
  BY <1>1 DEF EndInv, OneFinalizes
<1>12. FinalizingIsDying' /\ OneFinalizes'
  BY <1>1, <1>4, <1>5, <1>11 DEF FinalizingIsDying, OneFinalizes
<1>13. FreedIsDead' BY <1>1, <1>8 DEF FreedIsDead
<1>14. \A u \in Threads : seen[u][3] => freed
  BY DEF EndInv, SeenConstantStays
<1>15. \A u \in Threads : seen[u][1] # 0
  BY <1>2, <1>5 DEF EndInv, SeenConstantStays
<1>16. SeenConstantStays' BY <1>1, <1>15 DEF SeenConstantStays
<1>17. NeverZero' BY <1>1 DEF NeverZero
<1> QED
  BY <1>1, <1>2, <1>3, <1>5, <1>9, <1>10, <1>12, <1>13, <1>16, <1>17 DEF EndInv

LEMMA ReviveEnds ==
  ASSUME IInv, EndInv, NEW t \in Threads, Revive(t)
  PROVE  EndInv'
PROOF
<1> DEFINE x == <<t, -2>>
           y == <<t, -1>>
<1>1. /\ UNCHANGED <<field, dead, freed, seen, within, owned, refs>>
      /\ dying' = FALSE /\ pc[t] = "revive" /\ Goto(t, "release")
  BY DEF Revive, At
<1>2. ~freed BY <1>1, WorksOnLive
<1>3. /\ pc \in [Threads -> Labels] /\ within \in [Threads -> BOOLEAN]
      /\ owned \in [Threads -> Nat]
  BY DEF IInv, Typed, EndInv
<1>4. /\ pc'[t] = "release" /\ \A u \in Threads \ {t} : pc'[u] = pc[u]
  BY <1>1, <1>3 DEF Goto
<1>5. ~within[t] BY <1>1 DEF EndInv, PlacesAgree
<1>6. \A u \in Threads \ {t} : ~(within[u] \/ pc[u] \in {"kill", "revive"})
  BY <1>1 DEF EndInv, OneFinalizes
<1>7. Held' = (Held \ {x}) \cup {y} /\ x \in Held /\ y \notin Held
  <2>1. \A h \in Threads \X Int :
          /\ h = x <=> h[1] = t /\ h[2] = -2
          /\ h = y <=> h[1] = t /\ h[2] = -1
    BY <1>3
  <2>2. x \in Threads \X Int /\ y \in Threads \X Int BY <1>3
  <2>3. \A h \in Threads \X Int : h \in Held' <=> (h \in Held /\ h # x) \/ h = y
    BY <1>1, <1>3, <1>4, <1>5, <2>1 DEF Held, HeldBy
  <2>4. x \in Held /\ y \notin Held BY <1>1, Holders
  <2>5. Held' \subseteq Threads \X Int /\ Held \subseteq Threads \X Int
    BY DEF Held, HeldBy
  <2> QED BY <2>2, <2>3, <2>4, <2>5
<1>8. HoldersAreCounted'
  <2>1. ASSUME ~IsConstant
        PROVE  IsFiniteSet(Held') /\ Cardinality(Held') = refs
    BY <2>1, <1>7, InItsPlace DEF EndInv, HoldersAreCounted
  <2> QED BY <2>1, <1>1 DEF HoldersAreCounted, IsConstant
<1>9. PlacesAgree' BY <1>1, <1>4, <1>5 DEF EndInv, PlacesAgree
<1>10. FinalizingIsDying' /\ OneFinalizes'
  BY <1>1, <1>4, <1>5, <1>6 DEF FinalizingIsDying, OneFinalizes
<1>11. FreedIsDead' BY <1>1, <1>2 DEF EndInv, FreedIsDead
<1>12. SeenConstantStays' /\ NeverZero'
  BY <1>1 DEF EndInv, SeenConstantStays, NeverZero
<1> QED
  BY <1>1, <1>3, <1>8, <1>9, <1>10, <1>11, <1>12 DEF EndInv

LEMMA GiveEnds ==
  ASSUME IInv, EndInv, NEW t \in Threads, NEW u \in Threads, Give(t, u)
  PROVE  EndInv'
PROOF
<1> DEFINE x == <<t, owned[t] - 1>>
           y == <<u, owned[u]>>
<1>1. /\ UNCHANGED <<field, dying, dead, freed, seen, pc, within, refs>>
      /\ owned' = [owned EXCEPT ![t] = @ - 1, ![u] = @ + 1]
      /\ t # u /\ owned[t] > 0 /\ pc[t] # "retain"
  BY DEF Give, MayCall, At, word
<1>2. ~freed BY <1>1, WorksOnLive
<1>3. owned \in [Threads -> Nat] BY DEF EndInv
<1>4. /\ owned'[t] = owned[t] - 1 /\ owned'[u] = owned[u] + 1
      /\ \A v \in Threads \ {t, u} : owned'[v] = owned[v]
      /\ owned' \in [Threads -> Nat]
  BY <1>1, <1>3
<1>5. Held' = (Held \ {x}) \cup {y} /\ x \in Held /\ y \notin Held
  <2>1. \A h \in Threads \X Int :
          /\ h = x <=> h[1] = t /\ h[2] = owned[t] - 1
          /\ h = y <=> h[1] = u /\ h[2] = owned[u]
    BY <1>3
  <2>2. x \in Threads \X Int /\ y \in Threads \X Int BY <1>3
  <2>3. \A h \in Threads \X Int : h \in Held' <=> (h \in Held /\ h # x) \/ h = y
    BY <1>1, <1>3, <1>4, <2>1 DEF Held, HeldBy
  <2>4. x \in Held /\ y \notin Held BY <1>1, <1>3, <2>2 DEF Held, HeldBy
  <2>5. Held' \subseteq Threads \X Int /\ Held \subseteq Threads \X Int
    BY DEF Held, HeldBy
  <2> QED BY <2>2, <2>3, <2>4, <2>5
<1>6. HoldersAreCounted'
  <2>1. ASSUME ~IsConstant
        PROVE  IsFiniteSet(Held') /\ Cardinality(Held') = refs
    BY <2>1, <1>5, InItsPlace DEF EndInv, HoldersAreCounted
  <2> QED BY <2>1, <1>1 DEF HoldersAreCounted, IsConstant
<1>7. PlacesAgree' BY <1>1, <1>3, <1>4 DEF EndInv, PlacesAgree
<1>8. FinalizingIsDying' /\ OneFinalizes'
  BY <1>1 DEF EndInv, FinalizingIsDying, OneFinalizes
<1>9. FreedIsDead' BY <1>1, <1>2 DEF EndInv, FreedIsDead
<1>10. SeenConstantStays' /\ NeverZero'
  BY <1>1 DEF EndInv, SeenConstantStays, NeverZero
<1> QED BY <1>4, <1>6, <1>7, <1>8, <1>9, <1>10 DEF EndInv

LEMMA EndInvInit == Init => EndInv
PROOF
<1> SUFFICES ASSUME Init PROVE EndInv OBVIOUS
<1>1. /\ pc = [t \in Threads |-> "idle"] /\ within = [t \in Threads |-> FALSE]
      /\ seen = [t \in Threads |-> word] /\ refs = 1 /\ field = 1
      /\ dead = FALSE /\ freed = FALSE
  BY DEF Init
<1>2. PICK t \in Threads : owned = [u \in Threads |-> IF u = t THEN 1 ELSE 0]
  BY DEF Init
<1>3. Held = {<<t, 0>>}
  <2>1. \A h \in Threads \X Int : h = <<t, 0>> <=> h[1] = t /\ h[2] = 0
    OBVIOUS
  <2>2. \A h \in Threads \X Int : h \in Held <=> h = <<t, 0>>
    BY <1>1, <1>2, <2>1 DEF Held, HeldBy
  <2>3. Held \subseteq Threads \X Int BY DEF Held, HeldBy
  <2> QED BY <2>2, <2>3
<1>4. HoldersAreCounted BY <1>1, <1>3, FS_Singleton DEF HoldersAreCounted
<1>5. \A u \in Threads : seen[u][1] = 1 /\ seen[u][3] = FALSE
  BY <1>1 DEF word
<1>6. SeenConstantStays BY <1>5 DEF SeenConstantStays
<1>7. PlacesAgree /\ FinalizingIsDying /\ OneFinalizes
  BY <1>1 DEF PlacesAgree, FinalizingIsDying, OneFinalizes
<1>8. FreedIsDead
  <2>1. dead = FALSE /\ freed = FALSE BY <1>1
  <2> QED BY <2>1 DEF FreedIsDead
<1>9. NeverZero BY <1>1 DEF NeverZero
<1>10. owned \in [Threads -> Nat] BY <1>2
<1> QED BY <1>4, <1>6, <1>7, <1>8, <1>9, <1>10 DEF EndInv

LEMMA EndInvNext == IInv /\ EndInv /\ [Next]_vars => EndInv'
PROOF
<1> SUFFICES ASSUME IInv, EndInv, [Next]_vars PROVE EndInv' OBVIOUS
<1>1. CASE UNCHANGED vars
  BY <1>1 DEF vars, word, EndInv, HoldersAreCounted, IsConstant, Held,
     PlacesAgree, FinalizingIsDying, OneFinalizes, FreedIsDead,
     SeenConstantStays, NeverZero
<1>2. CASE Next
  BY <1>2, ConstantIsLeft, StepsThatHoldTheSame, RetainSwapEnds, ReleaseEnds,
     ReleaseSwapEnds, ReleaseLastEnds, KillEnds, ReviveEnds, GiveEnds DEF Next
<1> QED BY <1>1, <1>2

\* In 64-bit builds, and when the memory is given back, the table has nothing.
TableIsEmpty == Is64 \/ freed => table + owed = 0

LEMMA TableIsEmptyNext == IInv /\ EndInv /\ TableIsEmpty /\ [Next]_vars => TableIsEmpty'
PROOF
<1> SUFFICES ASSUME IInv, EndInv, TableIsEmpty, [Next]_vars PROVE TableIsEmpty'
  OBVIOUS
<1>1. ASSUME NEW t \in Threads, RetainSwap(t) \/ ReleaseSwap(t) PROVE TableIsEmpty'
  <2>1. ~freed
    BY <1>1, WorksOnLive DEF RetainSwap, ReleaseSwap, At
  <2>2. freed' = freed BY <1>1 DEF RetainSwap, ReleaseSwap
  <2>3. Is64 => UNCHANGED <<table, owed>>
    BY <1>1 DEF RetainSwap, ReleaseSwap, Carries, Borrows
  <2> QED BY <2>1, <2>2, <2>3 DEF TableIsEmpty
<1>2. ASSUME NEW t \in Threads, UpdateTable(t) PROVE TableIsEmpty'
  BY <1>2 DEF UpdateTable, TableIsEmpty, IInv, Typed
<1>3. ASSUME NEW t \in Threads, Kill(t) PROVE TableIsEmpty'
  <2>1. field = 1 /\ ~freed BY <1>3, KillEnds
  <2>2. UNCHANGED <<table, owed>> BY <1>3 DEF Kill
  <2>3. 1 < InTable BY CountAssumption DEF InTable
  <2> QED BY <2>1, <2>2, <2>3 DEF TableIsEmpty, IInv, TableAgrees
<1>4. CASE UNCHANGED <<table, owed, freed>> BY <1>4 DEF TableIsEmpty
<1>5. \/ UNCHANGED <<table, owed, freed>>
      \/ \E t \in Threads :
           RetainSwap(t) \/ ReleaseSwap(t) \/ UpdateTable(t) \/ Kill(t)
  BY DEF vars, Next, Retain, TryRetain, TryFails, RetainConstant, SwapFails,
     Release, ReleaseConstant, ReleaseLast, Finalized, Revive, Give
<1> QED BY <1>1, <1>2, <1>3, <1>4, <1>5

\* Memory that is given back has no reference and no entry in the table, and no
\* thread works on it; one thread at a time finalizes the object; and an object
\* without references is given back unless it has become constant: none is lost
\* and none is given back twice, resurrections and weak references
\* notwithstanding (CFRuntime.c:1589-1632).
THEOREM EndCorrect == Spec => []ObjectsEndOnce
PROOF
<1>1. IInv /\ EndInv /\ TableIsEmpty => ObjectsEndOnce
  <2> SUFFICES ASSUME IInv, EndInv, TableIsEmpty PROVE ObjectsEndOnce OBVIOUS
  <2>1. FinalizersDoNotOverlap
    BY DEF EndInv, OneFinalizes, FinalizersDoNotOverlap, Finalizing
  <2>2. FreedIsUnreferenced
    <3>1. SUFFICES ASSUME freed PROVE FreedIsUnreferenced
      BY DEF FreedIsUnreferenced
    <3>2. \A t \in Threads :
            owned[t] = 0 /\ pc[t] \notin {"retain", "release", "finalizer",
                                          "kill", "revive"}
      <4> SUFFICES ASSUME NEW t \in Threads
                   PROVE  owned[t] = 0 /\ pc[t] \notin {"retain", "release",
                            "finalizer", "kill", "revive"}
        OBVIOUS
      <4>1. Held = {} BY <3>1 DEF EndInv, FreedIsDead
      <4>2. owned[t] \in Nat BY DEF EndInv
      <4>3. /\ owned[t] = 0 /\ ~within[t]
            /\ pc[t] \notin {"release", "kill", "revive"}
        BY <4>1, <4>2, Holders DEF EndInv
      <4> QED BY <4>2, <4>3 DEF EndInv, PlacesAgree
    <3>3. table + owed = 0 BY <3>1 DEF TableIsEmpty
    <3> QED BY <3>1, <3>2, <3>3 DEF FreedIsUnreferenced
  <2>3. UnreferencedIsFreed
    <3>1. SUFFICES ASSUME \A t \in Threads : owned[t] = 0 /\ pc[t] = "idle",
                          ~freed, field # 0
                   PROVE  FALSE
      BY DEF UnreferencedIsFreed, At
    <3>2. Held = {} BY <3>1 DEF Held, HeldBy, EndInv, PlacesAgree
    <3>3. refs = 0
      BY <3>1, <3>2, FS_EmptySet DEF EndInv, HoldersAreCounted, IsConstant
    <3>4. Half \in Nat /\ Half > 1 BY CountAssumption
    <3>5. CASE Is64 BY <3>1, <3>3, <3>5 DEF IInv, CountIsExact, Count
    <3>6. CASE ~Is64 /\ field < InTable
      BY <3>1, <3>3, <3>6 DEF IInv, CountIsExact, Count
    <3>7. CASE ~Is64 /\ ~(field < InTable)
      <4>1. table + owed \in Int /\ table + owed >= 1
        BY <3>1, <3>4, <3>7 DEF IInv, TableAgrees, Typed, Fields, InTable
      <4> DEFINE e == table + owed
      <4>2. \A n \in Int : n >= 1 => Half * n >= Half BY <3>4
      <4>3. Half * e >= Half /\ Half * e \in Int BY <4>1, <4>2, <3>4
      <4>4. field - InTable + Half * e = 0
        BY <3>1, <3>3, <3>7 DEF IInv, CountIsExact, Count
      <4> HIDE DEF e
      <4> QED BY <4>3, <4>4, <3>4, <3>7 DEF IInv, Typed, Fields, InTable
    <3> QED BY <3>5, <3>6, <3>7
  <2> QED BY <2>1, <2>2, <2>3 DEF ObjectsEndOnce
<1>2. Init => TableIsEmpty BY DEF Init, TableIsEmpty
<1> QED
  BY <1>1, <1>2, InitHolds, NextHolds, EndInvInit, EndInvNext, TableIsEmptyNext,
     PTL DEF Spec
=============================================================================
