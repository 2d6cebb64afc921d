--------------------------- MODULE MachPortProofs ---------------------------
(* What holds of any instance of MachPort: the references to every object  *)
(* are counted, an invalidation callback is called once, and the objects,  *)
(* their sources and the rights of their ports agree.                      *)
EXTENDS MachPort, TLAPS, FiniteSetTheorems, SequenceTheorems

----------------------------------------------------------------------------
(* Sequences without repetitions. *)

LEMMA AppendedIsInjective ==
  ASSUME NEW S, NEW s \in Seq(S), IsInjective(s), NEW e \in S, e \notin ToSet(s)
  PROVE  /\ Append(s, e) \in Seq(S) /\ IsInjective(Append(s, e))
         /\ ToSet(Append(s, e)) = ToSet(s) \cup {e}
  <1>1. /\ Append(s, e) \in Seq(S) /\ Len(Append(s, e)) = Len(s) + 1
        /\ \A i \in 1..Len(s) : Append(s, e)[i] = s[i]
        /\ Append(s, e)[Len(s) + 1] = e
    BY AppendProperties
  <1>2. DOMAIN Append(s, e) = 1..(Len(s) + 1) /\ DOMAIN s = 1..Len(s) /\ Len(s) \in Nat
    BY <1>1
  <1>3. 1..(Len(s) + 1) = 1..Len(s) \cup {Len(s) + 1}
    BY <1>2
  <1> HIDE DEF ToSet
  <1>4. \A x \in S : x \in ToSet(s) <=> \E i \in 1..Len(s) : s[i] = x
    BY <1>2 DEF ToSet
  <1>5. IsInjective(Append(s, e))
    BY <1>1, <1>2, <1>3 DEF IsInjective, ToSet
  <1>6. ToSet(Append(s, e)) = ToSet(s) \cup {e}
    BY <1>1, <1>2, <1>3 DEF ToSet
  <1> QED
    BY <1>1, <1>5, <1>6

LEMMA TailIsInjective ==
  ASSUME NEW S, NEW s \in Seq(S), s # <<>>, IsInjective(s)
  PROVE  /\ Tail(s) \in Seq(S) /\ IsInjective(Tail(s)) /\ Head(s) \in ToSet(s)
         /\ Head(s) \in S /\ ToSet(Tail(s)) = ToSet(s) \ {Head(s)}
  <1>1. /\ Tail(s) \in Seq(S) /\ Len(Tail(s)) = Len(s) - 1 /\ Head(s) \in S
        /\ \A i \in 1..Len(Tail(s)) : Tail(s)[i] = s[i + 1]
    BY HeadTailProperties
  <1>2. /\ DOMAIN s = 1..Len(s) /\ DOMAIN Tail(s) = 1..(Len(s) - 1)
        /\ Len(s) \in Nat /\ Len(s) >= 1 /\ Head(s) = s[1]
    BY <1>1, EmptySeq
  <1>3. \A i \in 1..(Len(s) - 1) : Tail(s)[i] = s[i + 1] /\ i + 1 \in 1..Len(s) /\ i + 1 # 1
    BY <1>1, <1>2
  <1>4. \A j \in 1..Len(s) : j # 1 => j - 1 \in 1..(Len(s) - 1) /\ Tail(s)[j - 1] = s[j]
    BY <1>2, <1>3
  <1>5. IsInjective(Tail(s))
    <2> SUFFICES ASSUME NEW i \in 1..(Len(s) - 1), NEW j \in 1..(Len(s) - 1), Tail(s)[i] = Tail(s)[j]
                 PROVE  i = j
      BY <1>2 DEF IsInjective
    <2>1. s[i + 1] = s[j + 1] /\ i + 1 \in DOMAIN s /\ j + 1 \in DOMAIN s
      BY <1>2, <1>3
    <2>2. i + 1 = j + 1
      BY <2>1 DEF IsInjective
    <2> QED
      BY <2>2
  <1>6. \A j \in 1..Len(s) : j # 1 => s[j] # s[1]
    BY <1>2 DEF IsInjective
  <1>7. ToSet(Tail(s)) = ToSet(s) \ {Head(s)}
    <2>1. ToSet(s) = {s[j] : j \in 1..Len(s)} /\ ToSet(Tail(s)) = {Tail(s)[i] : i \in 1..(Len(s) - 1)}
      BY <1>2 DEF ToSet
    <2>2. \A x : x \in ToSet(Tail(s)) => x \in ToSet(s) /\ x # Head(s)
      BY <2>1, <1>2, <1>3, <1>6
    <2>3. \A x : x \in ToSet(s) /\ x # Head(s) => x \in ToSet(Tail(s))
      BY <2>1, <1>2, <1>4
    <2> QED
      BY <2>2, <2>3
  <1>8. Head(s) \in ToSet(s)
    BY <1>2 DEF ToSet
  <1> QED
    BY <1>1, <1>5, <1>7, <1>8

LEMMA JoinedIsInjective ==
  ASSUME NEW S, NEW s \in Seq(S), NEW u \in Seq(S), IsInjective(s), IsInjective(u),
         ToSet(s) \cap ToSet(u) = {}
  PROVE  s \o u \in Seq(S) /\ IsInjective(s \o u) /\ ToSet(s \o u) = ToSet(s) \cup ToSet(u)
  <1>1. /\ s \o u \in Seq(S) /\ Len(s \o u) = Len(s) + Len(u)
        /\ \A i \in 1..Len(s) + Len(u) : (s \o u)[i] = IF i <= Len(s) THEN s[i] ELSE u[i - Len(s)]
    BY ConcatProperties
  <1>2. /\ DOMAIN s = 1..Len(s) /\ DOMAIN u = 1..Len(u) /\ DOMAIN (s \o u) = 1..(Len(s) + Len(u))
        /\ Len(s) \in Nat /\ Len(u) \in Nat
    BY <1>1
  <1>3. \A i \in 1..Len(s) : i \in 1..(Len(s) + Len(u)) /\ (s \o u)[i] = s[i] /\ s[i] \in ToSet(s)
    BY <1>1, <1>2 DEF ToSet
  <1>4. \A i \in 1..Len(u) : /\ i + Len(s) \in 1..(Len(s) + Len(u)) /\ (s \o u)[i + Len(s)] = u[i]
                             /\ u[i] \in ToSet(u)
    BY <1>1, <1>2 DEF ToSet
  <1>5. \A i \in 1..(Len(s) + Len(u)) : \/ i \in 1..Len(s)
                                        \/ i - Len(s) \in 1..Len(u) /\ i = (i - Len(s)) + Len(s)
    BY <1>2
  <1>6. IsInjective(s \o u)
    <2> SUFFICES ASSUME NEW i \in 1..(Len(s) + Len(u)), NEW j \in 1..(Len(s) + Len(u)),
                        (s \o u)[i] = (s \o u)[j]
                 PROVE  i = j
      BY <1>2 DEF IsInjective
    <2>1. CASE i \in 1..Len(s) /\ j \in 1..Len(s)
      BY <2>1, <1>2, <1>3 DEF IsInjective
    <2>2. CASE i - Len(s) \in 1..Len(u) /\ j - Len(s) \in 1..Len(u)
      <3>1. u[i - Len(s)] = u[j - Len(s)]
        BY <2>2, <1>1, <1>2
      <3>2. i - Len(s) = j - Len(s)
        BY <2>2, <3>1, <1>2 DEF IsInjective
      <3> QED
        BY <3>2, <1>2
    <2>3. CASE i \in 1..Len(s) /\ j - Len(s) \in 1..Len(u)
      <3>1. (s \o u)[i] \in ToSet(s) /\ (s \o u)[j] \in ToSet(u)
        BY <2>3, <1>1, <1>2, <1>3, <1>4
      <3> QED
        BY <3>1
    <2>4. CASE i - Len(s) \in 1..Len(u) /\ j \in 1..Len(s)
      <3>1. (s \o u)[j] \in ToSet(s) /\ (s \o u)[i] \in ToSet(u)
        BY <2>4, <1>1, <1>2, <1>3, <1>4
      <3> QED
        BY <3>1
    <2> QED
      BY <2>1, <2>2, <2>3, <2>4, <1>5
  <1>7. ToSet(s \o u) = ToSet(s) \cup ToSet(u)
    <2>1. /\ ToSet(s) = {s[i] : i \in 1..Len(s)} /\ ToSet(u) = {u[i] : i \in 1..Len(u)}
          /\ ToSet(s \o u) = {(s \o u)[i] : i \in 1..(Len(s) + Len(u))}
      BY <1>2 DEF ToSet
    <2>2. \A i \in 1..(Len(s) + Len(u)) : (s \o u)[i] \in ToSet(s) \cup ToSet(u)
      <3> TAKE i \in 1..(Len(s) + Len(u))
      <3>1. CASE i \in 1..Len(s)
        BY <3>1, <1>3
      <3>2. CASE i - Len(s) \in 1..Len(u) /\ i = (i - Len(s)) + Len(s)
        BY <3>2, <1>4
      <3> QED
        BY <3>1, <3>2, <1>5
    <2>3. \A x : x \in ToSet(s) \/ x \in ToSet(u) => x \in ToSet(s \o u)
      BY <2>1, <1>3, <1>4
    <2> QED
      BY <2>1, <2>2, <2>3
  <1> QED
    BY <1>1, <1>6, <1>7

\* What InTableOrder picks has no repetitions.
LEMMA OrderedIsInjective ==
  ASSUME TypeOK, IsInjective(table), NEW S \in SUBSET Objects, NEW s \in InTableOrder(S)
  PROVE  s \in Seq(Objects) /\ IsInjective(s) /\ ToSet(s) = S
  <1>1. /\ s \in BoundedSeq(S, Len(table)) /\ ToSet(s) = S
        /\ \A i, j \in DOMAIN s : i < j =>
             \E k, l \in DOMAIN table : k < l /\ table[k] = s[i] /\ table[l] = s[j]
    BY DEF InTableOrder
  <1>2. table \in Seq(Objects) /\ DOMAIN table = 1..Len(table) /\ Len(table) \in Nat
    BY DEF TypeOK
  <1>3. PICK n \in 0..Len(table) : s \in [1..n -> S]
    BY <1>1 DEF BoundedSeq, SeqOf
  <1>4. s \in Seq(Objects) /\ DOMAIN s = 1..n /\ n \in Nat
    BY <1>2, <1>3
  <1>5. \A i, j \in 1..n : i < j => s[i] # s[j]
    <2> TAKE i, j \in 1..n
    <2> HAVE i < j
    <2>0. i \in DOMAIN s /\ j \in DOMAIN s
      BY <1>4
    <2>1. PICK k, l \in DOMAIN table : k < l /\ table[k] = s[i] /\ table[l] = s[j]
      BY <2>0, <1>1, Zenon
    <2>2. k # l
      BY <2>1, <1>2
    <2> QED
      BY <2>1, <2>2 DEF IsInjective
  <1>6. IsInjective(s)
    BY <1>4, <1>5 DEF IsInjective
  <1> QED
    BY <1>1, <1>4, <1>6

----------------------------------------------------------------------------
(* Steps that change one object, or where one actor is. *)

LEMMA ActorsAre == Main \in Actors /\ Threads \subseteq Actors /\ \A t \in Threads : t \in Actors /\ t # Main
  BY MachPortAssumption DEF Actors

LEMMA MovesTo ==
  ASSUME TypeOK, NEW a \in Actors, NEW c \in Calls, at' = [at EXCEPT ![a] = c]
  PROVE  at' \in [Actors -> Calls] /\ at'[a] = c /\ \A b \in Actors : b # a => at'[b] = at[b]
  BY DEF TypeOK

LEMMA Becomes ==
  ASSUME TypeOK, NEW o \in Objects, NEW r \in MachPorts, mp' = [mp EXCEPT ![o] = r]
  PROVE  mp' \in [Objects -> MachPorts] /\ mp'[o] = r /\ \A x \in Objects : x # o => mp'[x] = mp[x]
  BY DEF TypeOK

LEMMA ObjectFields ==
  ASSUME NEW r \in MachPorts
  PROVE  /\ r.state \in {"ready", "invalidating", "invalid", "deallocating", "gone"}
         /\ r.port \in Ports \cup {None} /\ r.dsrc \in BOOLEAN /\ r.owns \in BOOLEAN
         /\ r.icallout \in BOOLEAN /\ r.called \in Nat /\ r.refs \in Nat /\ r.held \in Nat
  BY DEF MachPorts

\* A call moves on: it may hold a reference that it did not hold before, or not
\* hold one any more.
LEMMA MakersChange ==
  ASSUME TypeOK, NEW a \in Actors, NEW c \in Calls, at' = [at EXCEPT ![a] = c],
         NEW o \in Objects, IsFiniteSet(Makers[o])
  PROVE  /\ IsFiniteSet(Makers'[o]) /\ Cardinality(Makers[o]) \in Nat
         /\ Makes(at[a], o) => Cardinality(Makers[o]) >= 1
         /\ Makes(c, o) => Cardinality(Makers'[o]) >= 1
         /\ Cardinality(Makers'[o]) =
              Cardinality(Makers[o]) + (IF Makes(c, o) THEN 1 ELSE 0) - (IF Makes(at[a], o) THEN 1 ELSE 0)
  <1>0. at'[a] = c /\ \A b \in Actors : b # a => at'[b] = at[b]
    BY MovesTo
  <1>1. Makers[o] = {b \in Actors : Makes(at[b], o)} /\ Makers'[o] = {b \in Actors : Makes(at'[b], o)}
    BY DEF Makers, Makes
  <1>2. a \in Makers[o] <=> Makes(at[a], o)
    BY <1>1
  <1>3. a \in Makers'[o] <=> Makes(c, o)
    BY <1>0, <1>1
  <1>4. Makers'[o] \ {a} = Makers[o] \ {a}
    BY <1>0, <1>1
  <1> DEFINE Others == Makers[o] \ {a}
  <1>5. IsFiniteSet(Others) /\ Cardinality(Others) \in Nat /\ Cardinality(Makers[o]) \in Nat
    BY FS_Difference, FS_CardinalityType, FS_Singleton, FS_Subset
  <1>6. Cardinality(Makers[o]) = IF a \in Makers[o] THEN Cardinality(Others) + 1 ELSE Cardinality(Others)
    <2>1. CASE a \in Makers[o]
      <3>1. Makers[o] = Others \cup {a} /\ a \notin Others
        BY <2>1
      <3> QED
        BY <2>1, <3>1, <1>5, FS_AddElement
    <2>2. CASE a \notin Makers[o]
      <3>1. Makers[o] = Others
        BY <2>2
      <3> QED
        BY <2>2, <3>1
    <2> QED
      BY <2>1, <2>2
  <1>7. /\ IsFiniteSet(Makers'[o])
        /\ Cardinality(Makers'[o]) = IF a \in Makers'[o] THEN Cardinality(Others) + 1 ELSE Cardinality(Others)
    <2>1. CASE a \in Makers'[o]
      <3>1. Makers'[o] = Others \cup {a} /\ a \notin Others
        BY <2>1, <1>4
      <3> QED
        BY <2>1, <3>1, <1>5, FS_AddElement
    <2>2. CASE a \notin Makers'[o]
      <3>1. Makers'[o] = Others
        BY <2>2, <1>4
      <3> QED
        BY <2>2, <3>1, <1>5
    <2> QED
      BY <2>1, <2>2
  <1> HIDE DEF Others
  <1> QED
    BY <1>2, <1>3, <1>5, <1>6, <1>7

\* The references stay counted when one object changes while a call moves on...
LEMMA CountedWithCall ==
  ASSUME TypeOK, ReferencesAreCounted,
         NEW a \in Actors, NEW c \in Calls, at' = [at EXCEPT ![a] = c],
         NEW o \in Objects, NEW r \in MachPorts, mp' = [mp EXCEPT ![o] = r],
         \A x \in Objects : x # o => (Makes(c, x) <=> Makes(at[a], x)),
         r.refs - r.held - (IF Makes(c, o) THEN 1 ELSE 0) - (IF IsInUse(r) THEN 1 ELSE 0)
           = mp[o].refs - mp[o].held - (IF Makes(at[a], o) THEN 1 ELSE 0)
             - (IF IsInUse(mp[o]) THEN 1 ELSE 0),
         r.refs = 0 <=> r.state \in {"deallocating", "gone"}
  PROVE  ReferencesAreCounted'
  <1>1. mp'[o] = r /\ \A x \in Objects : x # o => mp'[x] = mp[x]
    BY Becomes
  <1>2. mp[o] \in MachPorts
    BY DEF TypeOK
  <1> SUFFICES ASSUME NEW x \in Objects
               PROVE  /\ IsFiniteSet(Makers'[x])
                      /\ mp'[x].refs = mp'[x].held + Cardinality(Makers'[x])
                                       + (IF IsInUse(mp'[x]) THEN 1 ELSE 0)
                      /\ mp'[x].refs = 0 <=> mp'[x].state \in {"deallocating", "gone"}
    BY DEF ReferencesAreCounted, IsInUse
  <1>3. /\ IsFiniteSet(Makers[x]) /\ (mp[x].refs = 0 <=> mp[x].state \in {"deallocating", "gone"})
        /\ mp[x].refs = mp[x].held + Cardinality(Makers[x]) + (IF IsInUse(mp[x]) THEN 1 ELSE 0)
    BY DEF ReferencesAreCounted
  <1>4. /\ IsFiniteSet(Makers'[x]) /\ Cardinality(Makers[x]) \in Nat
        /\ Cardinality(Makers'[x]) =
             Cardinality(Makers[x]) + (IF Makes(c, x) THEN 1 ELSE 0) - (IF Makes(at[a], x) THEN 1 ELSE 0)
    BY <1>3, MakersChange, Zenon
  <1>5. CASE x # o
    <2>1. Cardinality(Makers'[x]) = Cardinality(Makers[x])
      BY <1>4, <1>5
    <2> QED
      BY <1>1, <1>3, <1>4, <1>5, <2>1
  <1>6. CASE x = o
    BY <1>1, <1>2, <1>3, <1>4, <1>6, ObjectFields
  <1> QED
    BY <1>5, <1>6

\* ...or while the calls stay where they are.
LEMMA CountedAlone ==
  ASSUME TypeOK, ReferencesAreCounted, UNCHANGED at,
         NEW o \in Objects, NEW r \in MachPorts, mp' = [mp EXCEPT ![o] = r],
         r.refs - r.held - (IF IsInUse(r) THEN 1 ELSE 0)
           = mp[o].refs - mp[o].held - (IF IsInUse(mp[o]) THEN 1 ELSE 0),
         r.refs = 0 <=> r.state \in {"deallocating", "gone"}
  PROVE  ReferencesAreCounted'
  <1>1. at' = [at EXCEPT ![Main] = at[Main]] /\ at[Main] \in Calls
    BY ActorsAre DEF TypeOK
  <1> DEFINE c == at[Main]
  <1> HIDE DEF c
  <1>2. /\ r.refs - r.held - (IF Makes(c, o) THEN 1 ELSE 0) - (IF IsInUse(r) THEN 1 ELSE 0)
           = mp[o].refs - mp[o].held - (IF Makes(c, o) THEN 1 ELSE 0)
             - (IF IsInUse(mp[o]) THEN 1 ELSE 0)
    <2>1. mp[o] \in MachPorts
      BY DEF TypeOK
    <2> QED
      BY <2>1, ObjectFields
  <1> QED
    BY <1>1, <1>2, ActorsAre, CountedWithCall DEF c

\* A call moves on and holds what it held.
LEMMA CountedMoving ==
  ASSUME TypeOK, ReferencesAreCounted, UNCHANGED mp,
         NEW a \in Actors, NEW c \in Calls, at' = [at EXCEPT ![a] = c],
         \A x \in Objects : Makes(c, x) <=> Makes(at[a], x)
  PROVE  ReferencesAreCounted'
  <1> SUFFICES ASSUME NEW x \in Objects
               PROVE  /\ IsFiniteSet(Makers'[x])
                      /\ mp'[x].refs = mp'[x].held + Cardinality(Makers'[x])
                                       + (IF IsInUse(mp'[x]) THEN 1 ELSE 0)
                      /\ mp'[x].refs = 0 <=> mp'[x].state \in {"deallocating", "gone"}
    BY DEF ReferencesAreCounted, IsInUse
  <1>3. /\ IsFiniteSet(Makers[x]) /\ (mp[x].refs = 0 <=> mp[x].state \in {"deallocating", "gone"})
        /\ mp[x].refs = mp[x].held + Cardinality(Makers[x]) + (IF IsInUse(mp[x]) THEN 1 ELSE 0)
    BY DEF ReferencesAreCounted
  <1>4. /\ IsFiniteSet(Makers'[x]) /\ Cardinality(Makers[x]) \in Nat
        /\ Cardinality(Makers'[x]) =
             Cardinality(Makers[x]) + (IF Makes(c, x) THEN 1 ELSE 0) - (IF Makes(at[a], x) THEN 1 ELSE 0)
    BY <1>3, MakersChange, Zenon
  <1>5. Cardinality(Makers'[x]) = Cardinality(Makers[x])
    BY <1>4
  <1> QED
    BY <1>3, <1>4, <1>5

\* A call moves on, and no object that another call holds is made anew.
LEMMA TypedAfter ==
  ASSUME TypeOK, CallsAreTyped, NEW a \in Actors, NEW c \in Calls, at' = [at EXCEPT ![a] = c],
         a = Main => c.pc \in {"idle", "announce", "settle"},
         c.pc \in {"find", "make", "intent", "source", "check"} =>
           c.port \in Ports /\ (c.create <=> c.port \in OwnPorts),
         c.pc \in {"idle", "announce", "settle"} => c.port = None,
         c.pc \in {"intent", "source", "check", "announce", "settle"} => c.o \in Objects,
         c.pc \in {"intent", "source", "check"} => mp'[c.o].port = c.port,
         \A b \in Actors : \A o \in Objects : b # a /\ Makes(at[b], o) => mp'[o].port = mp[o].port
  PROVE  CallsAreTyped'
  <1>1. at'[a] = c /\ \A b \in Actors : b # a => at'[b] = at[b]
    BY MovesTo
  <1>2. at'[Main].pc \in {"idle", "announce", "settle"}
    BY <1>1, ActorsAre DEF CallsAreTyped
  <1>3. ASSUME NEW b \in Actors
        PROVE  /\ at'[b].pc \in {"find", "make", "intent", "source", "check"} =>
                    at'[b].port \in Ports /\ (at'[b].create <=> at'[b].port \in OwnPorts)
               /\ at'[b].pc \in {"idle", "announce", "settle"} => at'[b].port = None
               /\ at'[b].pc \in {"intent", "source", "check", "announce", "settle"} => at'[b].o \in Objects
               /\ at'[b].pc \in {"intent", "source", "check"} => mp'[at'[b].o].port = at'[b].port
    <2>1. CASE b = a
      BY <1>1, <2>1
    <2>2. CASE b # a
      BY <1>1, <2>2 DEF CallsAreTyped, Makes
    <2> QED
      BY <2>1, <2>2
  <1> QED
    BY <1>2, <1>3 DEF CallsAreTyped

\* One invalidates an object, if it stays the one, or is the first to.
LEMMA OneAfter ==
  ASSUME TypeOK, CallsAreTyped, OneInvalidates, UNCHANGED blocks,
         NEW a \in Actors, NEW c \in Calls, at' = [at EXCEPT ![a] = c],
         \A o \in Objects : /\ mp[o].state = "invalidating"
                            /\ ~(Ends(at[a]) /\ at[a].o = o)
                            => mp'[o].state = "invalidating",
         Ends(c) => /\ c.o \in Objects /\ mp'[c.o].state = "invalidating"
                    /\ \/ Ends(at[a]) /\ at[a].o = c.o
                       \/ mp[c.o].state # "invalidating"
  PROVE  OneInvalidates'
  <1>1. at'[a] = c /\ \A b \in Actors : b # a => at'[b] = at[b]
    BY MovesTo
  <1>2. /\ IsInjective(blocks) /\ \A o \in ToSet(blocks) : mp[o].state = "invalidating"
        /\ \A b \in Actors : Ends(at[b]) => /\ mp[at[b].o].state = "invalidating"
                                            /\ at[b].o \notin ToSet(blocks)
        /\ \A b, d \in Actors : Ends(at[b]) /\ Ends(at[d]) /\ at[b].o = at[d].o => b = d
    BY DEF OneInvalidates
  <1>3. \A b \in Actors : Ends(at[b]) => at[b].o \in Objects
    BY DEF Ends, CallsAreTyped
  <1>4. ToSet(blocks) \subseteq Objects
    BY DEF TypeOK, ToSet
  <1>5. \A o \in ToSet(blocks) : mp'[o].state = "invalidating"
    BY <1>2, <1>4
  <1>6. \A b \in Actors : Ends(at'[b]) => /\ mp'[at'[b].o].state = "invalidating"
                                         /\ at'[b].o \notin ToSet(blocks)
    BY <1>1, <1>2, <1>3
  <1>7. \A b, d \in Actors : Ends(at'[b]) /\ Ends(at'[d]) /\ at'[b].o = at'[d].o => b = d
    BY <1>1, <1>2, <1>3
  <1> QED
    BY <1>2, <1>5, <1>6, <1>7 DEF OneInvalidates, Ends

LEMMA OneAlone ==
  ASSUME TypeOK, CallsAreTyped, OneInvalidates, UNCHANGED <<blocks, at>>,
         \A o \in Objects : mp[o].state = "invalidating" => mp'[o].state = "invalidating"
  PROVE  OneInvalidates'
  <1>1. at' = [at EXCEPT ![Main] = at[Main]] /\ at[Main] \in Calls
    BY ActorsAre DEF TypeOK
  <1>2. Ends(at[Main]) => at[Main].o \in Objects /\ mp[at[Main].o].state = "invalidating"
    BY ActorsAre DEF Ends, CallsAreTyped, OneInvalidates
  <1>3. \A o \in Objects : mp[o].state = "invalidating" /\ ~(Ends(at[Main]) /\ at[Main].o = o)
                            => mp'[o].state = "invalidating"
    OBVIOUS
  <1>4. Ends(at[Main]) => /\ at[Main].o \in Objects /\ mp'[at[Main].o].state = "invalidating"
                          /\ \/ Ends(at[Main]) /\ at[Main].o = at[Main].o
                             \/ mp[at[Main].o].state # "invalidating"
    BY <1>2
  <1> DEFINE c == at[Main]
  <1> HIDE DEF c
  <1> QED
    BY <1>1, <1>3, <1>4, ActorsAre, OneAfter DEF c

LEMMA TypedAlone ==
  ASSUME TypeOK, CallsAreTyped, UNCHANGED at, \A o \in Objects : mp'[o].port = mp[o].port
  PROVE  CallsAreTyped'
  BY DEF CallsAreTyped

LEMMA TableKept ==
  ASSUME TableIsOfReadyObjects, UNCHANGED table,
         \A o \in Objects : mp'[o].state = "ready" <=> mp[o].state = "ready"
  PROVE  TableIsOfReadyObjects'
  BY DEF TableIsOfReadyObjects

----------------------------------------------------------------------------
(* Every step keeps the count. *)

LEMMA CountFacts ==
  ASSUME CountInv, NEW o \in Objects
  PROVE  /\ mp[o] \in MachPorts /\ (mp[o].refs = 0 <=> mp[o].state \in {"deallocating", "gone"})
         /\ IsFiniteSet(Makers[o]) /\ Cardinality(Makers[o]) \in Nat
         /\ mp[o].refs = mp[o].held + Cardinality(Makers[o]) + (IF IsInUse(mp[o]) THEN 1 ELSE 0)
         /\ \A a \in Actors : Makes(at[a], o) => Cardinality(Makers[o]) >= 1
  <1>1. TypeOK /\ ReferencesAreCounted
    BY DEF CountInv
  <1>2. /\ mp[o] \in MachPorts /\ (mp[o].refs = 0 <=> mp[o].state \in {"deallocating", "gone"})
        /\ IsFiniteSet(Makers[o])
        /\ mp[o].refs = mp[o].held + Cardinality(Makers[o]) + (IF IsInUse(mp[o]) THEN 1 ELSE 0)
    BY <1>1 DEF TypeOK, ReferencesAreCounted
  <1>3. Cardinality(Makers[o]) \in Nat
    BY <1>2, FS_CardinalityType
  <1>4. ASSUME NEW a \in Actors, Makes(at[a], o)
        PROVE  Cardinality(Makers[o]) >= 1
    <2>1. a \in Makers[o]
      BY <1>4 DEF Makers
    <2>2. Cardinality(Makers[o]) # 0
      BY <1>2, <2>1, FS_EmptySet
    <2> QED
      BY <1>3, <2>2
  <1> QED
    BY <1>2, <1>3, <1>4

LEMMA InitCounts == Init => CountInv
  <1> SUFFICES ASSUME Init PROVE CountInv
    OBVIOUS
  <1>1. /\ port = [p \in Ports |-> IF p \in ExternalPorts THEN "rights" ELSE "none"]
        /\ mp = [o \in Objects |-> Gone] /\ table = <<>> /\ source = [o \in Objects |-> "none"]
        /\ records = [p \in Ports |-> None] /\ blocks = <<>> /\ at = [a \in Actors |-> Idle]
    BY DEF Init
  <1>2. Gone \in MachPorts /\ Idle \in Calls
    BY DEF Gone, MachPorts, Idle, Calls
  <1>3. TypeOK
    BY <1>1, <1>2 DEF TypeOK, Records
  <1>4. CallsAreTyped
    BY <1>1, ActorsAre DEF CallsAreTyped, Idle
  <1>5. ToSet(<<>>) = {} /\ IsInjective(<<>>)
    BY DOMAIN <<>> = {} DEF ToSet, IsInjective
  <1>6. TableIsOfReadyObjects
    BY <1>1, <1>5 DEF TableIsOfReadyObjects, Gone
  <1>7. OneInvalidates
    BY <1>1, <1>5 DEF OneInvalidates, Ends, Idle
  <1>8. ReferencesAreCounted
    <2> SUFFICES ASSUME NEW o \in Objects
                 PROVE  /\ IsFiniteSet(Makers[o]) /\ Makers[o] = {}
                        /\ mp[o].refs = 0 /\ mp[o].held = 0 /\ mp[o].state = "gone"
      BY FS_EmptySet DEF ReferencesAreCounted, IsInUse
    <2>1. Makers[o] = {}
      BY <1>1 DEF Makers, Makes, Idle
    <2> QED
      BY <1>1, <2>1, FS_EmptySet DEF Gone
  <1> QED
    BY <1>3, <1>4, <1>6, <1>7, <1>8 DEF CountInv

\* The steps that leave the objects as they are.
LEMMA RecordTypes ==
  ASSUME TypeOK, NEW p, NEW d \in BOOLEAN
  PROVE  /\ WithIntent(p) \in [Ports -> Records]
         /\ GivenBack(p) \in [Ports -> {"none", "rights", "dead"}]
         /\ RecordDeallocation(p, d) \/ SourceInvalidated(p) =>
              /\ port' \in [Ports -> {"none", "rights", "dead"}]
              /\ records' \in [Ports -> Records]
  <1>1. /\ port \in [Ports -> {"none", "rights", "dead"}] /\ records \in [Ports -> Records]
        /\ None \in Records /\ [doRights |-> FALSE, invalidated |-> FALSE] \in Records
    BY DEF TypeOK, Records
  <1>2. GivenBack(p) \in [Ports -> {"none", "rights", "dead"}]
    BY <1>1 DEF GivenBack
  <1>3. WithIntent(p) \in [Ports -> Records] /\ RecordsAfter(p) \in [Ports -> Records]
    BY <1>1 DEF WithIntent, RecordsAfter
  <1>4. ASSUME AwaitsInvalidation(p)
        PROVE  [records EXCEPT ![p].doRights = TRUE] \in [Ports -> Records]
    <2>1. CASE p \in Ports
      <3>1. [records[p] EXCEPT !.doRights = TRUE] \in Records
        BY <1>1, <1>4, <2>1 DEF Records, AwaitsInvalidation
      <3> QED
        BY <1>1, <3>1
    <2>2. CASE p \notin Ports
      BY <1>1, <2>2
    <2> QED
      BY <2>1, <2>2
  <1>5. RecordDeallocation(p, d) => /\ port' \in [Ports -> {"none", "rights", "dead"}]
                                    /\ records' \in [Ports -> Records]
    BY <1>1, <1>2, <1>4 DEF RecordDeallocation, IsDeferred
  <1>6. SourceInvalidated(p) => /\ port' \in [Ports -> {"none", "rights", "dead"}]
                                /\ records' \in [Ports -> Records]
    BY <1>1, <1>2, <1>3 DEF SourceInvalidated
  <1> QED
    BY <1>2, <1>3, <1>5, <1>6


LEMMA CreateCounts == ASSUME CountInv, NEW t \in Threads, NEW p \in Ports, Create(t, p) PROVE CountInv'
  <1>0. /\ TypeOK /\ CallsAreTyped /\ TableIsOfReadyObjects /\ OneInvalidates /\ ReferencesAreCounted
        /\ t \in Actors /\ t # Main
    BY ActorsAre DEF CountInv
  <1> DEFINE c == [Idle EXCEPT !.pc = "find", !.port = p, !.create = TRUE]
  <1>1. /\ at' = [at EXCEPT ![t] = c] /\ UNCHANGED <<mp, table, blocks>>
        /\ ~Ends(c) /\ ~Ends(at[t]) /\ \A o \in Objects : Makes(c, o) <=> Makes(at[t], o)
    BY <1>0 DEF Create, Idle, Goto, Ends, Makes, TypeOK, Calls
  <1>2. c \in Calls
    BY <1>0 DEF Create, Idle, Calls, TypeOK, CallsAreTyped, Ports
  <1>3. c.pc = "find" /\ c.port \in Ports /\ (c.create <=> c.port \in OwnPorts)
    BY <1>0, MachPortAssumption DEF Create, Idle, CallsAreTyped, TypeOK, Calls, Ports
  <1> HIDE DEF c
  <1>4. TypeOK'
    <2>1. at' \in [Actors -> Calls]
      BY <1>0, <1>1, <1>2, MovesTo
    <2>2. port' \in [Ports -> {"none", "rights", "dead"}] /\ records' \in [Ports -> Records] /\ UNCHANGED source
      BY <1>0, RecordTypes DEF Create, TypeOK
    <2> QED
      BY <1>0, <1>1, <2>1, <2>2 DEF TypeOK
  <1>5. CallsAreTyped'
    BY <1>0, <1>1, <1>2, <1>3, TypedAfter
  <1>6. TableIsOfReadyObjects'
    BY <1>0, <1>1 DEF TableIsOfReadyObjects
  <1>7. OneInvalidates'
    BY <1>0, <1>1, <1>2, OneAfter
  <1>8. ReferencesAreCounted'
    BY <1>0, <1>1, <1>2, CountedMoving
  <1> QED
    BY <1>4, <1>5, <1>6, <1>7, <1>8 DEF CountInv

LEMMA CreateWithPortCounts == ASSUME CountInv, NEW t \in Threads, NEW p \in Ports, CreateWithPort(t, p) PROVE CountInv'
  <1>0. /\ TypeOK /\ CallsAreTyped /\ TableIsOfReadyObjects /\ OneInvalidates /\ ReferencesAreCounted
        /\ t \in Actors /\ t # Main
    BY ActorsAre DEF CountInv
  <1> DEFINE c == [Idle EXCEPT !.pc = "find", !.port = p]
  <1>1. /\ at' = [at EXCEPT ![t] = c] /\ UNCHANGED <<mp, table, blocks>>
        /\ ~Ends(c) /\ ~Ends(at[t]) /\ \A o \in Objects : Makes(c, o) <=> Makes(at[t], o)
    BY <1>0 DEF CreateWithPort, Idle, Goto, Ends, Makes, TypeOK, Calls
  <1>2. c \in Calls
    BY <1>0 DEF CreateWithPort, Idle, Calls, TypeOK, CallsAreTyped, Ports
  <1>3. c.pc = "find" /\ c.port \in Ports /\ (c.create <=> c.port \in OwnPorts)
    BY <1>0, MachPortAssumption DEF CreateWithPort, Idle, CallsAreTyped, TypeOK, Calls, Ports
  <1> HIDE DEF c
  <1>4. TypeOK'
    <2>1. at' \in [Actors -> Calls]
      BY <1>0, <1>1, <1>2, MovesTo
    <2>2. port' \in [Ports -> {"none", "rights", "dead"}] /\ records' \in [Ports -> Records] /\ UNCHANGED source
      BY <1>0, RecordTypes DEF CreateWithPort, TypeOK
    <2> QED
      BY <1>0, <1>1, <2>1, <2>2 DEF TypeOK
  <1>5. CallsAreTyped'
    BY <1>0, <1>1, <1>2, <1>3, TypedAfter
  <1>6. TableIsOfReadyObjects'
    BY <1>0, <1>1 DEF TableIsOfReadyObjects
  <1>7. OneInvalidates'
    BY <1>0, <1>1, <1>2, OneAfter
  <1>8. ReferencesAreCounted'
    BY <1>0, <1>1, <1>2, CountedMoving
  <1> QED
    BY <1>4, <1>5, <1>6, <1>7, <1>8 DEF CountInv

LEMMA MakeFailsCounts == ASSUME CountInv, NEW t \in Threads, MakeFails(t) PROVE CountInv'
  <1>0. /\ TypeOK /\ CallsAreTyped /\ TableIsOfReadyObjects /\ OneInvalidates /\ ReferencesAreCounted
        /\ t \in Actors /\ t # Main
    BY ActorsAre DEF CountInv
  <1> DEFINE c == Idle
  <1>1. /\ at' = [at EXCEPT ![t] = c] /\ UNCHANGED <<mp, table, blocks>>
        /\ ~Ends(c) /\ ~Ends(at[t]) /\ \A o \in Objects : Makes(c, o) <=> Makes(at[t], o)
    BY <1>0 DEF MakeFails, Idle, Goto, Ends, Makes, TypeOK, Calls
  <1>2. c \in Calls
    BY <1>0 DEF MakeFails, Idle, Calls, TypeOK, CallsAreTyped, Ports
  <1>3. c.pc = "idle" /\ c.port = None
    BY <1>0, MachPortAssumption DEF MakeFails, Idle, CallsAreTyped, TypeOK, Calls, Ports
  <1> HIDE DEF c
  <1>4. TypeOK'
    <2>1. at' \in [Actors -> Calls]
      BY <1>0, <1>1, <1>2, MovesTo
    <2>2. port' \in [Ports -> {"none", "rights", "dead"}] /\ records' \in [Ports -> Records] /\ UNCHANGED source
      BY <1>0, RecordTypes DEF MakeFails, TypeOK
    <2> QED
      BY <1>0, <1>1, <2>1, <2>2 DEF TypeOK
  <1>5. CallsAreTyped'
    BY <1>0, <1>1, <1>2, <1>3, TypedAfter
  <1>6. TableIsOfReadyObjects'
    BY <1>0, <1>1 DEF TableIsOfReadyObjects
  <1>7. OneInvalidates'
    BY <1>0, <1>1, <1>2, OneAfter
  <1>8. ReferencesAreCounted'
    BY <1>0, <1>1, <1>2, CountedMoving
  <1> QED
    BY <1>4, <1>5, <1>6, <1>7, <1>8 DEF CountInv

LEMMA RecordIntentCounts == ASSUME CountInv, NEW t \in Threads, RecordIntent(t) PROVE CountInv'
  <1>0. /\ TypeOK /\ CallsAreTyped /\ TableIsOfReadyObjects /\ OneInvalidates /\ ReferencesAreCounted
        /\ t \in Actors /\ t # Main
    BY ActorsAre DEF CountInv
  <1> DEFINE c == [at[t] EXCEPT !.pc = "source"]
  <1>1. /\ at' = [at EXCEPT ![t] = c] /\ UNCHANGED <<mp, table, blocks>>
        /\ ~Ends(c) /\ ~Ends(at[t]) /\ \A o \in Objects : Makes(c, o) <=> Makes(at[t], o)
    BY <1>0 DEF RecordIntent, Idle, Goto, Ends, Makes, TypeOK, Calls
  <1>2. c \in Calls
    BY <1>0 DEF RecordIntent, Idle, Calls, TypeOK, CallsAreTyped, Ports
  <1>3. /\ c.pc = "source" /\ c.port \in Ports /\ (c.create <=> c.port \in OwnPorts)
        /\ c.o \in Objects /\ mp[c.o].port = c.port
    BY <1>0, MachPortAssumption DEF RecordIntent, Idle, CallsAreTyped, TypeOK, Calls, Ports
  <1> HIDE DEF c
  <1>4. TypeOK'
    <2>1. at' \in [Actors -> Calls]
      BY <1>0, <1>1, <1>2, MovesTo
    <2>2. port' \in [Ports -> {"none", "rights", "dead"}] /\ records' \in [Ports -> Records] /\ UNCHANGED source
      BY <1>0, RecordTypes DEF RecordIntent, TypeOK
    <2> QED
      BY <1>0, <1>1, <2>1, <2>2 DEF TypeOK
  <1>5. CallsAreTyped'
    BY <1>0, <1>1, <1>2, <1>3, TypedAfter
  <1>6. TableIsOfReadyObjects'
    BY <1>0, <1>1 DEF TableIsOfReadyObjects
  <1>7. OneInvalidates'
    BY <1>0, <1>1, <1>2, OneAfter
  <1>8. ReferencesAreCounted'
    BY <1>0, <1>1, <1>2, CountedMoving
  <1> QED
    BY <1>4, <1>5, <1>6, <1>7, <1>8 DEF CountInv

----------------------------------------------------------------------------
(* The steps that change an object. *)

LEMMA ObjectChanges ==
  ASSUME CountInv, UNCHANGED blocks,
         NEW a \in Actors, NEW c \in Calls, at' = [at EXCEPT ![a] = c],
         NEW x \in Objects, NEW r \in MachPorts, mp' = [mp EXCEPT ![x] = r],
         a = Main => c.pc \in {"idle", "announce", "settle"},
         c.pc \in {"find", "make", "intent", "source", "check"} =>
           c.port \in Ports /\ (c.create <=> c.port \in OwnPorts),
         c.pc \in {"idle", "announce", "settle"} => c.port = None,
         c.pc \in {"intent", "source", "check", "announce", "settle"} => c.o = x,
         c.pc \in {"intent", "source", "check"} => r.port = c.port,
         \/ r.port = mp[x].port
         \/ \A b \in Actors : ~Makes(at[b], x),
         Makes(at[a], x) \/ \A o \in Objects : ~Makes(at[a], o),
         mp[x].state = "invalidating" => r.state = "invalidating" \/ (Ends(at[a]) /\ at[a].o = x),
         Ends(c) => /\ r.state = "invalidating"
                    /\ (Ends(at[a]) /\ at[a].o = x) \/ mp[x].state # "invalidating",
         r.refs - r.held - (IF Makes(c, x) THEN 1 ELSE 0) - (IF IsInUse(r) THEN 1 ELSE 0)
           = mp[x].refs - mp[x].held - (IF Makes(at[a], x) THEN 1 ELSE 0)
             - (IF IsInUse(mp[x]) THEN 1 ELSE 0),
         r.refs = 0 <=> r.state \in {"deallocating", "gone"}
  PROVE  /\ mp' \in [Objects -> MachPorts] /\ at' \in [Actors -> Calls]
         /\ mp'[x] = r /\ \A o \in Objects : o # x => mp'[o] = mp[o]
         /\ CallsAreTyped' /\ OneInvalidates' /\ ReferencesAreCounted'
  <1>0. TypeOK /\ CallsAreTyped /\ OneInvalidates /\ ReferencesAreCounted
    BY DEF CountInv
  <1>1. /\ mp' \in [Objects -> MachPorts] /\ at' \in [Actors -> Calls]
        /\ mp'[x] = r /\ \A o \in Objects : o # x => mp'[o] = mp[o]
    BY <1>0, Becomes, MovesTo
  <1>2. CallsAreTyped'
    <2>1. \A b \in Actors : \A o \in Objects : b # a /\ Makes(at[b], o) => mp'[o].port = mp[o].port
      BY <1>1
    <2>2. c.pc \in {"intent", "source", "check", "announce", "settle"} => c.o \in Objects
      OBVIOUS
    <2>3. c.pc \in {"intent", "source", "check"} => mp'[c.o].port = c.port
      BY <1>1
    <2> QED
      BY <1>0, <2>1, <2>2, <2>3, TypedAfter
  <1>3. OneInvalidates'
    <2>1. \A o \in Objects : mp[o].state = "invalidating" /\ ~(Ends(at[a]) /\ at[a].o = o)
            => mp'[o].state = "invalidating"
      BY <1>1
    <2>2. Ends(c) => c.o = x
      BY DEF Ends
    <2>3. Ends(c) => /\ c.o \in Objects /\ mp'[c.o].state = "invalidating"
                     /\ \/ Ends(at[a]) /\ at[a].o = c.o
                        \/ mp[c.o].state # "invalidating"
      BY <1>1, <2>2
    <2> QED
      BY <1>0, <2>1, <2>3, OneAfter
  <1>4. ReferencesAreCounted'
    <2>1. \A o \in Objects : o # x => (Makes(c, o) <=> Makes(at[a], o))
      BY DEF Makes
    <2>2. TypeOK /\ ReferencesAreCounted
      BY <1>0
    <2> QED
      BY <2>1, <2>2, CountedWithCall, ZenonT(90)
  <1> QED
    BY <1>1, <1>2, <1>3, <1>4

LEMMA ObjectChangesAlone ==
  ASSUME CountInv, UNCHANGED <<blocks, at>>,
         NEW x \in Objects, NEW r \in MachPorts, mp' = [mp EXCEPT ![x] = r], r.port = mp[x].port,
         mp[x].state = "invalidating" => r.state = "invalidating",
         r.refs - r.held - (IF IsInUse(r) THEN 1 ELSE 0)
           = mp[x].refs - mp[x].held - (IF IsInUse(mp[x]) THEN 1 ELSE 0),
         r.refs = 0 <=> r.state \in {"deallocating", "gone"}
  PROVE  /\ mp' \in [Objects -> MachPorts] /\ at' \in [Actors -> Calls]
         /\ mp'[x] = r /\ \A o \in Objects : o # x => mp'[o] = mp[o]
         /\ CallsAreTyped' /\ OneInvalidates' /\ ReferencesAreCounted'
  <1>0. TypeOK /\ CallsAreTyped /\ OneInvalidates /\ ReferencesAreCounted
    BY DEF CountInv
  <1>1. /\ mp' \in [Objects -> MachPorts] /\ at' \in [Actors -> Calls]
        /\ mp'[x] = r /\ \A o \in Objects : o # x => mp'[o] = mp[o]
    BY <1>0, Becomes DEF TypeOK
  <1>2. CallsAreTyped' /\ OneInvalidates'
    BY <1>0, <1>1, TypedAlone, OneAlone
  <1>3. ReferencesAreCounted'
    BY <1>0, CountedAlone
  <1> QED
    BY <1>1, <1>2, <1>3

LEMMA FindCounts == ASSUME CountInv, NEW t \in Threads, Find(t) PROVE CountInv'
  <1>0. /\ TypeOK /\ CallsAreTyped /\ TableIsOfReadyObjects /\ OneInvalidates /\ ReferencesAreCounted
        /\ t \in Actors /\ t # Main
    BY ActorsAre DEF CountInv
  <1>1. /\ at[t] \in Calls /\ at[t].pc = "find" /\ at[t].port \in Ports
        /\ (at[t].create <=> at[t].port \in OwnPorts) /\ UNCHANGED <<port, table, source, records, blocks>>
    BY <1>0 DEF Find, CallsAreTyped, TypeOK
  <1>2. ASSUME NEW i \in DOMAIN table, IsFirstFor(at[t].port, i),
               mp' = [mp EXCEPT ![table[i]].refs = @ + 1],
               at' = [at EXCEPT ![t].pc = "check", ![t].o = table[i]]
        PROVE  CountInv'
    <2> DEFINE x == table[i]
               r == [mp[x] EXCEPT !.refs = @ + 1]
               c == [at[t] EXCEPT !.pc = "check", !.o = x]
    <2>1. x \in Objects /\ mp[x].state = "ready" /\ mp[x].port = at[t].port
      BY <1>0, <1>2 DEF TypeOK, TableIsOfReadyObjects, ToSet, IsFirstFor
    <2>2. /\ mp[x] \in MachPorts /\ (mp[x].refs = 0 <=> mp[x].state \in {"deallocating", "gone"})
          /\ mp' = [mp EXCEPT ![x] = r] /\ at' = [at EXCEPT ![t] = c]
      BY <1>0, <1>2, <2>1 DEF TypeOK, ReferencesAreCounted
    <2>3. /\ r \in MachPorts /\ r.port = mp[x].port /\ r.state = "ready" /\ r.held = mp[x].held
          /\ r.refs = mp[x].refs + 1 /\ mp[x].refs \in Nat /\ mp[x].held \in Nat
      BY <2>1, <2>2 DEF MachPorts
    <2>4. /\ c \in Calls /\ c.pc = "check" /\ c.o = x /\ c.port = at[t].port
          /\ c.create = at[t].create
      BY <1>1, <2>1 DEF Calls
    <2> HIDE DEF x, r, c
    <2>5. /\ Makes(c, x) /\ ~Ends(c) /\ ~Ends(at[t]) /\ \A o \in Objects : ~Makes(at[t], o)
          /\ IsInUse(r) /\ IsInUse(mp[x])
          /\ (r.refs = 0 <=> r.state \in {"deallocating", "gone"})
      BY <1>1, <2>1, <2>3, <2>4 DEF Makes, Ends, IsInUse
    <2>a. r.refs - r.held - (IF Makes(c, x) THEN 1 ELSE 0) - (IF IsInUse(r) THEN 1 ELSE 0)
           = mp[x].refs - mp[x].held - (IF Makes(at[t], x) THEN 1 ELSE 0)
             - (IF IsInUse(mp[x]) THEN 1 ELSE 0)
      BY <2>1, <2>3, <2>5
    <2>6. /\ mp' \in [Objects -> MachPorts] /\ at' \in [Actors -> Calls]
          /\ mp'[x] = r /\ \A o \in Objects : o # x => mp'[o] = mp[o]
          /\ CallsAreTyped' /\ OneInvalidates' /\ ReferencesAreCounted'
      BY <1>0, <1>1, <2>1, <2>2, <2>3, <2>4, <2>5, <2>a, ObjectChanges, ZenonT(30)
    <2>7. TypeOK' /\ TableIsOfReadyObjects'
      BY <1>0, <1>1, <2>1, <2>3, <2>6, TableKept DEF TypeOK
    <2> QED
      BY <2>6, <2>7 DEF CountInv
  <1>3. ASSUME Goto(t, "make"), UNCHANGED mp
        PROVE  CountInv'
    <2> DEFINE c == [at[t] EXCEPT !.pc = "make"]
    <2>1. /\ c \in Calls /\ c.pc = "make" /\ c.port = at[t].port /\ c.create = at[t].create
          /\ at' = [at EXCEPT ![t] = c]
      BY <1>1, <1>3 DEF Calls, Goto
    <2> HIDE DEF c
    <2>2. ~Ends(c) /\ ~Ends(at[t]) /\ \A o \in Objects : ~Makes(c, o) /\ ~Makes(at[t], o)
      BY <1>1, <2>1 DEF Ends, Makes
    <2>3. CallsAreTyped'
      BY <1>0, <1>1, <1>3, <2>1, TypedAfter
    <2>4. OneInvalidates'
      BY <1>0, <1>1, <1>3, <2>1, <2>2, OneAfter
    <2>5. ReferencesAreCounted'
      BY <1>0, <1>3, <2>1, <2>2, CountedMoving
    <2>6. TypeOK' /\ TableIsOfReadyObjects'
      BY <1>0, <1>1, <1>3, <2>1, MovesTo, TableKept DEF TypeOK
    <2> QED
      BY <2>3, <2>4, <2>5, <2>6 DEF CountInv
  <1> QED
    BY <1>2, <1>3 DEF Find

\* The objects that are not there have no calls that hold them.
LEMMA UnusedAreNotMade ==
  ASSUME CountInv, NEW o \in Objects, mp[o].refs = 0
  PROVE  /\ mp[o].held = 0 /\ Cardinality(Makers[o]) = 0 /\ ~IsInUse(mp[o])
         /\ \A a \in Actors : ~Makes(at[a], o)
  <1>1. /\ mp[o] \in MachPorts /\ Cardinality(Makers[o]) \in Nat
        /\ mp[o].refs = mp[o].held + Cardinality(Makers[o]) + (IF IsInUse(mp[o]) THEN 1 ELSE 0)
        /\ \A a \in Actors : Makes(at[a], o) => Cardinality(Makers[o]) >= 1
    BY CountFacts
  <1>2. mp[o].held \in Nat
    BY <1>1, ObjectFields
  <1> QED
    BY <1>1, <1>2

LEMMA MakeCounts == ASSUME CountInv, NEW t \in Threads, NEW x \in Objects, Make(t, x) PROVE CountInv'
  <1>0. /\ TypeOK /\ CallsAreTyped /\ TableIsOfReadyObjects /\ OneInvalidates /\ ReferencesAreCounted
        /\ t \in Actors /\ t # Main
    BY ActorsAre DEF CountInv
  <1>1. /\ at[t] \in Calls /\ at[t].pc = "make" /\ at[t].port \in Ports
        /\ (at[t].create <=> at[t].port \in OwnPorts) /\ UNCHANGED <<port, records, blocks>>
        /\ mp[x].state = "gone" /\ mp[x].refs = 0 /\ source' = [source EXCEPT ![x] = "none"]
    BY <1>0 DEF Make, CallsAreTyped, TypeOK, IsUnused, ReferencesAreCounted
  <1>2. /\ mp[x].held = 0 /\ ~IsInUse(mp[x]) /\ \A a \in Actors : ~Makes(at[a], x)
    BY <1>1, UnusedAreNotMade
  <1> DEFINE r == [Gone EXCEPT !.state = "ready", !.port = at[t].port, !.refs = 2]
             c == [at[t] EXCEPT !.pc = "intent", !.o = x]
  <1>3. mp' = [mp EXCEPT ![x] = r] /\ at' = [at EXCEPT ![t] = c]
    BY DEF Make
  <1>4. /\ r \in MachPorts /\ r.port = at[t].port /\ r.state = "ready" /\ r.held = 0 /\ r.refs = 2
        /\ c \in Calls /\ c.pc = "intent" /\ c.o = x /\ c.port = at[t].port /\ c.create = at[t].create
    BY <1>1 DEF MachPorts, Calls, Gone
  <1> HIDE DEF r, c
  <1>5. /\ Makes(c, x) /\ ~Ends(c) /\ ~Ends(at[t]) /\ \A o \in Objects : ~Makes(at[t], o)
        /\ IsInUse(r) /\ (r.refs = 0 <=> r.state \in {"deallocating", "gone"})
    BY <1>1, <1>4 DEF Makes, Ends, IsInUse
  <1>6. r.refs - r.held - (IF Makes(c, x) THEN 1 ELSE 0) - (IF IsInUse(r) THEN 1 ELSE 0)
         = mp[x].refs - mp[x].held - (IF Makes(at[t], x) THEN 1 ELSE 0)
           - (IF IsInUse(mp[x]) THEN 1 ELSE 0)
    BY <1>1, <1>2, <1>4, <1>5
  <1>7. /\ mp' \in [Objects -> MachPorts] /\ at' \in [Actors -> Calls]
        /\ mp'[x] = r /\ \A o \in Objects : o # x => mp'[o] = mp[o]
        /\ CallsAreTyped' /\ OneInvalidates' /\ ReferencesAreCounted'
    BY <1>0, <1>1, <1>2, <1>3, <1>4, <1>5, <1>6, ObjectChanges
  <1>8. table' = Append(table, x) /\ x \notin ToSet(table) /\ table \in Seq(Objects) /\ IsInjective(table)
    BY <1>0, <1>1 DEF Make, TableIsOfReadyObjects, TypeOK
  <1>9. table' \in Seq(Objects) /\ IsInjective(table') /\ ToSet(table') = ToSet(table) \cup {x}
    BY <1>8, AppendedIsInjective
  <1>10. TypeOK'
    BY <1>0, <1>1, <1>7, <1>9 DEF TypeOK
  <1>11. TableIsOfReadyObjects'
    BY <1>0, <1>4, <1>7, <1>9 DEF TableIsOfReadyObjects
  <1> QED
    BY <1>7, <1>10, <1>11 DEF CountInv

LEMMA MakeSourceCounts == ASSUME CountInv, NEW t \in Threads, MakeSource(t) PROVE CountInv'
  <1>0. /\ TypeOK /\ CallsAreTyped /\ TableIsOfReadyObjects /\ OneInvalidates /\ ReferencesAreCounted
        /\ t \in Actors /\ t # Main
    BY ActorsAre DEF CountInv
  <1> DEFINE x == at[t].o
             r == [mp[x] EXCEPT !.dsrc = TRUE]
             c == [at[t] EXCEPT !.pc = "check"]
  <1>1. /\ at[t] \in Calls /\ at[t].pc = "source" /\ at[t].port \in Ports /\ x \in Objects
        /\ (at[t].create <=> at[t].port \in OwnPorts) /\ UNCHANGED <<port, table, records, blocks>>
        /\ source' = [source EXCEPT ![x] = "active"] /\ mp[x].port = at[t].port
    BY <1>0 DEF MakeSource, CallsAreTyped, TypeOK
  <1>2. mp[x] \in MachPorts /\ (mp[x].refs = 0 <=> mp[x].state \in {"deallocating", "gone"})
    BY <1>0, <1>1 DEF TypeOK, ReferencesAreCounted
  <1>3. mp' = [mp EXCEPT ![x] = r] /\ at' = [at EXCEPT ![t] = c]
    BY DEF MakeSource, Goto
  <1>4. /\ r \in MachPorts /\ r.port = mp[x].port /\ r.state = mp[x].state /\ r.held = mp[x].held
        /\ r.refs = mp[x].refs
        /\ c \in Calls /\ c.pc = "check" /\ c.o = x /\ c.port = at[t].port /\ c.create = at[t].create
    BY <1>1, <1>2 DEF MachPorts, Calls
  <1>5. /\ Makes(c, x) /\ Makes(at[t], x) /\ ~Ends(c) /\ ~Ends(at[t])
        /\ (IsInUse(r) <=> IsInUse(mp[x])) /\ (r.refs = 0 <=> r.state \in {"deallocating", "gone"})
    BY <1>1, <1>2, <1>4 DEF Makes, Ends, IsInUse
  <1> HIDE DEF r, c, x
  <1>6. r.refs - r.held - (IF Makes(c, x) THEN 1 ELSE 0) - (IF IsInUse(r) THEN 1 ELSE 0)
         = mp[x].refs - mp[x].held - (IF Makes(at[t], x) THEN 1 ELSE 0)
           - (IF IsInUse(mp[x]) THEN 1 ELSE 0)
    BY <1>4, <1>5
  <1>7. /\ mp' \in [Objects -> MachPorts] /\ at' \in [Actors -> Calls]
        /\ mp'[x] = r /\ \A o \in Objects : o # x => mp'[o] = mp[o]
        /\ CallsAreTyped' /\ OneInvalidates' /\ ReferencesAreCounted'
    <2>1. /\ c.port \in Ports /\ (c.create <=> c.port \in OwnPorts) /\ r.port = c.port
          /\ mp[x].state = "invalidating" => r.state = "invalidating"
      BY <1>1, <1>4
    <2> QED
      BY <1>0, <1>1, <1>3, <1>4, <1>5, <1>6, <2>1, ObjectChanges DEF x
  <1>8. TypeOK'
    BY <1>0, <1>1, <1>7 DEF TypeOK
  <1>9. TableIsOfReadyObjects'
    BY <1>0, <1>1, <1>4, <1>7, TableKept
  <1> QED
    BY <1>7, <1>8, <1>9 DEF CountInv

\* An object that is let go of: it is deallocated only if nothing else holds it.
LEMMA ReleasedIs ==
  ASSUME NEW r \in MachPorts, r.refs # 0
  PROVE  /\ Released(r) \in MachPorts /\ Released(r).refs = r.refs - 1
         /\ Released(r).state = (IF r.refs = 1 THEN "deallocating" ELSE r.state)
         /\ Released(r).port = r.port /\ Released(r).dsrc = r.dsrc /\ Released(r).owns = r.owns
         /\ Released(r).icallout = r.icallout /\ Released(r).called = r.called
         /\ Released(r).held = r.held
  <1>1. r.refs \in Nat /\ r.refs - 1 \in Nat
    BY DEF MachPorts
  <1>2. CASE r.refs = 1
    <2>1. Released(r) = [r EXCEPT !.refs = r.refs - 1, !.state = "deallocating"]
      BY <1>2 DEF Released
    <2> QED
      BY <1>1, <1>2, <2>1 DEF MachPorts
  <1>3. CASE r.refs # 1
    <2>1. Released(r) = [r EXCEPT !.refs = r.refs - 1, !.state = r.state]
      BY <1>3 DEF Released
    <2> QED
      BY <1>1, <1>3, <2>1 DEF MachPorts
  <1> QED
    BY <1>2, <1>3

LEMMA CheckCounts == ASSUME CountInv, NEW t \in Threads, Check(t) PROVE CountInv'
  <1>0. /\ TypeOK /\ CallsAreTyped /\ TableIsOfReadyObjects /\ OneInvalidates /\ ReferencesAreCounted
        /\ t \in Actors /\ t # Main
    BY ActorsAre DEF CountInv
  <1> DEFINE x == at[t].o
             c == Idle
  <1>1. /\ at[t] \in Calls /\ at[t].pc = "check" /\ x \in Objects
        /\ at' = [at EXCEPT ![t] = c] /\ UNCHANGED <<table, source, records, blocks>>
    BY <1>0 DEF Check, CallsAreTyped, TypeOK
  <1>2. /\ mp[x] \in MachPorts /\ (mp[x].refs = 0 <=> mp[x].state \in {"deallocating", "gone"})
        /\ Cardinality(Makers[x]) \in Nat /\ Makes(at[t], x) /\ Cardinality(Makers[x]) >= 1
        /\ mp[x].refs = mp[x].held + Cardinality(Makers[x]) + (IF IsInUse(mp[x]) THEN 1 ELSE 0)
    BY <1>0, <1>1, CountFacts DEF Makes
  <1>3. /\ mp[x].held \in Nat /\ mp[x].refs \in Nat /\ mp[x].refs # 0
        /\ (mp[x].refs = 1 => ~IsInUse(mp[x]))
    BY <1>2, ObjectFields
  <1>4. /\ c \in Calls /\ c.pc = "idle" /\ c.port = None /\ ~Ends(c) /\ ~Ends(at[t]) /\ ~Makes(c, x)
    BY <1>1 DEF Idle, Calls, Ends, Makes
  <1>5. /\ port' \in [Ports -> {"none", "rights", "dead"}]
        /\ \/ mp' = [mp EXCEPT ![x].held = @ + 1, ![x].owns = @ \/ at[t].create]
           \/ mp' = [mp EXCEPT ![x] = Released(@)]
    <2>1. GivenBack(at[t].port) \in [Ports -> {"none", "rights", "dead"}]
      BY <1>0, FALSE \in BOOLEAN, RecordTypes, Zenon
    <2> QED
      BY <1>0, <2>1 DEF Check, TypeOK
  <1> HIDE DEF x, c
  <1>6. PICK r \in MachPorts :
          /\ mp' = [mp EXCEPT ![x] = r] /\ r.port = mp[x].port
          /\ (r.state = "ready" <=> mp[x].state = "ready")
          /\ mp[x].state = "invalidating" => r.state = "invalidating"
          /\ (IsInUse(r) <=> IsInUse(mp[x]))
          /\ r.refs - r.held = mp[x].refs - mp[x].held - 1
          /\ (r.refs = 0 <=> r.state \in {"deallocating", "gone"})
    <2>1. CASE mp' = [mp EXCEPT ![x].held = @ + 1, ![x].owns = @ \/ at[t].create]
      <3> DEFINE owns == mp[x].owns \/ at[t].create
                 held == mp[x].held + 1
                 r == [mp[x] EXCEPT !.held = held, !.owns = owns]
      <3>1. mp' = [mp EXCEPT ![x] = r]
        BY <1>0, <1>1, <1>2, <2>1 DEF TypeOK
      <3>2. owns \in BOOLEAN /\ held \in Nat /\ mp[x].held + 1 = held
        BY <1>3
      <3> HIDE DEF owns, held
      <3>3. /\ r \in MachPorts /\ r.port = mp[x].port /\ r.state = mp[x].state
            /\ r.held = mp[x].held + 1 /\ r.refs = mp[x].refs
        BY <1>2, <3>2 DEF MachPorts
      <3> HIDE DEF r
      <3>4. r.refs - r.held = mp[x].refs - mp[x].held - 1
        BY <1>3, <3>3
      <3> QED
        BY <1>2, <3>1, <3>3, <3>4 DEF IsInUse
    <2>2. CASE mp' = [mp EXCEPT ![x] = Released(@)]
      <3> DEFINE r == Released(mp[x])
      <3>1. mp' = [mp EXCEPT ![x] = r]
        BY <2>2
      <3>2. /\ r \in MachPorts /\ r.port = mp[x].port /\ r.held = mp[x].held /\ r.refs = mp[x].refs - 1
            /\ r.state = (IF mp[x].refs = 1 THEN "deallocating" ELSE mp[x].state)
        BY <1>2, <1>3, ReleasedIs
      <3> HIDE DEF r
      <3>3. r.refs - r.held = mp[x].refs - mp[x].held - 1
        BY <1>3, <3>2
      <3>4. /\ (r.state = "ready" <=> mp[x].state = "ready") /\ (IsInUse(r) <=> IsInUse(mp[x]))
            /\ mp[x].state = "invalidating" => r.state = "invalidating"
            /\ (r.refs = 0 <=> r.state \in {"deallocating", "gone"})
        BY <1>2, <1>3, <3>2 DEF IsInUse
      <3> QED
        BY <3>1, <3>2, <3>3, <3>4
    <2> QED
      BY <1>5, <2>1, <2>2
  <1>7. r.refs - r.held - (IF Makes(c, x) THEN 1 ELSE 0) - (IF IsInUse(r) THEN 1 ELSE 0)
         = mp[x].refs - mp[x].held - (IF Makes(at[t], x) THEN 1 ELSE 0)
           - (IF IsInUse(mp[x]) THEN 1 ELSE 0)
    <2>1. r.refs \in Nat /\ r.held \in Nat
      BY ObjectFields
    <2> QED
      BY <1>2, <1>3, <1>4, <1>6, <2>1
  <1>8. /\ mp' \in [Objects -> MachPorts] /\ at' \in [Actors -> Calls]
        /\ mp'[x] = r /\ \A o \in Objects : o # x => mp'[o] = mp[o]
        /\ CallsAreTyped' /\ OneInvalidates' /\ ReferencesAreCounted'
    BY <1>0, <1>1, <1>2, <1>4, <1>6, <1>7, ObjectChanges DEF x
  <1>9. TypeOK'
    BY <1>0, <1>1, <1>5, <1>8 DEF TypeOK
  <1>10. TableIsOfReadyObjects'
    BY <1>0, <1>1, <1>6, <1>8, TableKept
  <1> QED
    BY <1>8, <1>9, <1>10 DEF CountInv

\* What an object is after it was taken off the table to be invalidated: the
\* reference of the table is that of the invalidation.
LEMMA TakenOffIs ==
  ASSUME CountInv, NEW x \in Objects, mp[x].state = "ready"
  PROVE  LET r == Released(Invalidating(mp[x]))
         IN  /\ r \in MachPorts /\ r.state = "invalidating" /\ ~r.dsrc
             /\ r.refs = mp[x].refs /\ r.held = mp[x].held /\ r.port = mp[x].port
             /\ r.owns = mp[x].owns /\ r.icallout = mp[x].icallout /\ r.called = mp[x].called
             /\ mp[x].refs # 0
  <1>1. mp[x] \in MachPorts /\ mp[x].refs # 0 /\ mp[x].refs \in Nat
    BY CountFacts, ObjectFields
  <1> DEFINE refs == mp[x].refs + 1
             i == [mp[x] EXCEPT !.state = "invalidating", !.dsrc = FALSE, !.refs = refs]
  <1>2. Invalidating(mp[x]) = i
    BY <1>1 DEF Invalidating
  <1>3. refs \in Nat /\ refs # 0 /\ refs # 1 /\ refs - 1 = mp[x].refs
    BY <1>1
  <1> HIDE DEF refs
  <1>4. /\ i \in MachPorts /\ i.refs = refs /\ i.state = "invalidating" /\ ~i.dsrc /\ i.held = mp[x].held
        /\ i.port = mp[x].port /\ i.owns = mp[x].owns /\ i.icallout = mp[x].icallout
        /\ i.called = mp[x].called
    BY <1>1, <1>3 DEF MachPorts
  <1> HIDE DEF i
  <1> QED
    BY <1>1, <1>2, <1>3, <1>4, ReleasedIs

\* The table without some of its objects.
LEMMA TableWithout ==
  ASSUME CountInv, NEW gone \in SUBSET Objects, table' \in TableAfter(gone)
  PROVE  /\ table' \in Seq(Objects) /\ IsInjective(table')
         /\ ToSet(table') = {o \in Objects : mp[o].state = "ready" /\ o \notin gone}
  <1>1. /\ TypeOK /\ IsInjective(table) /\ ToSet(table) = {o \in Objects : mp[o].state = "ready"}
    BY DEF CountInv, TableIsOfReadyObjects
  <1>2. ToSet(table) \ gone \in SUBSET Objects
    BY <1>1
  <1>3. table' \in InTableOrder(ToSet(table) \ gone)
    BY DEF TableAfter
  <1>4. table' \in Seq(Objects) /\ IsInjective(table') /\ ToSet(table') = ToSet(table) \ gone
    <2> DEFINE s == table'
               S == ToSet(table) \ gone
    <2> HIDE DEF s, S
    <2>1. S \in SUBSET Objects /\ s \in InTableOrder(S)
      BY <1>2, <1>3 DEF s, S
    <2>2. s \in Seq(Objects) /\ IsInjective(s) /\ ToSet(s) = S
      BY <1>1, <2>1, OrderedIsInjective
    <2> QED
      BY <2>2 DEF s, S
  <1> QED
    BY <1>1, <1>4

LEMMA CancelledType ==
  ASSUME TypeOK, NEW S
  PROVE  Cancelled(S) \in [Objects -> {"none", "active", "cancelled", "handled"}]
  BY DEF Cancelled, TypeOK

LEMMA InvalidateCounts ==
  ASSUME CountInv, NEW t \in Threads, NEW x \in Objects, Invalidate(t, x) PROVE CountInv'
  <1>0. /\ TypeOK /\ CallsAreTyped /\ TableIsOfReadyObjects /\ OneInvalidates /\ ReferencesAreCounted
        /\ t \in Actors /\ t # Main
    BY ActorsAre DEF CountInv
  <1> DEFINE r == Released(Invalidating(mp[x]))
             c == [Idle EXCEPT !.pc = "announce", !.o = x]
  <1>1. /\ mp[x].state = "ready" /\ at[t] = Idle /\ UNCHANGED <<port, records, blocks>>
        /\ mp' = [mp EXCEPT ![x] = r] /\ at' = [at EXCEPT ![t] = c]
        /\ table' \in TableAfter({x}) /\ source' = Cancelled({x})
    BY DEF Invalidate
  <1>2. /\ r \in MachPorts /\ r.state = "invalidating" /\ r.refs = mp[x].refs /\ r.held = mp[x].held
        /\ r.port = mp[x].port /\ mp[x].refs # 0
    BY <1>1, TakenOffIs
  <1> HIDE DEF r
  <1>3. c \in Calls /\ c.pc = "announce" /\ c.o = x /\ c.port = None
    BY DEF Calls, Idle
  <1> HIDE DEF c
  <1>4. /\ ~Makes(c, x) /\ Ends(c) /\ ~Ends(at[t]) /\ \A o \in Objects : ~Makes(at[t], o)
        /\ IsInUse(r) /\ IsInUse(mp[x]) /\ (r.refs = 0 <=> r.state \in {"deallocating", "gone"})
    BY <1>1, <1>2, <1>3 DEF Makes, Ends, IsInUse, Idle
  <1>5. r.refs - r.held - (IF Makes(c, x) THEN 1 ELSE 0) - (IF IsInUse(r) THEN 1 ELSE 0)
         = mp[x].refs - mp[x].held - (IF Makes(at[t], x) THEN 1 ELSE 0)
           - (IF IsInUse(mp[x]) THEN 1 ELSE 0)
    BY <1>2, <1>4
  <1>6. /\ mp' \in [Objects -> MachPorts] /\ at' \in [Actors -> Calls]
        /\ mp'[x] = r /\ \A o \in Objects : o # x => mp'[o] = mp[o]
        /\ CallsAreTyped' /\ OneInvalidates' /\ ReferencesAreCounted'
    BY <1>0, <1>1, <1>2, <1>3, <1>4, <1>5, ObjectChanges
  <1>7. /\ table' \in Seq(Objects) /\ IsInjective(table')
        /\ ToSet(table') = {o \in Objects : mp[o].state = "ready" /\ o \notin {x}}
    BY <1>1, TableWithout
  <1>8. TypeOK'
    BY <1>0, <1>1, <1>6, <1>7, CancelledType DEF TypeOK
  <1>9. TableIsOfReadyObjects'
    BY <1>2, <1>6, <1>7 DEF TableIsOfReadyObjects
  <1> QED
    BY <1>6, <1>8, <1>9 DEF CountInv

LEMMA AnnouncedIs ==
  ASSUME NEW r \in MachPorts
  PROVE  /\ Announced(r) \in MachPorts /\ Announced(r).port = r.port /\ Announced(r).state = r.state
         /\ Announced(r).refs = r.refs /\ Announced(r).held = r.held /\ Announced(r).owns = r.owns
         /\ Announced(r).dsrc = r.dsrc /\ Announced(r).icallout = r.icallout
         /\ Announced(r).called = (IF r.icallout THEN r.called + 1 ELSE r.called)
  <1>1. r.called + 1 \in Nat
    BY DEF MachPorts
  <1>2. CASE r.icallout
    BY <1>1, <1>2 DEF Announced, MachPorts
  <1>3. CASE ~r.icallout
    BY <1>3 DEF Announced
  <1> QED
    BY <1>2, <1>3

LEMMA EndsFacts ==
  ASSUME CountInv, NEW a \in Actors, Ends(at[a])
  PROVE  /\ at[a].o \in Objects /\ at[a] \in Calls /\ at[a].port = None
         /\ mp[at[a].o] \in MachPorts /\ mp[at[a].o].state = "invalidating"
         /\ mp[at[a].o].refs \in Nat /\ mp[at[a].o].refs # 0 /\ mp[at[a].o].held \in Nat
         /\ \A o \in Objects : ~Makes(at[a], o)
  <1>1. /\ at[a].o \in Objects /\ at[a] \in Calls /\ at[a].port = None
        /\ mp[at[a].o].state = "invalidating"
    BY DEF CountInv, CallsAreTyped, TypeOK, Ends, OneInvalidates
  <1>2. /\ mp[at[a].o] \in MachPorts
        /\ (mp[at[a].o].refs = 0 <=> mp[at[a].o].state \in {"deallocating", "gone"})
    BY <1>1, CountFacts
  <1> QED
    BY <1>1, <1>2, ObjectFields DEF Makes, Ends

LEMMA AnnounceCounts == ASSUME CountInv, NEW a \in Actors, Announce(a) PROVE CountInv'
  <1>0. /\ TypeOK /\ CallsAreTyped /\ TableIsOfReadyObjects /\ OneInvalidates /\ ReferencesAreCounted
    BY DEF CountInv
  <1> DEFINE x == at[a].o
             r == Announced(mp[x])
             c == [at[a] EXCEPT !.pc = "settle"]
  <1>1. /\ at[a].pc = "announce" /\ UNCHANGED <<port, table, source, records, blocks>>
        /\ mp' = [mp EXCEPT ![x] = r] /\ at' = [at EXCEPT ![a] = c] /\ Ends(at[a])
    BY DEF Announce, Goto, Ends
  <1>2. /\ x \in Objects /\ mp[x] \in MachPorts /\ mp[x].state = "invalidating" /\ mp[x].refs # 0
        /\ at[a] \in Calls /\ at[a].port = None /\ at[a].o = x /\ \A o \in Objects : ~Makes(at[a], o)
    BY <1>1, EndsFacts
  <1> HIDE DEF x
  <1>3. /\ r \in MachPorts /\ r.state = "invalidating" /\ r.refs = mp[x].refs /\ r.held = mp[x].held
        /\ r.port = mp[x].port
    BY <1>2, AnnouncedIs
  <1> HIDE DEF r
  <1>4. c \in Calls /\ c.pc = "settle" /\ c.o = x /\ c.port = None
    BY <1>2 DEF Calls
  <1> HIDE DEF c
  <1>5. /\ ~Makes(c, x) /\ Ends(c) /\ ~Makes(at[a], x)
        /\ IsInUse(r) /\ IsInUse(mp[x]) /\ (r.refs = 0 <=> r.state \in {"deallocating", "gone"})
    BY <1>2, <1>3, <1>4 DEF Makes, Ends, IsInUse
  <1>6. r.refs - r.held - (IF Makes(c, x) THEN 1 ELSE 0) - (IF IsInUse(r) THEN 1 ELSE 0)
         = mp[x].refs - mp[x].held - (IF Makes(at[a], x) THEN 1 ELSE 0)
           - (IF IsInUse(mp[x]) THEN 1 ELSE 0)
    BY <1>3, <1>5
  <1>7. /\ mp' \in [Objects -> MachPorts] /\ at' \in [Actors -> Calls]
        /\ mp'[x] = r /\ \A o \in Objects : o # x => mp'[o] = mp[o]
        /\ CallsAreTyped' /\ OneInvalidates' /\ ReferencesAreCounted'
    BY <1>1, <1>2, <1>3, <1>4, <1>5, <1>6, ObjectChanges DEF x
  <1>8. TypeOK'
    BY <1>0, <1>1, <1>7 DEF TypeOK
  <1>9. TableIsOfReadyObjects'
    BY <1>0, <1>1, <1>2, <1>3, <1>7, TableKept
  <1> QED
    BY <1>7, <1>8, <1>9 DEF CountInv

\* The end of an invalidation lets go of the reference it had from the table.
LEMMA SettledIs ==
  ASSUME NEW r \in MachPorts, r.refs # 0
  PROVE  LET s == Released([r EXCEPT !.state = "invalid"])
         IN  /\ s \in MachPorts /\ s.refs = r.refs - 1
             /\ s.state = (IF r.refs = 1 THEN "deallocating" ELSE "invalid")
             /\ s.port = r.port /\ s.dsrc = r.dsrc /\ s.owns = r.owns /\ s.held = r.held
             /\ s.icallout = r.icallout /\ s.called = r.called
  <1> DEFINE i == [r EXCEPT !.state = "invalid"]
  <1>1. /\ i \in MachPorts /\ i.refs = r.refs /\ i.state = "invalid" /\ i.port = r.port
        /\ i.dsrc = r.dsrc /\ i.owns = r.owns /\ i.held = r.held /\ i.icallout = r.icallout
        /\ i.called = r.called
    BY DEF MachPorts
  <1> HIDE DEF i
  <1>2. i.refs # 0
    BY <1>1
  <1>3. /\ Released(i) \in MachPorts /\ Released(i).refs = i.refs - 1
        /\ Released(i).state = (IF i.refs = 1 THEN "deallocating" ELSE i.state)
        /\ Released(i).port = i.port /\ Released(i).dsrc = i.dsrc /\ Released(i).owns = i.owns
        /\ Released(i).icallout = i.icallout /\ Released(i).called = i.called
        /\ Released(i).held = i.held
    BY <1>1, <1>2, ReleasedIs
  <1>4. Released([r EXCEPT !.state = "invalid"]) = Released(i)
    BY DEF i
  <1> QED
    BY <1>1, <1>3, <1>4

LEMMA SettleCounts == ASSUME CountInv, NEW a \in Actors, Settle(a) PROVE CountInv'
  <1>0. /\ TypeOK /\ CallsAreTyped /\ TableIsOfReadyObjects /\ OneInvalidates /\ ReferencesAreCounted
    BY DEF CountInv
  <1> DEFINE x == at[a].o
             r == Released([mp[x] EXCEPT !.state = "invalid"])
             c == Idle
  <1>1. /\ at[a].pc = "settle" /\ UNCHANGED <<port, table, source, records, blocks>>
        /\ mp' = [mp EXCEPT ![x] = r] /\ at' = [at EXCEPT ![a] = c] /\ Ends(at[a])
    BY DEF Settle, Ends
  <1>2. /\ x \in Objects /\ mp[x] \in MachPorts /\ mp[x].state = "invalidating" /\ mp[x].refs # 0
        /\ mp[x].refs \in Nat /\ mp[x].held \in Nat
        /\ at[a] \in Calls /\ at[a].port = None /\ at[a].o = x /\ \A o \in Objects : ~Makes(at[a], o)
    BY <1>1, EndsFacts
  <1> HIDE DEF x
  <1>3. /\ r \in MachPorts /\ r.state = (IF mp[x].refs = 1 THEN "deallocating" ELSE "invalid")
        /\ r.refs = mp[x].refs - 1 /\ r.held = mp[x].held /\ r.port = mp[x].port
    BY <1>2, SettledIs
  <1> HIDE DEF r
  <1>4. c \in Calls /\ c.pc = "idle" /\ c.port = None
    BY <1>2 DEF Calls, Idle
  <1> HIDE DEF c
  <1>5. /\ ~Makes(c, x) /\ ~Ends(c) /\ ~Makes(at[a], x)
        /\ ~IsInUse(r) /\ IsInUse(mp[x]) /\ (r.refs = 0 <=> r.state \in {"deallocating", "gone"})
    BY <1>2, <1>3, <1>4 DEF Makes, Ends, IsInUse
  <1>6. r.refs - r.held - (IF Makes(c, x) THEN 1 ELSE 0) - (IF IsInUse(r) THEN 1 ELSE 0)
         = mp[x].refs - mp[x].held - (IF Makes(at[a], x) THEN 1 ELSE 0)
           - (IF IsInUse(mp[x]) THEN 1 ELSE 0)
    BY <1>2, <1>3, <1>5
  <1>7. /\ mp' \in [Objects -> MachPorts] /\ at' \in [Actors -> Calls]
        /\ mp'[x] = r /\ \A o \in Objects : o # x => mp'[o] = mp[o]
        /\ CallsAreTyped' /\ OneInvalidates' /\ ReferencesAreCounted'
    BY <1>1, <1>2, <1>3, <1>4, <1>5, <1>6, ObjectChanges DEF x
  <1>8. TypeOK'
    BY <1>0, <1>1, <1>7 DEF TypeOK
  <1>9. TableIsOfReadyObjects'
    BY <1>0, <1>1, <1>2, <1>3, <1>7, TableKept
  <1> QED
    BY <1>7, <1>8, <1>9 DEF CountInv

LEMMA SetInvalidationCallBackCounts ==
  ASSUME CountInv, NEW t \in Threads, NEW x \in Objects, SetInvalidationCallBack(t, x) PROVE CountInv'
  <1>0. /\ TypeOK /\ CallsAreTyped /\ TableIsOfReadyObjects /\ OneInvalidates /\ ReferencesAreCounted
    BY DEF CountInv
  <1>1. /\ mp[x] \in MachPorts /\ mp[x].called \in Nat
        /\ (mp[x].refs = 0 <=> mp[x].state \in {"deallocating", "gone"})
        /\ UNCHANGED <<port, table, source, records, blocks, at>>
    BY CountFacts, ObjectFields DEF SetInvalidationCallBack
  <1>2. PICK r \in MachPorts :
          /\ mp' = [mp EXCEPT ![x] = r] /\ r.port = mp[x].port /\ r.state = mp[x].state
          /\ r.refs = mp[x].refs /\ r.held = mp[x].held
    <2>1. CASE mp' = [mp EXCEPT ![x].icallout = TRUE]
      <3> DEFINE r == [mp[x] EXCEPT !.icallout = TRUE]
      <3>1. /\ r \in MachPorts /\ r.port = mp[x].port /\ r.state = mp[x].state
            /\ r.refs = mp[x].refs /\ r.held = mp[x].held
        BY <1>1 DEF MachPorts
      <3>2. mp' = [mp EXCEPT ![x] = r]
        BY <2>1
      <3> HIDE DEF r
      <3> QED
        BY <3>1, <3>2
    <2>2. CASE mp' = [mp EXCEPT ![x].called = @ + 1]
      <3> DEFINE called == mp[x].called + 1
                 r == [mp[x] EXCEPT !.called = called]
      <3>0. called \in Nat
        BY <1>1
      <3>2. mp' = [mp EXCEPT ![x] = r]
        BY <2>2
      <3> HIDE DEF called
      <3>1. /\ r \in MachPorts /\ r.port = mp[x].port /\ r.state = mp[x].state
            /\ r.refs = mp[x].refs /\ r.held = mp[x].held
        BY <1>1, <3>0 DEF MachPorts
      <3> HIDE DEF r
      <3> QED
        BY <3>1, <3>2
    <2> QED
      BY <2>1, <2>2 DEF SetInvalidationCallBack
  <1>3. r.refs - r.held - (IF IsInUse(r) THEN 1 ELSE 0)
         = mp[x].refs - mp[x].held - (IF IsInUse(mp[x]) THEN 1 ELSE 0)
    BY <1>2 DEF IsInUse
  <1>4. /\ mp' \in [Objects -> MachPorts] /\ at' \in [Actors -> Calls]
        /\ mp'[x] = r /\ \A o \in Objects : o # x => mp'[o] = mp[o]
        /\ CallsAreTyped' /\ OneInvalidates' /\ ReferencesAreCounted'
    BY <1>1, <1>2, <1>3, ObjectChangesAlone
  <1>5. TypeOK'
    BY <1>0, <1>1, <1>4 DEF TypeOK
  <1>6. TableIsOfReadyObjects'
    BY <1>0, <1>1, <1>2, <1>4, TableKept
  <1> QED
    BY <1>4, <1>5, <1>6 DEF CountInv

\* What an object is after a client let go of it: one in use is not deallocated.
LEMMA LetGoIs ==
  ASSUME CountInv, NEW x \in Objects, mp[x].held > 0
  PROVE  LET r == Released([mp[x] EXCEPT !.held = @ - 1])
         IN  /\ r \in MachPorts /\ r.refs = mp[x].refs - 1 /\ r.held = mp[x].held - 1
             /\ mp[x].refs \in Nat /\ mp[x].refs # 0 /\ mp[x].held \in Nat
             /\ r.state = (IF mp[x].refs = 1 THEN "deallocating" ELSE mp[x].state)
             /\ r.port = mp[x].port /\ r.dsrc = mp[x].dsrc /\ r.owns = mp[x].owns
             /\ r.icallout = mp[x].icallout /\ r.called = mp[x].called
             /\ (mp[x].refs = 1 => mp[x].state = "invalid")
  <1>1. /\ mp[x] \in MachPorts /\ (mp[x].refs = 0 <=> mp[x].state \in {"deallocating", "gone"})
        /\ Cardinality(Makers[x]) \in Nat
        /\ mp[x].refs = mp[x].held + Cardinality(Makers[x]) + (IF IsInUse(mp[x]) THEN 1 ELSE 0)
    BY CountFacts
  <1>2. /\ mp[x].refs \in Nat /\ mp[x].held \in Nat
        /\ mp[x].state \in {"ready", "invalidating", "invalid", "deallocating", "gone"}
    BY <1>1, ObjectFields
  <1>3. /\ mp[x].refs # 0 /\ (mp[x].refs = 1 => ~IsInUse(mp[x]))
    BY <1>1, <1>2
  <1>4. mp[x].refs = 1 => mp[x].state = "invalid"
    BY <1>1, <1>2, <1>3 DEF IsInUse
  <1> DEFINE held == mp[x].held - 1
             i == [mp[x] EXCEPT !.held = held]
  <1>5. held \in Nat
    BY <1>2
  <1> HIDE DEF held
  <1>6. /\ i \in MachPorts /\ i.refs = mp[x].refs /\ i.state = mp[x].state /\ i.held = held
        /\ i.port = mp[x].port /\ i.owns = mp[x].owns /\ i.icallout = mp[x].icallout
        /\ i.called = mp[x].called /\ i.dsrc = mp[x].dsrc
    BY <1>1, <1>5 DEF MachPorts
  <1>7. Released([mp[x] EXCEPT !.held = @ - 1]) = Released(i)
    BY DEF held
  <1> HIDE DEF i
  <1>8. /\ Released(i) \in MachPorts /\ Released(i).refs = i.refs - 1
        /\ Released(i).state = (IF i.refs = 1 THEN "deallocating" ELSE i.state)
        /\ Released(i).port = i.port /\ Released(i).dsrc = i.dsrc /\ Released(i).owns = i.owns
        /\ Released(i).icallout = i.icallout /\ Released(i).called = i.called
        /\ Released(i).held = i.held
    BY <1>3, <1>6, ReleasedIs
  <1> QED
    BY <1>2, <1>3, <1>4, <1>6, <1>7, <1>8 DEF held

LEMMA ReleaseCounts ==
  ASSUME CountInv, NEW t \in Threads, NEW x \in Objects, Release(t, x) PROVE CountInv'
  <1>0. /\ TypeOK /\ CallsAreTyped /\ TableIsOfReadyObjects /\ OneInvalidates /\ ReferencesAreCounted
    BY DEF CountInv
  <1> DEFINE r == Released([mp[x] EXCEPT !.held = @ - 1])
  <1>1. /\ mp[x].held > 0 /\ mp' = [mp EXCEPT ![x] = r]
        /\ UNCHANGED <<port, table, source, records, blocks, at>>
    BY DEF Release
  <1>2. /\ r \in MachPorts /\ r.refs = mp[x].refs - 1 /\ r.held = mp[x].held - 1
        /\ mp[x].refs \in Nat /\ mp[x].refs # 0 /\ mp[x].held \in Nat
        /\ r.state = (IF mp[x].refs = 1 THEN "deallocating" ELSE mp[x].state)
        /\ r.port = mp[x].port /\ (mp[x].refs = 1 => mp[x].state = "invalid")
        /\ (mp[x].refs = 0 <=> mp[x].state \in {"deallocating", "gone"})
    BY <1>1, LetGoIs, CountFacts
  <1> HIDE DEF r
  <1>3. /\ (IsInUse(r) <=> IsInUse(mp[x])) /\ (r.refs = 0 <=> r.state \in {"deallocating", "gone"})
        /\ (mp[x].state = "invalidating" => r.state = "invalidating")
        /\ (r.state = "ready" <=> mp[x].state = "ready")
    BY <1>2 DEF IsInUse
  <1>4. r.refs - r.held - (IF IsInUse(r) THEN 1 ELSE 0)
         = mp[x].refs - mp[x].held - (IF IsInUse(mp[x]) THEN 1 ELSE 0)
    BY <1>2, <1>3
  <1>5. /\ mp' \in [Objects -> MachPorts] /\ at' \in [Actors -> Calls]
        /\ mp'[x] = r /\ \A o \in Objects : o # x => mp'[o] = mp[o]
        /\ CallsAreTyped' /\ OneInvalidates' /\ ReferencesAreCounted'
    BY <1>1, <1>2, <1>3, <1>4, ObjectChangesAlone
  <1>6. TypeOK'
    BY <1>0, <1>1, <1>5 DEF TypeOK
  <1>7. TableIsOfReadyObjects'
    BY <1>0, <1>1, <1>3, <1>5, TableKept
  <1> QED
    BY <1>5, <1>6, <1>7 DEF CountInv

LEMMA DeallocateCounts == ASSUME CountInv, NEW x \in Objects, Deallocate(x) PROVE CountInv'
  <1>0. /\ TypeOK /\ CallsAreTyped /\ TableIsOfReadyObjects /\ OneInvalidates /\ ReferencesAreCounted
    BY DEF CountInv
  <1> DEFINE r == [mp[x] EXCEPT !.state = "gone"]
  <1>1. /\ mp[x].state = "deallocating" /\ mp' = [mp EXCEPT ![x] = r]
        /\ UNCHANGED <<table, source, blocks, at>> /\ RecordDeallocation(mp[x].port, mp[x].owns)
    BY DEF Deallocate
  <1>2. /\ mp[x] \in MachPorts /\ (mp[x].refs = 0 <=> mp[x].state \in {"deallocating", "gone"})
        /\ mp[x].owns \in BOOLEAN
    BY CountFacts, ObjectFields
  <1>3. /\ r \in MachPorts /\ r.port = mp[x].port /\ r.state = "gone"
        /\ r.refs = mp[x].refs /\ r.held = mp[x].held
    BY <1>2 DEF MachPorts
  <1> HIDE DEF r
  <1>4. /\ ~IsInUse(r) /\ ~IsInUse(mp[x]) /\ (r.refs = 0 <=> r.state \in {"deallocating", "gone"})
        /\ mp[x].state # "invalidating"
    BY <1>1, <1>2, <1>3 DEF IsInUse
  <1>5. r.refs - r.held - (IF IsInUse(r) THEN 1 ELSE 0)
         = mp[x].refs - mp[x].held - (IF IsInUse(mp[x]) THEN 1 ELSE 0)
    BY <1>3, <1>4
  <1>6. /\ mp' \in [Objects -> MachPorts] /\ at' \in [Actors -> Calls]
        /\ mp'[x] = r /\ \A o \in Objects : o # x => mp'[o] = mp[o]
        /\ CallsAreTyped' /\ OneInvalidates' /\ ReferencesAreCounted'
    BY <1>1, <1>3, <1>4, <1>5, ObjectChangesAlone
  <1>7. TypeOK'
    <2>1. port' \in [Ports -> {"none", "rights", "dead"}] /\ records' \in [Ports -> Records]
      BY <1>0, <1>1, <1>2, RecordTypes
    <2> QED
      BY <1>0, <1>1, <1>6, <2>1 DEF TypeOK
  <1>8. TableIsOfReadyObjects'
    BY <1>0, <1>1, <1>3, <1>6, TableKept
  <1> QED
    BY <1>6, <1>7, <1>8 DEF CountInv

----------------------------------------------------------------------------
(* The dispatch queues. *)

LEMMA NothingMoves ==
  ASSUME CountInv, UNCHANGED <<mp, table, blocks, at>>
  PROVE  CallsAreTyped' /\ TableIsOfReadyObjects' /\ OneInvalidates' /\ ReferencesAreCounted'
  <1>1. CallsAreTyped' /\ TableIsOfReadyObjects' /\ OneInvalidates'
    BY DEF CountInv, CallsAreTyped, TableIsOfReadyObjects, OneInvalidates, Ends
  <1>2. Makers' = Makers
    BY DEF Makers, Makes
  <1>3. ReferencesAreCounted'
    BY <1>2 DEF CountInv, ReferencesAreCounted, IsInUse
  <1> QED
    BY <1>1, <1>3

LEMMA CancelHandlerCounts == ASSUME CountInv, NEW o \in Objects, CancelHandler(o) PROVE CountInv'
  <1>1. /\ UNCHANGED <<mp, table, blocks, at>> /\ SourceInvalidated(mp[o].port)
        /\ source' = [source EXCEPT ![o] = "handled"] /\ TypeOK
    BY DEF CancelHandler, CountInv
  <1>2. port' \in [Ports -> {"none", "rights", "dead"}] /\ records' \in [Ports -> Records]
    BY <1>1, FALSE \in BOOLEAN, RecordTypes
  <1>3. TypeOK'
    BY <1>1, <1>2 DEF TypeOK
  <1> QED
    BY <1>1, <1>3, NothingMoves DEF CountInv

LEMMA PortDiesCounts == ASSUME CountInv, NEW p \in Ports, PortDies(p) PROVE CountInv'
  <1>1. /\ UNCHANGED <<mp, table, source, records, blocks, at>> /\ port' = [port EXCEPT ![p] = "dead"]
        /\ TypeOK
    BY DEF PortDies, CountInv
  <1>2. TypeOK'
    BY <1>1 DEF TypeOK
  <1> QED
    BY <1>1, <1>2, NothingMoves DEF CountInv

LEMMA StutterCounts == ASSUME CountInv, UNCHANGED vars PROVE CountInv'
  <1>1. TypeOK' /\ UNCHANGED <<mp, table, blocks, at>>
    BY DEF vars, CountInv, TypeOK
  <1> QED
    BY <1>1, NothingMoves DEF CountInv

LEMMA RunBlockCounts == ASSUME CountInv, RunBlock PROVE CountInv'
  <1>0. /\ TypeOK /\ CallsAreTyped /\ TableIsOfReadyObjects /\ OneInvalidates /\ ReferencesAreCounted
        /\ Main \in Actors
    BY ActorsAre DEF CountInv
  <1> DEFINE x == Head(blocks)
             c == [Idle EXCEPT !.pc = "announce", !.o = x]
  <1>1. /\ at[Main] = Idle /\ blocks # <<>> /\ blocks \in Seq(Objects) /\ IsInjective(blocks)
        /\ at' = [at EXCEPT ![Main] = c] /\ blocks' = Tail(blocks)
        /\ UNCHANGED <<port, mp, table, source, records>>
    BY <1>0 DEF RunBlock, TypeOK, OneInvalidates
  <1>2. /\ blocks' \in Seq(Objects) /\ IsInjective(blocks') /\ x \in ToSet(blocks)
        /\ x \in Objects /\ ToSet(blocks') = ToSet(blocks) \ {x}
    BY <1>1, TailIsInjective
  <1>3. c \in Calls /\ c.pc = "announce" /\ c.o = x /\ c.port = None
    BY <1>2 DEF Calls, Idle
  <1> HIDE DEF c, x
  <1>4. ~Ends(at[Main]) /\ \A o \in Objects : ~Makes(c, o) /\ ~Makes(at[Main], o)
    BY <1>1, <1>3 DEF Ends, Makes, Idle
  <1>5. CallsAreTyped'
    BY <1>0, <1>1, <1>2, <1>3, TypedAfter
  <1>6. ReferencesAreCounted'
    BY <1>0, <1>1, <1>3, <1>4, CountedMoving
  <1>7. /\ at' \in [Actors -> Calls] /\ at'[Main] = c
        /\ \A b \in Actors : b # Main => at'[b] = at[b]
    BY <1>0, <1>1, <1>3, MovesTo
  <1>8. OneInvalidates'
    <2>1. /\ \A o \in ToSet(blocks) : mp[o].state = "invalidating"
          /\ \A a \in Actors : Ends(at[a]) => /\ mp[at[a].o].state = "invalidating"
                                              /\ at[a].o \notin ToSet(blocks)
          /\ \A a, b \in Actors : Ends(at[a]) /\ Ends(at[b]) /\ at[a].o = at[b].o => a = b
      BY <1>0 DEF OneInvalidates
    <2>2. \A o \in ToSet(blocks') : mp'[o].state = "invalidating"
      BY <1>1, <1>2, <2>1
    <2>3. \A a \in Actors : Ends(at'[a]) => /\ mp'[at'[a].o].state = "invalidating"
                                            /\ at'[a].o \notin ToSet(blocks')
      BY <1>1, <1>2, <1>3, <1>7, <2>1
    <2>4. \A a, b \in Actors : Ends(at'[a]) /\ Ends(at'[b]) /\ at'[a].o = at'[b].o => a = b
      BY <1>2, <1>3, <1>7, <2>1
    <2> QED
      BY <1>2, <2>2, <2>3, <2>4 DEF OneInvalidates, Ends
  <1>9. TypeOK' /\ TableIsOfReadyObjects'
    BY <1>0, <1>1, <1>2, <1>7 DEF TypeOK, TableIsOfReadyObjects
  <1> QED
    BY <1>5, <1>6, <1>8, <1>9 DEF CountInv

LEMMA CheckerCounts == ASSUME CountInv, NEW watcher \in Objects, Checker(watcher) PROVE CountInv'
  <1>0. /\ TypeOK /\ CallsAreTyped /\ TableIsOfReadyObjects /\ OneInvalidates /\ ReferencesAreCounted
    BY DEF CountInv
  <1> DEFINE unwanted == {o \in ToSet(table) : Unwanted(o)}
             ready == {o \in unwanted : mp[o].state = "ready"}
  <1>1. /\ mp' = [o \in Objects |->
             IF o \in ready THEN Released(Invalidating(mp[o]))
             ELSE IF o \in unwanted THEN Released(mp[o]) ELSE mp[o]]
        /\ source' = Cancelled(ready) /\ table' \in TableAfter(unwanted)
        /\ \E checked \in InTableOrder(ready) : blocks' = blocks \o checked
        /\ UNCHANGED <<port, records, at>>
    BY DEF Checker
  <1>2. /\ ready = unwanted /\ ready \in SUBSET Objects /\ \A o \in ready : mp[o].state = "ready"
        /\ IsInjective(table) /\ ToSet(table) = {o \in Objects : mp[o].state = "ready"}
    BY <1>0 DEF TableIsOfReadyObjects
  <1> HIDE DEF unwanted, ready
  <1>3. \A o \in Objects : mp'[o] = IF o \in ready THEN Released(Invalidating(mp[o])) ELSE mp[o]
    BY <1>1, <1>2
  <1>4. ASSUME NEW o \in Objects
        PROVE  /\ mp'[o] \in MachPorts /\ mp'[o].port = mp[o].port /\ mp'[o].refs = mp[o].refs
               /\ mp'[o].held = mp[o].held
               /\ mp'[o].state = IF o \in ready THEN "invalidating" ELSE mp[o].state
    <2>1. CASE o \in ready
      BY <1>2, <1>3, <2>1, TakenOffIs
    <2>2. CASE o \notin ready
      BY <1>0, <1>3, <2>2 DEF TypeOK
    <2> QED
      BY <2>1, <2>2
  <1>5. PICK checked \in InTableOrder(ready) : blocks' = blocks \o checked
    BY <1>1
  <1>6. checked \in Seq(Objects) /\ IsInjective(checked) /\ ToSet(checked) = ready
    BY <1>0, <1>2, OrderedIsInjective
  <1>7. /\ blocks \in Seq(Objects) /\ IsInjective(blocks) /\ ToSet(blocks) \cap ToSet(checked) = {}
    BY <1>0, <1>2, <1>6 DEF OneInvalidates, TypeOK
  <1>8. /\ blocks' \in Seq(Objects) /\ IsInjective(blocks')
        /\ ToSet(blocks') = ToSet(blocks) \cup ready
    BY <1>5, <1>6, <1>7, JoinedIsInjective
  <1>9. /\ table' \in Seq(Objects) /\ IsInjective(table')
        /\ ToSet(table') = {o \in Objects : mp[o].state = "ready" /\ o \notin ready}
    BY <1>1, <1>2, TableWithout
  <1>10. mp' \in [Objects -> MachPorts]
    <2>1. mp' = [o \in Objects |-> mp'[o]]
      BY <1>1
    <2> QED
      BY <1>4, <2>1
  <1>11. TypeOK'
    BY <1>0, <1>1, <1>8, <1>9, <1>10, CancelledType DEF TypeOK
  <1>12. CallsAreTyped'
    BY <1>0, <1>1, <1>4, TypedAlone
  <1>13. TableIsOfReadyObjects'
    BY <1>4, <1>9 DEF TableIsOfReadyObjects
  <1>14. OneInvalidates'
    <2>1. /\ \A o \in ToSet(blocks) : mp[o].state = "invalidating"
          /\ \A a \in Actors : Ends(at[a]) => /\ mp[at[a].o].state = "invalidating"
                                              /\ at[a].o \notin ToSet(blocks) /\ at[a].o \in Objects
          /\ \A a, b \in Actors : Ends(at[a]) /\ Ends(at[b]) /\ at[a].o = at[b].o => a = b
      BY <1>0 DEF OneInvalidates, CallsAreTyped, Ends
    <2>2. ToSet(blocks) \subseteq Objects
      BY <1>7 DEF ToSet
    <2>3. \A o \in ToSet(blocks') : mp'[o].state = "invalidating"
      BY <1>2, <1>4, <1>8, <2>1, <2>2
    <2>4. \A a \in Actors : Ends(at[a]) => /\ mp'[at[a].o].state = "invalidating"
                                           /\ at[a].o \notin ToSet(blocks')
      BY <1>2, <1>4, <1>8, <2>1
    <2> QED
      BY <1>1, <1>8, <2>1, <2>3, <2>4 DEF OneInvalidates, Ends
  <1>15. ReferencesAreCounted'
    <2>1. Makers' = Makers
      BY <1>1 DEF Makers, Makes
    <2> SUFFICES ASSUME NEW o \in Objects
                 PROVE  /\ IsFiniteSet(Makers[o])
                        /\ mp'[o].refs = mp'[o].held + Cardinality(Makers[o])
                                         + (IF IsInUse(mp'[o]) THEN 1 ELSE 0)
                        /\ mp'[o].refs = 0 <=> mp'[o].state \in {"deallocating", "gone"}
      BY <2>1 DEF ReferencesAreCounted, IsInUse
    <2>2. /\ IsFiniteSet(Makers[o])
          /\ mp[o].refs = mp[o].held + Cardinality(Makers[o]) + (IF IsInUse(mp[o]) THEN 1 ELSE 0)
          /\ (mp[o].refs = 0 <=> mp[o].state \in {"deallocating", "gone"})
      BY CountFacts
    <2>3. /\ mp'[o].refs = mp[o].refs /\ mp'[o].held = mp[o].held
          /\ mp'[o].state = IF o \in ready THEN "invalidating" ELSE mp[o].state
          /\ (o \in ready => mp[o].state = "ready")
      BY <1>2, <1>4
    <2>4. IsInUse(mp'[o]) <=> IsInUse(mp[o])
      BY <2>3 DEF IsInUse
    <2> QED
      BY <2>2, <2>3, <2>4
  <1> QED
    BY <1>11, <1>12, <1>13, <1>14, <1>15 DEF CountInv

----------------------------------------------------------------------------
(* The count is kept. *)

LEMMA CountIsKept == CountInv /\ [Next]_vars => CountInv'
  <1> SUFFICES ASSUME CountInv, [Next]_vars PROVE CountInv'
    OBVIOUS
  <1>1. ASSUME NEW t \in Threads, Client(t) PROVE CountInv'
    BY <1>1, CreateCounts, CreateWithPortCounts, InvalidateCounts, SetInvalidationCallBackCounts,
       ReleaseCounts DEF Client
  <1>2. ASSUME NEW t \in Threads, Making(t) PROVE CountInv'
    BY <1>2, FindCounts, MakeCounts, MakeFailsCounts, RecordIntentCounts, MakeSourceCounts,
       CheckCounts DEF Making
  <1>3. ASSUME NEW a \in Actors, Finishing(a) PROVE CountInv'
    BY <1>3, AnnounceCounts, SettleCounts DEF Finishing
  <1>4. ASSUME NEW o \in Objects, Deallocate(o) \/ CancelHandler(o) \/ Checker(o) PROVE CountInv'
    BY <1>4, DeallocateCounts, CancelHandlerCounts, CheckerCounts
  <1>5. ASSUME NEW p \in Ports, PortDies(p) PROVE CountInv'
    BY <1>5, PortDiesCounts
  <1> QED
    BY <1>1, <1>2, <1>3, <1>4, <1>5, RunBlockCounts, StutterCounts DEF Next

\* Every reachable state is typed: no object's references, and no client's, are
\* let go of more often than they were taken.
THEOREM PortsTypeCorrect == Spec => []TypeOK
  <1>1. Init => CountInv
    BY InitCounts
  <1>2. CountInv /\ [Next]_vars => CountInv'
    BY CountIsKept
  <1>3. CountInv => TypeOK
    BY DEF CountInv
  <1> QED
    BY <1>1, <1>2, <1>3, PTL DEF Spec

----------------------------------------------------------------------------
(* What each step does to the objects, their references apart. *)

\* Alike but for the references
Alike(r, s) ==
  /\ r.state = s.state /\ r.port = s.port /\ r.dsrc = s.dsrc
  /\ r.owns = s.owns /\ r.icallout = s.icallout /\ r.called = s.called

\* ...and what is left when a reference goes
LetGo(r, s) ==
  /\ \/ r.state = s.state
     \/ s.state = "invalid" /\ r.state = "deallocating"
  /\ r.port = s.port /\ r.dsrc = s.dsrc
  /\ r.owns = s.owns /\ r.icallout = s.icallout /\ r.called = s.called

LEMMA FindEffect ==
  ASSUME CountInv, NEW t \in Threads, Find(t)
  PROVE  \A o \in Objects : Alike(mp'[o], mp[o])
  <1>0. mp \in [Objects -> MachPorts] /\ table \in Seq(Objects) /\ DOMAIN table = 1..Len(table)
    BY DEF CountInv, TypeOK
  <1>1. ASSUME NEW i \in DOMAIN table, mp' = [mp EXCEPT ![table[i]].refs = @ + 1]
        PROVE  \A o \in Objects : Alike(mp'[o], mp[o])
    <2> DEFINE x == table[i]
               refs == mp[x].refs + 1
    <2>1. x \in Objects /\ mp[x] \in MachPorts
      BY <1>0, <1>1
    <2>2. mp' = [mp EXCEPT ![x] = [mp[x] EXCEPT !.refs = refs]]
      BY <1>0, <1>1, <2>1
    <2> HIDE DEF x, refs
    <2>3. Alike([mp[x] EXCEPT !.refs = refs], mp[x])
      BY <2>1 DEF Alike, MachPorts
    <2> QED
      BY <1>0, <2>1, <2>2, <2>3 DEF Alike
  <1>2. ASSUME UNCHANGED mp
        PROVE  \A o \in Objects : Alike(mp'[o], mp[o])
    BY <1>2 DEF Alike
  <1> QED
    BY <1>1, <1>2 DEF Find

LEMMA MakeEffect ==
  ASSUME CountInv, NEW t \in Threads, NEW x \in Objects, Make(t, x)
  PROVE  /\ mp'[x].state = "ready" /\ mp'[x].port = at[t].port /\ ~mp'[x].dsrc /\ ~mp'[x].owns
         /\ ~mp'[x].icallout /\ mp'[x].called = 0 /\ mp[x].state = "gone"
         /\ source[x] \in {"none", "handled"}
         /\ \A o \in Objects : o # x => mp'[o] = mp[o]
  BY DEF Make, IsUnused, CountInv, TypeOK, Gone

LEMMA MakeSourceEffect ==
  ASSUME CountInv, NEW t \in Threads, MakeSource(t)
  PROVE  /\ at[t].o \in Objects /\ mp'[at[t].o].dsrc
         /\ mp'[at[t].o].state = mp[at[t].o].state /\ mp'[at[t].o].port = mp[at[t].o].port
         /\ mp'[at[t].o].owns = mp[at[t].o].owns /\ mp'[at[t].o].icallout = mp[at[t].o].icallout
         /\ mp'[at[t].o].called = mp[at[t].o].called
         /\ \A o \in Objects : o # at[t].o => mp'[o] = mp[o]
  <1> DEFINE x == at[t].o
  <1>1. x \in Objects /\ mp[x] \in MachPorts /\ mp \in [Objects -> MachPorts]
    BY ActorsAre DEF CountInv, CallsAreTyped, MakeSource, TypeOK
  <1>2. mp' = [mp EXCEPT ![x] = [mp[x] EXCEPT !.dsrc = TRUE]]
    BY DEF MakeSource
  <1> HIDE DEF x
  <1>3. /\ x \in Objects /\ mp'[x].dsrc
        /\ mp'[x].state = mp[x].state /\ mp'[x].port = mp[x].port
        /\ mp'[x].owns = mp[x].owns /\ mp'[x].icallout = mp[x].icallout
        /\ mp'[x].called = mp[x].called
        /\ \A o \in Objects : o # x => mp'[o] = mp[o]
    BY <1>1, <1>2 DEF MachPorts
  <1> QED
    BY <1>3 DEF x

LEMMA ReleasedObject ==
  ASSUME CountInv, NEW x \in Objects, mp[x].refs # 0, mp[x].refs = 1 => mp[x].state = "invalid"
  PROVE  LetGo(Released(mp[x]), mp[x])
  <1>1. mp[x] \in MachPorts
    BY CountFacts
  <1>2. /\ Released(mp[x]).state = (IF mp[x].refs = 1 THEN "deallocating" ELSE mp[x].state)
        /\ Released(mp[x]).port = mp[x].port /\ Released(mp[x]).dsrc = mp[x].dsrc
        /\ Released(mp[x]).owns = mp[x].owns /\ Released(mp[x]).icallout = mp[x].icallout
        /\ Released(mp[x]).called = mp[x].called
    BY <1>1, ReleasedIs
  <1> DEFINE r == Released(mp[x])
  <1> HIDE DEF r
  <1>3. LetGo(r, mp[x])
    BY <1>2 DEF LetGo, r
  <1> QED
    BY <1>3 DEF r

LEMMA CheckEffect ==
  ASSUME CountInv, NEW t \in Threads, Check(t)
  PROVE  /\ at[t].o \in Objects /\ \A o \in Objects : o # at[t].o => mp'[o] = mp[o]
         /\ \/ /\ IsValid(at[t].o) /\ UNCHANGED port
               /\ mp'[at[t].o].owns = (mp[at[t].o].owns \/ at[t].create)
               /\ mp'[at[t].o].state = mp[at[t].o].state /\ mp'[at[t].o].port = mp[at[t].o].port
               /\ mp'[at[t].o].dsrc = mp[at[t].o].dsrc /\ mp'[at[t].o].called = mp[at[t].o].called
               /\ mp'[at[t].o].icallout = mp[at[t].o].icallout
            \/ /\ ~IsValid(at[t].o) /\ LetGo(mp'[at[t].o], mp[at[t].o])
               /\ port' = IF at[t].create THEN GivenBack(at[t].port) ELSE port
  <1> DEFINE x == at[t].o
  <1>1. x \in Objects /\ mp[x] \in MachPorts /\ mp \in [Objects -> MachPorts] /\ Makes(at[t], x)
    BY ActorsAre DEF CountInv, CallsAreTyped, Check, TypeOK, Makes
  <1>2. /\ mp[x].refs \in Nat /\ mp[x].refs # 0 /\ (mp[x].refs = 1 => mp[x].state = "invalid")
    <2>1. /\ (mp[x].refs = 0 <=> mp[x].state \in {"deallocating", "gone"})
          /\ Cardinality(Makers[x]) \in Nat /\ Cardinality(Makers[x]) >= 1
          /\ mp[x].refs = mp[x].held + Cardinality(Makers[x]) + (IF IsInUse(mp[x]) THEN 1 ELSE 0)
      BY <1>1, ActorsAre, CountFacts
    <2>2. /\ mp[x].refs \in Nat /\ mp[x].held \in Nat
          /\ mp[x].state \in {"ready", "invalidating", "invalid", "deallocating", "gone"}
      BY <1>1, ObjectFields
    <2>3. mp[x].refs # 0 /\ (mp[x].refs = 1 => ~IsInUse(mp[x]))
      BY <2>1, <2>2
    <2> QED
      BY <2>1, <2>2, <2>3 DEF IsInUse
  <1>3. CASE /\ IsValid(x) /\ UNCHANGED port
             /\ mp' = [mp EXCEPT ![x].held = @ + 1, ![x].owns = @ \/ at[t].create]
    <2> DEFINE owns == mp[x].owns \/ at[t].create
               held == mp[x].held + 1
    <2>1. mp' = [mp EXCEPT ![x] = [mp[x] EXCEPT !.held = held, !.owns = owns]]
      BY <1>1, <1>3
    <2> HIDE DEF owns, held, x
    <2>2. /\ mp'[x].owns = owns /\ mp'[x].state = mp[x].state /\ mp'[x].port = mp[x].port
          /\ mp'[x].dsrc = mp[x].dsrc /\ mp'[x].called = mp[x].called
          /\ mp'[x].icallout = mp[x].icallout /\ \A o \in Objects : o # x => mp'[o] = mp[o]
      BY <1>1, <2>1 DEF MachPorts
    <2> QED
      BY <1>1, <1>3, <2>2 DEF owns, x
  <1>4. CASE /\ ~IsValid(x) /\ mp' = [mp EXCEPT ![x] = Released(@)]
             /\ port' = IF at[t].create THEN GivenBack(at[t].port) ELSE port
    <2>1. mp'[x] = Released(mp[x]) /\ \A o \in Objects : o # x => mp'[o] = mp[o]
      BY <1>1, <1>4
    <2>2. LetGo(mp'[x], mp[x])
      BY <1>1, <1>2, <2>1, ReleasedObject
    <2> QED
      BY <1>1, <1>4, <2>1, <2>2
  <1> QED
    BY <1>3, <1>4 DEF Check

LEMMA InvalidateEffect ==
  ASSUME CountInv, NEW t \in Threads, NEW x \in Objects, Invalidate(t, x)
  PROVE  /\ mp[x].state = "ready" /\ mp'[x].state = "invalidating" /\ ~mp'[x].dsrc
         /\ mp'[x].port = mp[x].port /\ mp'[x].owns = mp[x].owns
         /\ mp'[x].icallout = mp[x].icallout /\ mp'[x].called = mp[x].called
         /\ \A o \in Objects : o # x => mp'[o] = mp[o]
  <1>1. /\ mp[x].state = "ready" /\ mp' = [mp EXCEPT ![x] = Released(Invalidating(@))]
        /\ mp \in [Objects -> MachPorts]
    BY DEF Invalidate, CountInv, TypeOK
  <1>2. mp'[x] = Released(Invalidating(mp[x])) /\ \A o \in Objects : o # x => mp'[o] = mp[o]
    BY <1>1
  <1> QED
    BY <1>1, <1>2, TakenOffIs

LEMMA AnnounceEffect ==
  ASSUME CountInv, NEW a \in Actors, Announce(a)
  PROVE  /\ at[a].o \in Objects /\ \A o \in Objects : o # at[a].o => mp'[o] = mp[o]
         /\ mp'[at[a].o] = Announced(mp[at[a].o])
  BY DEF Announce, CountInv, TypeOK, CallsAreTyped

LEMMA SettleEffect ==
  ASSUME CountInv, NEW a \in Actors, Settle(a)
  PROVE  /\ at[a].o \in Objects /\ \A o \in Objects : o # at[a].o => mp'[o] = mp[o]
         /\ mp'[at[a].o].state \in {"invalid", "deallocating"} /\ mp[at[a].o].state = "invalidating"
         /\ mp'[at[a].o].port = mp[at[a].o].port /\ mp'[at[a].o].dsrc = mp[at[a].o].dsrc
         /\ mp'[at[a].o].owns = mp[at[a].o].owns /\ mp'[at[a].o].called = mp[at[a].o].called
         /\ mp'[at[a].o].icallout = mp[at[a].o].icallout
  <1>1. Ends(at[a]) /\ mp \in [Objects -> MachPorts]
    BY DEF Settle, Ends, CountInv, TypeOK
  <1>2. /\ at[a].o \in Objects /\ mp[at[a].o] \in MachPorts /\ mp[at[a].o].state = "invalidating"
        /\ mp[at[a].o].refs # 0
    BY <1>1, EndsFacts
  <1>3. /\ mp'[at[a].o] = Released([mp[at[a].o] EXCEPT !.state = "invalid"])
        /\ \A o \in Objects : o # at[a].o => mp'[o] = mp[o]
    BY <1>1, <1>2 DEF Settle
  <1> QED
    BY <1>2, <1>3, SettledIs

LEMMA SetInvalidationCallBackEffect ==
  ASSUME CountInv, NEW t \in Threads, NEW x \in Objects, SetInvalidationCallBack(t, x)
  PROVE  /\ \A o \in Objects : o # x => mp'[o] = mp[o]
         /\ mp'[x].state = mp[x].state /\ mp'[x].port = mp[x].port
         /\ mp'[x].dsrc = mp[x].dsrc /\ mp'[x].owns = mp[x].owns
         /\ \/ mp[x].state = "ready" /\ mp'[x].icallout /\ mp'[x].called = mp[x].called
            \/ /\ mp[x].state # "ready" /\ ~mp[x].icallout /\ mp[x].called = 0
               /\ mp'[x].icallout = mp[x].icallout /\ mp'[x].called = 1
  <1>1. mp \in [Objects -> MachPorts] /\ mp[x] \in MachPorts
    BY DEF CountInv, TypeOK
  <1>2. CASE mp[x].state = "ready" /\ mp' = [mp EXCEPT ![x].icallout = TRUE]
    BY <1>1, <1>2 DEF MachPorts
  <1>3. CASE /\ mp[x].state # "ready" /\ ~mp[x].icallout /\ mp[x].called = 0
             /\ mp' = [mp EXCEPT ![x].called = @ + 1]
    <2>1. mp' = [mp EXCEPT ![x] = [mp[x] EXCEPT !.called = 1]]
      BY <1>1, <1>3
    <2> QED
      BY <1>1, <1>3, <2>1 DEF MachPorts
  <1> QED
    BY <1>2, <1>3 DEF SetInvalidationCallBack

LEMMA ReleaseEffect ==
  ASSUME CountInv, NEW t \in Threads, NEW x \in Objects, Release(t, x)
  PROVE  LetGo(mp'[x], mp[x]) /\ \A o \in Objects : o # x => mp'[o] = mp[o]
  <1>1. /\ mp[x].held > 0 /\ mp' = [mp EXCEPT ![x] = Released([mp[x] EXCEPT !.held = @ - 1])]
        /\ mp \in [Objects -> MachPorts]
    BY DEF Release, CountInv, TypeOK
  <1>2. /\ mp'[x] = Released([mp[x] EXCEPT !.held = @ - 1])
        /\ \A o \in Objects : o # x => mp'[o] = mp[o]
    BY <1>1
  <1>3. LetGo(Released([mp[x] EXCEPT !.held = @ - 1]), mp[x])
    BY <1>1, LetGoIs DEF LetGo
  <1> QED
    BY <1>2, <1>3

LEMMA DeallocateEffect ==
  ASSUME CountInv, NEW x \in Objects, Deallocate(x)
  PROVE  /\ mp[x].state = "deallocating" /\ mp'[x].state = "gone" /\ mp'[x].port = mp[x].port
         /\ mp'[x].dsrc = mp[x].dsrc /\ mp'[x].owns = mp[x].owns
         /\ mp'[x].icallout = mp[x].icallout /\ mp'[x].called = mp[x].called
         /\ \A o \in Objects : o # x => mp'[o] = mp[o]
  <1>1. mp \in [Objects -> MachPorts] /\ mp[x] \in MachPorts
    BY DEF CountInv, TypeOK
  <1>2. mp[x].state = "deallocating" /\ mp' = [mp EXCEPT ![x] = [mp[x] EXCEPT !.state = "gone"]]
    BY DEF Deallocate
  <1> QED
    BY <1>1, <1>2 DEF MachPorts

LEMMA CheckerEffect ==
  ASSUME CountInv, NEW watcher \in Objects, Checker(watcher)
  PROVE  \E ready \in SUBSET Objects :
           /\ source' = Cancelled(ready)
           /\ \A o \in ready : /\ mp[o].state = "ready" /\ mp'[o].state = "invalidating"
                               /\ ~mp'[o].dsrc /\ mp'[o].port = mp[o].port
                               /\ mp'[o].owns = mp[o].owns /\ mp'[o].icallout = mp[o].icallout
                               /\ mp'[o].called = mp[o].called /\ Unwanted(o)
           /\ \A o \in Objects : o \notin ready => mp'[o] = mp[o]
  <1> DEFINE unwanted == {o \in ToSet(table) : Unwanted(o)}
             ready == {o \in unwanted : mp[o].state = "ready"}
  <1>1. /\ mp' = [o \in Objects |->
             IF o \in ready THEN Released(Invalidating(mp[o]))
             ELSE IF o \in unwanted THEN Released(mp[o]) ELSE mp[o]]
        /\ source' = Cancelled(ready)
    BY DEF Checker
  <1>2. /\ ready = unwanted /\ ready \in SUBSET Objects
        /\ \A o \in ready : mp[o].state = "ready" /\ Unwanted(o)
    BY DEF CountInv, TableIsOfReadyObjects
  <1> HIDE DEF unwanted, ready
  <1>3. \A o \in Objects : mp'[o] = IF o \in ready THEN Released(Invalidating(mp[o])) ELSE mp[o]
    BY <1>1, <1>2
  <1>4. ASSUME NEW o \in ready
        PROVE  /\ mp[o].state = "ready" /\ mp'[o].state = "invalidating"
               /\ ~mp'[o].dsrc /\ mp'[o].port = mp[o].port
               /\ mp'[o].owns = mp[o].owns /\ mp'[o].icallout = mp[o].icallout
               /\ mp'[o].called = mp[o].called /\ Unwanted(o)
    BY <1>2, <1>3, TakenOffIs
  <1> QED
    BY <1>1, <1>2, <1>3, <1>4

----------------------------------------------------------------------------
(* Invalidation callbacks. *)

LEMMA SettlingKept ==
  ASSUME TypeOK, NEW a \in Actors, NEW c \in Calls, at' = [at EXCEPT ![a] = c],
         at[a].pc # "settle", c.pc # "settle"
  PROVE  Settling' = Settling
  <1>1. at'[a] = c /\ \A b \in Actors : b # a => at'[b] = at[b]
    BY MovesTo
  <1> QED
    BY <1>1 DEF Settling

\* One that settles an object has it to itself, and it is being invalidated.
LEMMA SettlingIs ==
  ASSUME CountInv
  PROVE  \A o \in Settling : mp[o].state = "invalidating"
  BY DEF CountInv, OneInvalidates, Settling, Ends

LEMMA CallsKept ==
  ASSUME CountInv, CallsAreCounted, Settling' = Settling,
         \A o \in Objects :
           /\ mp'[o].called = mp[o].called /\ mp'[o].icallout = mp[o].icallout
           /\ \/ mp'[o].state = mp[o].state
              \/ mp[o].state = "ready" /\ mp'[o].state = "invalidating"
              \/ mp[o].state = "invalid" /\ mp'[o].state = "deallocating"
              \/ mp[o].state = "deallocating" /\ mp'[o].state = "gone"
  PROVE  CallsAreCounted'
  <1> SUFFICES ASSUME NEW o \in Objects
               PROVE  /\ mp'[o].called <= 1
                      /\ mp'[o].state = "ready" => mp'[o].called = 0
                      /\ (mp'[o].state = "invalidating" /\ mp'[o].icallout /\ o \notin Settling) =>
                           mp'[o].called = 0
                      /\ (/\ mp'[o].icallout
                          /\ mp'[o].state \in {"invalid", "deallocating"} \/ o \in Settling) =>
                           mp'[o].called = 1
    BY DEF CallsAreCounted
  <1>1. /\ mp[o].called <= 1 /\ (mp[o].state = "ready" => mp[o].called = 0)
        /\ (mp[o].state = "invalidating" /\ mp[o].icallout /\ o \notin Settling) => mp[o].called = 0
        /\ (mp[o].icallout /\ (mp[o].state \in {"invalid", "deallocating"} \/ o \in Settling)) =>
             mp[o].called = 1
    BY DEF CallsAreCounted
  <1>2. o \in Settling => mp[o].state = "invalidating"
    BY SettlingIs
  <1> QED
    BY <1>1, <1>2

\* Nobody settles after this step that did not before, and the objects are alike.
LEMMA CallsKeptAlike ==
  ASSUME CountInv, CallsAreCounted, Settling' = Settling, \A o \in Objects : Alike(mp'[o], mp[o])
  PROVE  CallsAreCounted'
  BY CallsKept DEF Alike

LEMMA MakingCalls == ASSUME CallbackInv, NEW t \in Threads, Making(t) PROVE CallsAreCounted'
  <1>0. CountInv /\ CallsAreCounted /\ TypeOK /\ t \in Actors /\ at[t] \in Calls
    BY ActorsAre DEF CallbackInv, CountInv, TypeOK
  <1>1. Settling' = Settling
    <2>1. PICK c \in Calls : at' = [at EXCEPT ![t] = c] /\ at[t].pc # "settle" /\ c.pc # "settle"
      <3>1. ASSUME NEW pc \in {"make", "source", "check"}
            PROVE  [at[t] EXCEPT !.pc = pc] \in Calls /\ [at[t] EXCEPT !.pc = pc].pc = pc
        BY <1>0 DEF Calls
      <3>2. ASSUME NEW x \in Objects, NEW pc \in {"check", "intent"}
            PROVE  /\ [at[t] EXCEPT !.pc = pc, !.o = x] \in Calls
                   /\ [at[t] EXCEPT !.pc = pc, !.o = x].pc = pc
        BY <1>0 DEF Calls
      <3>3. Idle \in Calls /\ Idle.pc = "idle"
        BY DEF Idle, Calls
      <3>4. CASE Find(t)
        <4>1. at[t].pc = "find"
          BY <3>4 DEF Find
        <4>2. ASSUME NEW i \in DOMAIN table, at' = [at EXCEPT ![t].pc = "check", ![t].o = table[i]]
              PROVE  \E c \in Calls : at' = [at EXCEPT ![t] = c] /\ c.pc # "settle"
          <5> DEFINE x == table[i]
                     c == [at[t] EXCEPT !.pc = "check", !.o = x]
          <5>0. table \in Seq(Objects)
            BY <1>0 DEF TypeOK
          <5>1. x \in Objects
            BY <5>0
          <5>3. at' = [at EXCEPT ![t] = c]
            BY <4>2
          <5> HIDE DEF x
          <5>2. c \in Calls /\ c.pc = "check"
            BY <3>2, <5>1
          <5> HIDE DEF c
          <5> QED
            BY <5>2, <5>3
        <4>3. ASSUME Goto(t, "make")
              PROVE  \E c \in Calls : at' = [at EXCEPT ![t] = c] /\ c.pc # "settle"
          BY <3>1, <4>3 DEF Goto
        <4>4. \/ \E i \in DOMAIN table : at' = [at EXCEPT ![t].pc = "check", ![t].o = table[i]]
              \/ Goto(t, "make")
          BY <3>4 DEF Find
        <4>5. \E c \in Calls : at' = [at EXCEPT ![t] = c] /\ c.pc # "settle"
          BY <4>2, <4>3, <4>4
        <4>6. at[t].pc # "settle"
          BY <4>1
        <4> QED
          BY <4>5, <4>6
      <3>5. CASE \E o \in Objects : Make(t, o)
        <4>1. PICK x \in Objects : Make(t, x)
          BY <3>5
        <4> DEFINE c == [at[t] EXCEPT !.pc = "intent", !.o = x]
        <4>2. at' = [at EXCEPT ![t] = c] /\ at[t].pc = "make"
          BY <4>1 DEF Make
        <4>3. c \in Calls /\ c.pc = "intent"
          BY <3>2
        <4> HIDE DEF c
        <4> QED
          BY <4>2, <4>3
      <3>6. CASE MakeFails(t)
        BY <3>3, <3>6 DEF MakeFails
      <3>7. CASE RecordIntent(t)
        BY <3>1, <3>7 DEF RecordIntent, Goto
      <3>8. CASE MakeSource(t)
        BY <3>1, <3>8 DEF MakeSource, Goto
      <3>9. CASE Check(t)
        BY <3>3, <3>9 DEF Check
      <3> QED
        BY <3>4, <3>5, <3>6, <3>7, <3>8, <3>9 DEF Making
    <2> QED
      BY <1>0, <2>1, SettlingKept
  <1>2. CASE Find(t)
    BY <1>0, <1>1, <1>2, FindEffect, CallsKeptAlike
  <1>3. ASSUME NEW x \in Objects, Make(t, x) PROVE CallsAreCounted'
    <2>1. /\ ~mp'[x].icallout /\ mp'[x].called = 0 /\ mp'[x].state = "ready"
          /\ \A o \in Objects : o # x => mp'[o] = mp[o]
      BY <1>0, <1>3, MakeEffect
    <2> QED
      BY <1>0, <1>1, <2>1 DEF CallsAreCounted
  <1>4. CASE MakeFails(t) \/ RecordIntent(t)
    <2>1. UNCHANGED mp
      BY <1>4 DEF MakeFails, RecordIntent
    <2> QED
      BY <1>0, <1>1, <2>1, CallsKeptAlike DEF Alike
  <1>5. CASE MakeSource(t)
    <2>1. \A o \in Objects : /\ mp'[o].called = mp[o].called /\ mp'[o].icallout = mp[o].icallout
                             /\ mp'[o].state = mp[o].state
      BY <1>0, <1>5, MakeSourceEffect
    <2> QED
      BY <1>0, <1>1, <2>1, CallsKept
  <1>6. CASE Check(t)
    <2>1. \A o \in Objects : /\ mp'[o].called = mp[o].called /\ mp'[o].icallout = mp[o].icallout
                             /\ \/ mp'[o].state = mp[o].state
                                \/ mp[o].state = "invalid" /\ mp'[o].state = "deallocating"
      BY <1>0, <1>6, CheckEffect DEF LetGo
    <2> QED
      BY <1>0, <1>1, <2>1, CallsKept
  <1> QED
    BY <1>2, <1>3, <1>4, <1>5, <1>6 DEF Making

LEMMA ClientCalls == ASSUME CallbackInv, NEW t \in Threads, Client(t) PROVE CallsAreCounted'
  <1>0. CountInv /\ CallsAreCounted /\ TypeOK /\ t \in Actors
    BY ActorsAre DEF CallbackInv, CountInv
  <1>1. ASSUME NEW c \in Calls, at' = [at EXCEPT ![t] = c], c.pc # "settle", at[t] = Idle
        PROVE  Settling' = Settling
    <2>1. at[t].pc # "settle"
      BY <1>1 DEF Idle
    <2> QED
      BY <1>0, <1>1, <2>1, SettlingKept
  <1>2. ASSUME NEW p \in Ports, Create(t, p) \/ CreateWithPort(t, p) PROVE CallsAreCounted'
    <2>1. PICK c \in Calls : at' = [at EXCEPT ![t] = c] /\ c.pc # "settle"
      <3>1. /\ [Idle EXCEPT !.pc = "find", !.port = p, !.create = TRUE] \in Calls
            /\ [Idle EXCEPT !.pc = "find", !.port = p] \in Calls
            /\ [Idle EXCEPT !.pc = "find", !.port = p, !.create = TRUE].pc = "find"
            /\ [Idle EXCEPT !.pc = "find", !.port = p].pc = "find"
        BY DEF Idle, Calls
      <3> QED
        BY <1>2, <3>1 DEF Create, CreateWithPort
    <2>2. UNCHANGED mp /\ at[t] = Idle
      BY <1>2 DEF Create, CreateWithPort
    <2> QED
      BY <1>0, <1>1, <2>1, <2>2, CallsKeptAlike DEF Alike
  <1>3. ASSUME NEW x \in Objects, Invalidate(t, x) PROVE CallsAreCounted'
    <2>1. [Idle EXCEPT !.pc = "announce", !.o = x] \in Calls /\ [Idle EXCEPT !.pc = "announce", !.o = x].pc = "announce"
      BY DEF Idle, Calls
    <2>2. Settling' = Settling
      BY <1>1, <1>3, <2>1 DEF Invalidate
    <2>3. \A o \in Objects : /\ mp'[o].called = mp[o].called /\ mp'[o].icallout = mp[o].icallout
                             /\ \/ mp'[o].state = mp[o].state
                                \/ mp[o].state = "ready" /\ mp'[o].state = "invalidating"
      BY <1>0, <1>3, InvalidateEffect
    <2> QED
      BY <1>0, <2>2, <2>3, CallsKept
  <1>4. ASSUME NEW x \in Objects, SetInvalidationCallBack(t, x) PROVE CallsAreCounted'
    <2>1. Settling' = Settling
      BY <1>4 DEF SetInvalidationCallBack, Settling
    <2>2. /\ \A o \in Objects : o # x => mp'[o] = mp[o]
          /\ mp'[x].state = mp[x].state
          /\ \/ mp[x].state = "ready" /\ mp'[x].icallout /\ mp'[x].called = mp[x].called
             \/ /\ mp[x].state # "ready" /\ ~mp[x].icallout /\ mp[x].called = 0
                /\ mp'[x].icallout = mp[x].icallout /\ mp'[x].called = 1
      BY <1>0, <1>4, SetInvalidationCallBackEffect
    <2>3. x \in Settling => mp[x].state = "invalidating"
      BY <1>0, SettlingIs
    <2> QED
      BY <1>0, <2>1, <2>2, <2>3 DEF CallsAreCounted
  <1>5. ASSUME NEW x \in Objects, Release(t, x) PROVE CallsAreCounted'
    <2>1. Settling' = Settling
      BY <1>5 DEF Release, Settling
    <2>2. \A o \in Objects : /\ mp'[o].called = mp[o].called /\ mp'[o].icallout = mp[o].icallout
                             /\ \/ mp'[o].state = mp[o].state
                                \/ mp[o].state = "invalid" /\ mp'[o].state = "deallocating"
      BY <1>0, <1>5, ReleaseEffect DEF LetGo
    <2> QED
      BY <1>0, <2>1, <2>2, CallsKept
  <1> QED
    BY <1>2, <1>3, <1>4, <1>5 DEF Client

LEMMA FinishingCalls == ASSUME CallbackInv, NEW a \in Actors, Finishing(a) PROVE CallsAreCounted'
  <1>0. CountInv /\ CallsAreCounted /\ TypeOK /\ at[a] \in Calls /\ at \in [Actors -> Calls]
    BY DEF CallbackInv, CountInv, TypeOK
  <1>1. Ends(at[a]) /\ at[a].o \in Objects /\ mp[at[a].o] \in MachPorts /\ mp[at[a].o].state = "invalidating"
    BY <1>0, EndsFacts DEF Finishing, Announce, Settle, Ends
  <1>2. \A b \in Actors : b # a /\ Ends(at[b]) => at[b].o # at[a].o
    BY <1>0, <1>1 DEF CountInv, OneInvalidates
  <1>3. CASE Announce(a)
    <2>1. /\ at[a].pc = "announce" /\ at' = [at EXCEPT ![a].pc = "settle"]
      BY <1>3 DEF Announce, Goto
    <2>2. at'[a].pc = "settle" /\ at'[a].o = at[a].o /\ \A b \in Actors : b # a => at'[b] = at[b]
      BY <1>0, <2>1 DEF Calls
    <2>3. at[a].o \notin Settling
      BY <1>2, <2>1 DEF Settling, Ends
    <2>4. at[a].o \in Settling' /\ \A o \in Objects : o # at[a].o => (o \in Settling' <=> o \in Settling)
      BY <1>1, <2>1, <2>2 DEF Settling
    <2>5. /\ \A o \in Objects : o # at[a].o => mp'[o] = mp[o]
          /\ mp'[at[a].o].state = mp[at[a].o].state /\ mp'[at[a].o].icallout = mp[at[a].o].icallout
          /\ mp'[at[a].o].called =
               (IF mp[at[a].o].icallout THEN mp[at[a].o].called + 1 ELSE mp[at[a].o].called)
      BY <1>0, <1>1, <1>3, AnnounceEffect, AnnouncedIs
    <2>6. mp[at[a].o].called <= 1 /\ (mp[at[a].o].icallout => mp[at[a].o].called = 0)
      BY <1>0, <1>1, <2>3 DEF CallsAreCounted
    <2>7. /\ mp'[at[a].o].called <= 1 /\ (mp'[at[a].o].icallout => mp'[at[a].o].called = 1)
          /\ mp'[at[a].o].state = "invalidating"
      BY <1>1, <2>5, <2>6
    <2>8. ASSUME NEW o \in Objects
          PROVE  /\ mp'[o].called <= 1
                 /\ mp'[o].state = "ready" => mp'[o].called = 0
                 /\ (mp'[o].state = "invalidating" /\ mp'[o].icallout /\ o \notin Settling') =>
                      mp'[o].called = 0
                 /\ (/\ mp'[o].icallout
                     /\ mp'[o].state \in {"invalid", "deallocating"} \/ o \in Settling') =>
                      mp'[o].called = 1
      <3>1. CASE o = at[a].o
        BY <2>4, <2>7, <3>1
      <3>2. CASE o # at[a].o
        BY <1>0, <2>4, <2>5, <3>2 DEF CallsAreCounted
      <3> QED
        BY <3>1, <3>2
    <2> QED
      BY <2>8 DEF CallsAreCounted
  <1>4. CASE Settle(a)
    <2>1. at[a].pc = "settle" /\ at' = [at EXCEPT ![a] = Idle]
      BY <1>4 DEF Settle
    <2>2. at'[a].pc = "idle" /\ \A b \in Actors : b # a => at'[b] = at[b]
      BY <1>0, <2>1 DEF Idle
    <2>3. at[a].o \in Settling /\ at[a].o \notin Settling'
      BY <1>1, <1>2, <2>1, <2>2 DEF Settling, Ends
    <2>4. \A o \in Objects : o # at[a].o => (o \in Settling' <=> o \in Settling)
      BY <2>1, <2>2 DEF Settling
    <2>5. /\ \A o \in Objects : o # at[a].o => mp'[o] = mp[o]
          /\ mp'[at[a].o].state \in {"invalid", "deallocating"}
          /\ mp'[at[a].o].called = mp[at[a].o].called
          /\ mp'[at[a].o].icallout = mp[at[a].o].icallout
      BY <1>0, <1>4, SettleEffect
    <2>6. mp[at[a].o].called <= 1 /\ (mp[at[a].o].icallout => mp[at[a].o].called = 1)
      BY <1>0, <1>1, <2>3 DEF CallsAreCounted
    <2>7. ASSUME NEW o \in Objects
          PROVE  /\ mp'[o].called <= 1
                 /\ mp'[o].state = "ready" => mp'[o].called = 0
                 /\ (mp'[o].state = "invalidating" /\ mp'[o].icallout /\ o \notin Settling') =>
                      mp'[o].called = 0
                 /\ (/\ mp'[o].icallout
                     /\ mp'[o].state \in {"invalid", "deallocating"} \/ o \in Settling') =>
                      mp'[o].called = 1
      <3>1. CASE o = at[a].o
        BY <2>3, <2>5, <2>6, <3>1
      <3>2. CASE o # at[a].o
        BY <1>0, <2>4, <2>5, <3>2 DEF CallsAreCounted
      <3> QED
        BY <3>1, <3>2
    <2> QED
      BY <2>7 DEF CallsAreCounted
  <1> QED
    BY <1>3, <1>4 DEF Finishing

LEMMA QueueCalls ==
  ASSUME CallbackInv, NEW o \in Objects, Deallocate(o) \/ CancelHandler(o) \/ Checker(o)
  PROVE  CallsAreCounted'
  <1>0. CountInv /\ CallsAreCounted
    BY DEF CallbackInv
  <1>1. Settling' = Settling
    BY DEF Deallocate, CancelHandler, Checker, Settling
  <1>2. CASE Deallocate(o)
    <2>1. \A x \in Objects : /\ mp'[x].called = mp[x].called /\ mp'[x].icallout = mp[x].icallout
                             /\ \/ mp'[x].state = mp[x].state
                                \/ mp[x].state = "deallocating" /\ mp'[x].state = "gone"
      BY <1>0, <1>2, DeallocateEffect
    <2> QED
      BY <1>0, <1>1, <2>1, CallsKept
  <1>3. CASE CancelHandler(o)
    <2>1. UNCHANGED mp
      BY <1>3 DEF CancelHandler
    <2> QED
      BY <1>0, <1>1, <2>1, CallsKeptAlike DEF Alike
  <1>4. CASE Checker(o)
    <2>1. \A x \in Objects : /\ mp'[x].called = mp[x].called /\ mp'[x].icallout = mp[x].icallout
                             /\ \/ mp'[x].state = mp[x].state
                                \/ mp[x].state = "ready" /\ mp'[x].state = "invalidating"
      BY <1>0, <1>4, CheckerEffect
    <2> QED
      BY <1>0, <1>1, <2>1, CallsKept
  <1> QED
    BY <1>2, <1>3, <1>4

LEMMA CallsAreKept == CallbackInv /\ [Next]_vars => CallbackInv'
  <1> SUFFICES ASSUME CallbackInv, [Next]_vars PROVE CallbackInv'
    OBVIOUS
  <1>0. CountInv /\ CallsAreCounted /\ CountInv' /\ TypeOK
    BY CountIsKept DEF CallbackInv, CountInv
  <1>1. ASSUME UNCHANGED <<mp, at>> PROVE CallsAreCounted'
    BY <1>0, <1>1, CallsKeptAlike DEF Alike, Settling
  <1>2. ASSUME NEW p \in Ports, PortDies(p) PROVE CallsAreCounted'
    BY <1>1, <1>2 DEF PortDies
  <1>3. ASSUME RunBlock PROVE CallsAreCounted'
    <2>1. /\ Main \in Actors /\ Head(blocks) \in Objects
      BY <1>0, <1>3, ActorsAre, HeadTailProperties DEF RunBlock, TypeOK
    <2>2. /\ [Idle EXCEPT !.pc = "announce", !.o = Head(blocks)] \in Calls
          /\ [Idle EXCEPT !.pc = "announce", !.o = Head(blocks)].pc = "announce"
      BY <2>1 DEF Calls, Idle
    <2>3. at[Main].pc # "settle" /\ UNCHANGED mp
      BY <1>3 DEF RunBlock, Idle
    <2>4. Settling' = Settling
      BY <1>0, <1>3, <2>1, <2>2, <2>3, SettlingKept DEF RunBlock
    <2>5. \A o \in Objects : Alike(mp'[o], mp[o])
      BY <2>3 DEF Alike
    <2> QED
      BY <1>0, <2>4, <2>5, CallsKeptAlike
  <1>4. ASSUME UNCHANGED vars PROVE CallsAreCounted'
    <2>1. UNCHANGED <<mp, at>>
      BY <1>4 DEF vars
    <2> QED
      BY <2>1, <1>1
  <1>6. ASSUME NEW t \in Threads, Client(t) \/ Making(t) PROVE CallsAreCounted'
    BY <1>6, MakingCalls, ClientCalls
  <1>7. ASSUME NEW a \in Actors, Finishing(a) PROVE CallsAreCounted'
    BY <1>7, FinishingCalls
  <1>8. ASSUME NEW o \in Objects, Deallocate(o) \/ CancelHandler(o) \/ Checker(o) PROVE CallsAreCounted'
    BY <1>8, QueueCalls
  <1>5. CallsAreCounted'
    BY <1>2, <1>3, <1>4, <1>6, <1>7, <1>8 DEF Next
  <1> QED
    BY <1>0, <1>5 DEF CallbackInv

\* An invalidation callback that was set in time has been called, once, when the
\* object is invalid, and no other is called twice.
THEOREM CallbackCorrect == Spec => []CallbackIsCalledOnce
  <1>1. Init => CallbackInv
    <2>1. Init => CallsAreCounted
      BY DEF Init, CallsAreCounted, Gone
    <2> QED
      BY <2>1, InitCounts DEF CallbackInv
  <1>2. CallbackInv /\ [Next]_vars => CallbackInv'
    BY CallsAreKept
  <1>3. CallbackInv => CallbackIsCalledOnce
    BY DEF CallbackInv, CallsAreCounted, CallbackIsCalledOnce
  <1> QED
    BY <1>1, <1>2, <1>3, PTL DEF Spec


----------------------------------------------------------------------------
(* The rights: the objects, the table, the sources and the records agree   *)
(* on the ports of CFMachPortCreate, one port at a time, and a port's      *)
(* rights are given back after its source is done with.                    *)

\* The ports of which everything that PortsInv says is so.
Sound == UsedOnce \cap InStep \cap Recorded

\* An object or its source is there for the port.
Uses(r, s, p) == r.port = p /\ (r.state # "gone" \/ s \in {"active", "cancelled"})

LEMMA UsersAre ==
  ASSUME NEW p \in OwnPorts
  PROVE  /\ \A o : o \in Users[p] <=> o \in Objects /\ Uses(mp[o], source[o], p)
         /\ \A o : o \in Users'[p] <=> o \in Objects /\ Uses(mp'[o], source'[o], p)
  BY DEF Users, Watched, Uses, Ports

LEMMA WatchedAre ==
  /\ \A o \in Objects : o \in Watched <=> source[o] \in {"active", "cancelled"}
  /\ \A o \in Objects : o \in Watched' <=> source'[o] \in {"active", "cancelled"}
  BY DEF Watched

\* What a call for an own port knows: its object is there for that port.
LEMMA CallFacts ==
  ASSUME CountInv, NEW a \in Actors, at[a].port # None
  PROVE  /\ at[a].pc \in {"find", "make", "intent", "source", "check"} /\ a # Main
         /\ at[a].pc \in {"intent", "source", "check"} =>
              at[a].o \in Objects /\ mp[at[a].o].port = at[a].port /\ Makes(at[a], at[a].o)
  <1>1. /\ at[a].pc \in {"idle", "find", "make", "intent", "source", "check", "announce", "settle"}
        /\ CallsAreTyped
    BY DEF CountInv, TypeOK, Calls
  <1>2. a # Main
    BY <1>1 DEF CallsAreTyped
  <1> QED
    BY <1>1, <1>2 DEF CallsAreTyped, Makes

\* What a step does to an object of a port.
Stays(o) == /\ mp'[o].state = mp[o].state /\ mp'[o].dsrc = mp[o].dsrc /\ source'[o] = source[o]
IsTakenOff(o) ==
  /\ mp[o].state = "ready" /\ mp'[o].state = "invalidating" /\ ~mp'[o].dsrc
  /\ source'[o] = IF mp[o].dsrc THEN "cancelled" ELSE source[o]
IsLetGo(o) ==
  /\ mp[o].state \in {"invalidating", "invalid"} /\ mp'[o].state \in {"invalid", "deallocating"}
  /\ mp'[o].dsrc = mp[o].dsrc /\ source'[o] = source[o]

\* All stays true of a port that a step leaves alone, but for objects that are
\* taken off the table or let go and that no call is making.
LEMMA StaysSound ==
  ASSUME CountInv, NEW p \in OwnPorts, p \in Sound,
         port'[p] = port[p], records'[p] = records[p],
         \A a \in Actors : at'[a].port = p \/ at[a].port = p => at'[a] = at[a],
         \A o \in Objects : mp'[o].port = p =>
           mp[o].port = p /\ (Stays(o) \/ IsTakenOff(o) \/ IsLetGo(o)),
         \A a \in Actors : \A o \in Objects :
           at[a].port = p /\ Makes(at[a], o) => mp'[o].held = mp[o].held /\ Stays(o)
  PROVE  p \in Sound'
  <1>0. /\ p \in UsedOnce /\ p \in InStep /\ p \in Recorded /\ p \in Ports /\ p # None
    BY MachPortAssumption DEF Sound, Ports
  <1>1. /\ \A o : o \in Users[p] <=> o \in Objects /\ Uses(mp[o], source[o], p)
        /\ \A o : o \in Users'[p] <=> o \in Objects /\ Uses(mp'[o], source'[o], p)
    BY UsersAre
  <1>2. Users'[p] \subseteq Users[p]
    BY <1>1 DEF Uses, Stays, IsTakenOff, IsLetGo
  <1>3. p \in UsedOnce'
    BY <1>0, <1>2 DEF UsedOnce
  <1>4. p \in InStep'
    <2> SUFFICES ASSUME NEW a \in Actors, at'[a].port = p
                 PROVE  /\ at'[a].pc \in {"find", "make"} => Users'[p] = {}
                        /\ at'[a].pc \in {"find", "make", "intent"} => records'[p] = None
                        /\ at'[a].pc \in {"source", "check"} => records'[p] # None /\ ~records'[p].doRights
                        /\ at'[a].pc \in {"intent", "source", "check"} =>
                             mp'[at'[a].o].state = "ready" /\ mp'[at'[a].o].held = 0
                        /\ at'[a].pc \in {"intent", "source"} => at'[a].o \notin Watched'
                        /\ at'[a].pc = "check" => source'[at'[a].o] = "active"
      BY <1>0 DEF InStep
    <2>1. at'[a] = at[a] /\ at[a].port = p
      OBVIOUS
    <2>2. /\ at[a].pc \in {"find", "make"} => Users[p] = {}
          /\ at[a].pc \in {"find", "make", "intent"} => records[p] = None
          /\ at[a].pc \in {"source", "check"} => records[p] # None /\ ~records[p].doRights
          /\ at[a].pc \in {"intent", "source", "check"} =>
               mp[at[a].o].state = "ready" /\ mp[at[a].o].held = 0
          /\ at[a].pc \in {"intent", "source"} => at[a].o \notin Watched
          /\ at[a].pc = "check" => source[at[a].o] = "active"
      BY <1>0, <2>1 DEF InStep
    <2>3. at[a].pc \in {"intent", "source", "check"} =>
            /\ at[a].o \in Objects /\ mp'[at[a].o].held = mp[at[a].o].held /\ Stays(at[a].o)
      BY <1>0, <2>1, CallFacts
    <2>4. at[a].pc \in {"intent", "source"} => at[a].o \notin Watched'
      BY <2>2, <2>3, WatchedAre DEF Stays
    <2> QED
      BY <1>2, <2>1, <2>2, <2>3, <2>4 DEF Stays
  <1>5. p \in Recorded'
    <2> SUFFICES ASSUME NEW o \in Users'[p]
                 PROVE  /\ mp'[o].dsrc <=> source'[o] = "active"
                        /\ source'[o] = "active" => mp'[o].state = "ready"
                        /\ o \in Watched' => records'[p] # None
                        /\ (records'[p] # None /\ records'[p].doRights) => mp'[o].state = "gone"
      BY <1>0 DEF Recorded
    <2>1. o \in Users[p] /\ o \in Objects /\ mp'[o].port = p
      BY <1>1, <1>2 DEF Uses
    <2>2. /\ mp[o].dsrc <=> source[o] = "active"
          /\ source[o] = "active" => mp[o].state = "ready"
          /\ o \in Watched => records[p] # None
          /\ (records[p] # None /\ records[p].doRights) => mp[o].state = "gone"
      BY <1>0, <2>1 DEF Recorded
    <2>3. Stays(o) \/ IsTakenOff(o) \/ IsLetGo(o)
      BY <2>1
    <2>4. /\ o \in Watched <=> source[o] \in {"active", "cancelled"}
          /\ o \in Watched' <=> source'[o] \in {"active", "cancelled"}
      BY <2>1, WatchedAre
    <2>5. CASE Stays(o)
      BY <2>2, <2>4, <2>5 DEF Stays
    <2>6. CASE IsTakenOff(o)
      BY <2>2, <2>4, <2>6 DEF IsTakenOff
    <2>7. CASE IsLetGo(o)
      BY <2>2, <2>4, <2>7 DEF IsLetGo
    <2> QED
      BY <2>3, <2>5, <2>6, <2>7
  <1> QED
    BY <1>3, <1>4, <1>5 DEF Sound

\* What is known of the port of an object that is there...
LEMMA UserFacts ==
  ASSUME CountInv, NEW p \in OwnPorts, p \in Sound, NEW o \in Objects, Uses(mp[o], source[o], p)
  PROVE  /\ port[p] = "rights" /\ \A x \in Objects : Uses(mp[x], source[x], p) => x = o
         /\ mp[o].dsrc <=> source[o] = "active"
         /\ source[o] = "active" => mp[o].state = "ready"
         /\ source[o] \in {"active", "cancelled"} => records[p] # None
         /\ (records[p] # None /\ records[p].doRights) => mp[o].state = "gone"
         /\ records[p] # None => ~records[p].invalidated
  <1>1. o \in Users[p] /\ \A x \in Objects : Uses(mp[x], source[x], p) => x \in Users[p]
    BY UsersAre
  <1>2. port[p] \in {"none", "rights", "dead"}
    BY DEF CountInv, TypeOK, Ports
  <1>3. p \in UsedOnce /\ p \in Recorded
    BY DEF Sound
  <1>4. port[p] = "rights" /\ \A x \in Objects : Uses(mp[x], source[x], p) => x = o
    BY <1>1, <1>2, <1>3 DEF UsedOnce
  <1>5. o \in Watched <=> source[o] \in {"active", "cancelled"}
    BY WatchedAre
  <1> QED
    BY <1>1, <1>3, <1>4, <1>5 DEF Recorded

\* ...and of that of a call that makes an object.
LEMMA MakerFacts ==
  ASSUME CountInv, NEW p \in OwnPorts, p \in Sound, NEW a \in Actors, at[a].port = p
  PROVE  /\ port[p] = "rights" /\ \A b \in Actors : at[b].port = p => b = a
         /\ at[a].pc \in {"find", "make"} => \A o \in Objects : ~Uses(mp[o], source[o], p)
         /\ at[a].pc \in {"find", "make", "intent"} => records[p] = None
         /\ at[a].pc \in {"source", "check"} => records[p] # None /\ ~records[p].doRights
         /\ at[a].pc \in {"intent", "source", "check"} =>
              /\ at[a].o \in Objects /\ mp[at[a].o].port = p /\ Makes(at[a], at[a].o)
              /\ mp[at[a].o].state = "ready" /\ mp[at[a].o].held = 0
              /\ Uses(mp[at[a].o], source[at[a].o], p)
         /\ at[a].pc \in {"intent", "source"} => source[at[a].o] \notin {"active", "cancelled"}
         /\ at[a].pc = "check" => source[at[a].o] = "active"
  <1>1. port[p] \in {"none", "rights", "dead"} /\ p # None
    BY MachPortAssumption DEF CountInv, TypeOK, Ports
  <1>2. p \in UsedOnce /\ p \in InStep
    BY DEF Sound
  <1>3. port[p] = "rights" /\ \A b \in Actors : at[b].port = p => b = a
    BY <1>1, <1>2 DEF UsedOnce
  <1>4. Users[p] = {} => \A o \in Objects : ~Uses(mp[o], source[o], p)
    BY UsersAre
  <1>5. at[a].pc \in {"intent", "source", "check"} =>
          at[a].o \in Objects /\ mp[at[a].o].port = p /\ Makes(at[a], at[a].o)
    BY <1>1, CallFacts
  <1>6. at[a].pc \in {"intent", "source"} => source[at[a].o] \notin {"active", "cancelled"}
    BY <1>2, <1>5, WatchedAre DEF InStep
  <1> QED
    BY <1>2, <1>3, <1>4, <1>5, <1>6 DEF InStep, Uses

\* No call is making an object that a client holds, or one that is not ready.
LEMMA HeldAreMade ==
  ASSUME CountInv, NEW p \in OwnPorts, p \in Sound, NEW a \in Actors, at[a].port = p,
         NEW o \in Objects, Makes(at[a], o)
  PROVE  mp[o].held = 0 /\ mp[o].state = "ready" /\ mp[o].port = p
  BY MakerFacts DEF Makes

----------------------------------------------------------------------------
(* The steps that leave the rights and the records as they are. *)

LEMMA SoundAre == PortsInv => CountInv /\ \A p \in OwnPorts : p \in Sound
  BY DEF PortsInv, Sound

\* Nothing happens to the objects but to their references.
LEMMA AlikeSound ==
  ASSUME CountInv, NEW p \in OwnPorts, p \in Sound,
         port'[p] = port[p], records'[p] = records[p], UNCHANGED source,
         \A a \in Actors : at'[a].port = p \/ at[a].port = p => at'[a] = at[a],
         \A o \in Objects : /\ mp'[o].state = mp[o].state /\ mp'[o].dsrc = mp[o].dsrc
                            /\ mp'[o].port = mp[o].port,
         \A a \in Actors : \A o \in Objects :
           at[a].port = p /\ Makes(at[a], o) => mp'[o].held = mp[o].held
  PROVE  p \in Sound'
  BY StaysSound DEF Stays

\* An own port is found by no other call.
LEMMA FindSound ==
  ASSUME PortsInv, NEW t \in Threads, Find(t), NEW p \in OwnPorts PROVE p \in Sound'
  <1>0. /\ CountInv /\ p \in Sound /\ t \in Actors /\ at \in [Actors -> Calls]
        /\ mp \in [Objects -> MachPorts] /\ table \in Seq(Objects)
    BY SoundAre, ActorsAre DEF CountInv, TypeOK
  <1>1. at[t].pc = "find" /\ UNCHANGED <<port, records, source>>
    BY DEF Find
  <1>2. \A a \in Actors : a # t => at'[a] = at[a]
    BY <1>0 DEF Find, Goto
  <1>3. at'[t].port = at[t].port
    BY <1>0 DEF Find, Goto, Calls
  <1>4. \A o \in Objects : /\ mp'[o].state = mp[o].state /\ mp'[o].dsrc = mp[o].dsrc
                           /\ mp'[o].port = mp[o].port
    BY <1>0, FindEffect DEF Alike
  <1>5. \A o \in Objects : mp'[o].held = mp[o].held
    <2>1. ASSUME NEW i \in DOMAIN table, mp' = [mp EXCEPT ![table[i]].refs = @ + 1]
          PROVE  \A o \in Objects : mp'[o].held = mp[o].held
      <3> DEFINE x == table[i]
                 refs == mp[x].refs + 1
      <3>1. x \in Objects /\ mp[x] \in MachPorts /\ mp' = [mp EXCEPT ![x] = [mp[x] EXCEPT !.refs = refs]]
        BY <1>0, <2>1
      <3> HIDE DEF x, refs
      <3> QED
        BY <1>0, <3>1 DEF MachPorts
    <2> QED
      BY <2>1 DEF Find
  <1>6. CASE at[t].port # p
    <2>1. \A a \in Actors : at'[a].port = p \/ at[a].port = p => at'[a] = at[a]
      BY <1>2, <1>3, <1>6
    <2> QED
      BY <1>0, <1>1, <1>4, <1>5, <2>1, AlikeSound
  <1>7. CASE at[t].port = p
    <2>1. \A o \in Objects : ~Uses(mp[o], source[o], p)
      BY <1>0, <1>1, <1>7, MakerFacts
    <2>2. \A i \in DOMAIN table : mp[table[i]].port # p
      <3>1. \A i \in DOMAIN table : table[i] \in ToSet(table)
        BY DEF ToSet
      <3>2. \A i \in DOMAIN table : table[i] \in Objects /\ mp[table[i]].state = "ready"
        BY <1>0, <3>1 DEF CountInv, TableIsOfReadyObjects
      <3> QED
        BY <2>1, <3>2 DEF Uses
    <2>3. at'[t].pc = "make" /\ UNCHANGED mp
      <3>1. Goto(t, "make") /\ UNCHANGED mp
        BY <1>7, <2>2 DEF Find, IsFirstFor
      <3> QED
        BY <1>0, <3>1 DEF Goto, Calls
    <2>4. p \in UsedOnce /\ p \in InStep /\ p \in Recorded /\ Users' = Users
      BY <1>0, <1>1, <2>3 DEF Sound, Users, Watched
    <2>5. p \in UsedOnce'
      BY <1>1, <1>2, <1>3, <2>4 DEF UsedOnce
    <2>6. p \in Recorded'
      BY <1>1, <2>3, <2>4 DEF Recorded, Watched
    <2>7. p \in InStep'
      <3>1. \A a \in Actors : at[a].port = p => a = t
        BY <1>0, <1>7, MakerFacts
      <3>2. \A a \in Actors : at'[a].port = p => a = t
        BY <1>2, <3>1
      <3>3. Users'[p] = {} /\ records'[p] = None
        BY <1>0, <1>1, <1>7, <2>4 DEF InStep
      <3>4. \A a \in Actors : at'[a].port = p => at'[a].pc = "make"
        BY <2>3, <3>2
      <3> QED
        BY <3>3, <3>4 DEF InStep
    <2> QED
      BY <2>5, <2>6, <2>7 DEF Sound
  <1> QED
    BY <1>6, <1>7

\* CFMachPortCreateWithPort is not for an own port.
LEMMA CreateWithPortSound ==
  ASSUME PortsInv, NEW t \in Threads, NEW q \in Ports, CreateWithPort(t, q), NEW p \in OwnPorts
  PROVE  p \in Sound'
  <1>0. CountInv /\ p \in Sound /\ t \in Actors /\ at \in [Actors -> Calls]
    BY SoundAre, ActorsAre DEF CountInv, TypeOK
  <1>1. UNCHANGED <<port, mp, source, records>> /\ at[t] = Idle /\ q \in ExternalPorts
    BY DEF CreateWithPort
  <1>2. at'[t].port = q /\ at[t].port = None /\ \A a \in Actors : a # t => at'[a] = at[a]
    BY <1>0, <1>1 DEF CreateWithPort, Idle
  <1>3. p # q /\ p # None
    BY <1>1, MachPortAssumption
  <1>4. \A a \in Actors : at'[a].port = p \/ at[a].port = p => at'[a] = at[a]
    BY <1>2, <1>3
  <1> QED
    BY <1>0, <1>1, <1>4, AlikeSound

\* The steps of a call that has no port, and changes no more than its objects'
\* callbacks.
LEMMA CallbackStepsSound ==
  ASSUME PortsInv, NEW p \in OwnPorts,
         \/ \E a \in Actors : Announce(a)
         \/ \E t \in Threads, x \in Objects : SetInvalidationCallBack(t, x)
  PROVE  p \in Sound'
  <1>0. CountInv /\ p \in Sound /\ at \in [Actors -> Calls] /\ mp \in [Objects -> MachPorts] /\ p # None
    BY SoundAre, MachPortAssumption DEF CountInv, TypeOK
  <1>1. ASSUME NEW a \in Actors, Announce(a)
        PROVE  p \in Sound'
    <2>1. Ends(at[a])
      BY <1>1 DEF Announce, Ends
    <2>2. at[a].port = None /\ at[a].o \in Objects /\ at[a] \in Calls
      BY <1>0, <2>1, EndsFacts
    <2>3. at'[a].port = None /\ \A b \in Actors : b # a => at'[b] = at[b]
      BY <1>0, <1>1, <2>2 DEF Announce, Goto, Calls
    <2>4. /\ mp'[at[a].o] = Announced(mp[at[a].o])
          /\ \A o \in Objects : o # at[a].o => mp'[o] = mp[o]
      BY <1>0, <1>1, AnnounceEffect
    <2>5. \A o \in Objects : /\ mp'[o].state = mp[o].state /\ mp'[o].dsrc = mp[o].dsrc
                             /\ mp'[o].port = mp[o].port /\ mp'[o].held = mp[o].held
      BY <1>0, <2>2, <2>4, AnnouncedIs
    <2>6. UNCHANGED <<port, source, records>>
      BY <1>1 DEF Announce
    <2>7. \A b \in Actors : at'[b].port = p \/ at[b].port = p => at'[b] = at[b]
      BY <1>0, <2>2, <2>3
    <2> QED
      BY <1>0, <2>5, <2>6, <2>7, AlikeSound
  <1>2. ASSUME NEW t \in Threads, NEW x \in Objects, SetInvalidationCallBack(t, x)
        PROVE  p \in Sound'
    <2>1. \A o \in Objects : /\ mp'[o].state = mp[o].state /\ mp'[o].dsrc = mp[o].dsrc
                             /\ mp'[o].port = mp[o].port
      BY <1>0, <1>2, SetInvalidationCallBackEffect
    <2>2. UNCHANGED <<port, source, records, at>>
      BY <1>2 DEF SetInvalidationCallBack
    <2>3. \A o \in Objects : mp'[o].held = mp[o].held
      <3>1. \/ mp' = [mp EXCEPT ![x] = [mp[x] EXCEPT !.icallout = TRUE]]
            \/ mp' = [mp EXCEPT ![x] = [mp[x] EXCEPT !.called = mp[x].called + 1]]
        BY <1>2 DEF SetInvalidationCallBack
      <3> QED
        BY <1>0, <3>1 DEF MachPorts
    <2> QED
      BY <1>0, <2>1, <2>2, <2>3, AlikeSound
  <1> QED
    BY <1>1, <1>2

\* The steps of the kernel and the main queue.
LEMMA OtherStepsSound ==
  ASSUME PortsInv, NEW p \in OwnPorts,
         RunBlock \/ (\E q \in Ports : PortDies(q)) \/ UNCHANGED vars
  PROVE  p \in Sound'
  <1>0. /\ CountInv /\ p \in Sound /\ at \in [Actors -> Calls] /\ p # None /\ p \notin ExternalPorts
        /\ port \in [Ports -> {"none", "rights", "dead"}]
    BY SoundAre, MachPortAssumption DEF CountInv, TypeOK
  <1>1. CASE RunBlock
    <2>1. UNCHANGED <<port, mp, records, source>> /\ at[Main] = Idle
      BY <1>1 DEF RunBlock
    <2>2. at[Main].port = None /\ at'[Main].port = None /\ \A a \in Actors : a # Main => at'[a] = at[a]
      BY <1>0, <1>1, <2>1, ActorsAre DEF RunBlock, Idle
    <2>3. \A a \in Actors : at'[a].port = p \/ at[a].port = p => at'[a] = at[a]
      BY <1>0, <2>2
    <2> QED
      BY <1>0, <2>1, <2>3, AlikeSound
  <1>2. CASE \E q \in Ports : PortDies(q)
    <2>1. UNCHANGED <<mp, records, source, at>> /\ port'[p] = port[p]
      BY <1>0, <1>2 DEF PortDies, Ports
    <2> QED
      BY <1>0, <2>1, AlikeSound
  <1>3. CASE UNCHANGED vars
    <2>1. UNCHANGED <<port, mp, records, source, at>>
      BY <1>3 DEF vars
    <2> QED
      BY <1>0, <2>1, AlikeSound
  <1> QED
    BY <1>1, <1>2, <1>3

----------------------------------------------------------------------------
(* Making an object. *)

\* All that has to be so of a port after a step.
LEMMA SoundAfter ==
  ASSUME NEW p \in OwnPorts, port'[p] # "dead",
         port'[p] = "none" =>
           /\ records'[p] = None /\ \A o \in Objects : ~Uses(mp'[o], source'[o], p)
           /\ \A a \in Actors : at'[a].port # p,
         \A o1, o2 \in Objects :
           Uses(mp'[o1], source'[o1], p) /\ Uses(mp'[o2], source'[o2], p) => o1 = o2,
         \A a, b \in Actors : at'[a].port = p /\ at'[b].port = p => a = b,
         \A a \in Actors : at'[a].port = p =>
           /\ at'[a].pc \in {"find", "make"} => \A o \in Objects : ~Uses(mp'[o], source'[o], p)
           /\ at'[a].pc \in {"find", "make", "intent"} => records'[p] = None
           /\ at'[a].pc \in {"source", "check"} => records'[p] # None /\ ~records'[p].doRights
           /\ at'[a].pc \in {"intent", "source", "check"} =>
                mp'[at'[a].o].state = "ready" /\ mp'[at'[a].o].held = 0
           /\ at'[a].pc \in {"intent", "source"} => source'[at'[a].o] \notin {"active", "cancelled"}
           /\ at'[a].pc = "check" => source'[at'[a].o] = "active",
         records'[p] # None => ~records'[p].invalidated,
         \A o \in Objects : Uses(mp'[o], source'[o], p) =>
           /\ mp'[o].dsrc <=> source'[o] = "active"
           /\ source'[o] = "active" => mp'[o].state = "ready"
           /\ source'[o] \in {"active", "cancelled"} => records'[p] # None
           /\ (records'[p] # None /\ records'[p].doRights) => mp'[o].state = "gone"
  PROVE  p \in Sound'
  <1>1. \A o : o \in Users'[p] <=> o \in Objects /\ Uses(mp'[o], source'[o], p)
    BY UsersAre
  <1>2. \A o : o \in Watched' => source'[o] \in {"active", "cancelled"}
    BY DEF Watched
  <1>3. p \in UsedOnce'
    BY <1>1 DEF UsedOnce
  <1>4. p \in InStep'
    BY <1>1, <1>2 DEF InStep
  <1>5. p \in Recorded'
    BY <1>1, <1>2 DEF Recorded
  <1> QED
    BY <1>3, <1>4, <1>5 DEF Sound

LEMMA CreateSound ==
  ASSUME PortsInv, NEW t \in Threads, NEW q \in Ports, Create(t, q), NEW p \in OwnPorts
  PROVE  p \in Sound'
  <1>0. /\ CountInv /\ p \in Sound /\ t \in Actors /\ at \in [Actors -> Calls] /\ p # None
        /\ port \in [Ports -> {"none", "rights", "dead"}]
    BY SoundAre, ActorsAre, MachPortAssumption DEF CountInv, TypeOK
  <1>1. /\ UNCHANGED <<mp, source, records>> /\ at[t] = Idle /\ port[q] = "none"
        /\ port' = [port EXCEPT ![q] = "rights"]
    BY DEF Create
  <1>2. /\ at'[t].port = q /\ at'[t].pc = "find" /\ at[t].port = None
        /\ \A a \in Actors : a # t => at'[a] = at[a]
    BY <1>0, <1>1 DEF Create, Idle
  <1>3. CASE p # q
    <2>1. \A a \in Actors : at'[a].port = p \/ at[a].port = p => at'[a] = at[a]
      BY <1>0, <1>2, <1>3
    <2>2. port'[p] = port[p]
      BY <1>0, <1>1, <1>3 DEF Ports
    <2> QED
      BY <1>0, <1>1, <2>1, <2>2, AlikeSound
  <1>4. CASE p = q
    <2>1. records[p] = None /\ Users[p] = {} /\ \A a \in Actors : at[a].port # p
      BY <1>0, <1>1, <1>4 DEF Sound, UsedOnce
    <2>2. \A o \in Objects : ~Uses(mp[o], source[o], p)
      BY <2>1, UsersAre
    <2>3. port'[p] = "rights"
      BY <1>0, <1>1, <1>4 DEF Ports
    <2>4. \A a \in Actors : at'[a].port = p => a = t
      BY <1>2, <2>1
    <2>5. \A a \in Actors : at'[a].port = p => at'[a].pc = "find"
      BY <1>2, <2>4
    <2>6. \A o \in Objects : ~Uses(mp'[o], source'[o], p)
      BY <1>1, <2>2
    <2>7. records'[p] = None
      BY <1>1, <2>1
    <2> QED
      BY <2>3, <2>4, <2>5, <2>6, <2>7, SoundAfter
  <1> QED
    BY <1>3, <1>4

\* The new object was there for no port before.
LEMMA MakeSound ==
  ASSUME PortsInv, NEW t \in Threads, NEW x \in Objects, Make(t, x), NEW p \in OwnPorts
  PROVE  p \in Sound'
  <1>0. /\ CountInv /\ p \in Sound /\ t \in Actors /\ at \in [Actors -> Calls] /\ p # None
        /\ mp \in [Objects -> MachPorts] /\ source \in [Objects -> {"none", "active", "cancelled", "handled"}]
    BY SoundAre, ActorsAre, MachPortAssumption DEF CountInv, TypeOK
  <1>1. at[t].pc = "make" /\ UNCHANGED <<port, records>> /\ source' = [source EXCEPT ![x] = "none"]
    BY DEF Make
  <1>2. /\ at'[t].pc = "intent" /\ at'[t].o = x /\ at'[t].port = at[t].port
        /\ \A a \in Actors : a # t => at'[a] = at[a]
    <2>1. at' = [at EXCEPT ![t] = [at[t] EXCEPT !.pc = "intent", !.o = x]]
      BY DEF Make
    <2> QED
      BY <1>0, <2>1 DEF Calls
  <1>3. /\ mp[x].state = "gone" /\ source[x] \in {"none", "handled"}
        /\ mp'[x].state = "ready" /\ mp'[x].port = at[t].port /\ ~mp'[x].dsrc
        /\ \A o \in Objects : o # x => mp'[o] = mp[o] /\ source'[o] = source[o]
        /\ source'[x] = "none"
    BY <1>0, <1>1, MakeEffect
  <1>4. mp'[x].held = 0
    BY <1>0 DEF Make, Gone
  <1>5. \A a \in Actors : ~Makes(at[a], x)
    <2>1. mp[x].refs = 0
      BY <1>0, <1>3, CountFacts
    <2> QED
      BY <1>0, <2>1, UnusedAreNotMade
  <1>6. CASE at[t].port # p
    <2>1. \A a \in Actors : at'[a].port = p \/ at[a].port = p => at'[a] = at[a]
      BY <1>2, <1>6
    <2>2. \A o \in Objects : mp'[o].port = p => mp[o].port = p /\ Stays(o)
      BY <1>3, <1>6 DEF Stays
    <2>3. \A a \in Actors : \A o \in Objects :
            at[a].port = p /\ Makes(at[a], o) => mp'[o].held = mp[o].held /\ Stays(o)
      BY <1>3, <1>5 DEF Stays
    <2>4. port'[p] = port[p] /\ records'[p] = records[p]
      BY <1>1
    <2> QED
      BY <1>0, <2>1, <2>2, <2>3, <2>4, StaysSound
  <1>7. CASE at[t].port = p
    <2>1. /\ port[p] = "rights" /\ records[p] = None /\ \A o \in Objects : ~Uses(mp[o], source[o], p)
          /\ \A a \in Actors : at[a].port = p => a = t
      BY <1>0, <1>1, <1>7, MakerFacts
    <2>2. \A o \in Objects : Uses(mp'[o], source'[o], p) => o = x
      BY <1>3, <2>1
    <2>3. \A a \in Actors : at'[a].port = p => a = t
      BY <1>2, <2>1
    <2>4. port'[p] = "rights" /\ records'[p] = None
      BY <1>1, <2>1
    <2> QED
      BY <1>2, <1>3, <1>4, <2>2, <2>3, <2>4, SoundAfter
  <1> QED
    BY <1>6, <1>7

\* CFMachPortCreate gives the rights back when there was no memory.
LEMMA MakeFailsSound ==
  ASSUME PortsInv, NEW t \in Threads, MakeFails(t), NEW p \in OwnPorts
  PROVE  p \in Sound'
  <1>0. /\ CountInv /\ p \in Sound /\ t \in Actors /\ at \in [Actors -> Calls] /\ p # None
        /\ port \in [Ports -> {"none", "rights", "dead"}] /\ p \in Ports
    BY SoundAre, ActorsAre, MachPortAssumption DEF CountInv, TypeOK, Ports
  <1>1. /\ UNCHANGED <<mp, source, records>> /\ at[t].pc = "make" /\ at[t].port \in Ports
        /\ port' = IF at[t].create THEN GivenBack(at[t].port) ELSE port
    BY <1>0 DEF MakeFails, CountInv, CallsAreTyped
  <1>2. at'[t].port = None /\ \A a \in Actors : a # t => at'[a] = at[a]
    BY <1>0 DEF MakeFails, Idle
  <1>3. CASE at[t].port # p
    <2>1. port'[p] = port[p]
      BY <1>0, <1>1, <1>3 DEF GivenBack
    <2>2. \A a \in Actors : at'[a].port = p \/ at[a].port = p => at'[a] = at[a]
      BY <1>0, <1>2, <1>3
    <2> QED
      BY <1>0, <1>1, <2>1, <2>2, AlikeSound
  <1>4. CASE at[t].port = p
    <2>1. /\ records[p] = None /\ \A o \in Objects : ~Uses(mp[o], source[o], p)
          /\ \A a \in Actors : at[a].port = p => a = t
      BY <1>0, <1>1, <1>4, MakerFacts
    <2>2. at[t].create
      BY <1>0, <1>1, <1>4 DEF CountInv, CallsAreTyped
    <2>3. port'[p] = "none" /\ records'[p] = None
      BY <1>0, <1>1, <1>4, <2>1, <2>2 DEF GivenBack
    <2>4. \A o \in Objects : ~Uses(mp'[o], source'[o], p)
      BY <1>1, <2>1
    <2>5. \A a \in Actors : at'[a].port # p
      BY <1>0, <1>2, <2>1
    <2> QED
      BY <2>3, <2>4, <2>5, SoundAfter
  <1> QED
    BY <1>3, <1>4

LEMMA RecordIntentSound ==
  ASSUME PortsInv, NEW t \in Threads, RecordIntent(t), NEW p \in OwnPorts
  PROVE  p \in Sound'
  <1>0. /\ CountInv /\ p \in Sound /\ t \in Actors /\ at \in [Actors -> Calls] /\ p # None
        /\ records \in [Ports -> Records] /\ p \in Ports
    BY SoundAre, ActorsAre, MachPortAssumption DEF CountInv, TypeOK, Ports
  <1>1. /\ UNCHANGED <<port, mp, source>> /\ at[t].pc = "intent"
        /\ records' = WithIntent(at[t].port)
    BY DEF RecordIntent
  <1>2. /\ at'[t].pc = "source" /\ at'[t].o = at[t].o /\ at'[t].port = at[t].port
        /\ \A a \in Actors : a # t => at'[a] = at[a]
    BY <1>0 DEF RecordIntent, Goto, Calls
  <1>3. CASE at[t].port # p
    <2>1. records'[p] = records[p]
      BY <1>0, <1>1, <1>3 DEF WithIntent
    <2>2. \A a \in Actors : at'[a].port = p \/ at[a].port = p => at'[a] = at[a]
      BY <1>0, <1>2, <1>3
    <2> QED
      BY <1>0, <1>1, <2>1, <2>2, AlikeSound
  <1>4. CASE at[t].port = p
    <2> DEFINE x == at[t].o
    <2>1. /\ port[p] = "rights" /\ records[p] = None /\ \A a \in Actors : at[a].port = p => a = t
          /\ x \in Objects /\ mp[x].state = "ready" /\ mp[x].held = 0 /\ Uses(mp[x], source[x], p)
          /\ source[x] \notin {"active", "cancelled"}
      BY <1>0, <1>1, <1>4, MakerFacts
    <2>2. /\ \A o \in Objects : Uses(mp[o], source[o], p) => o = x
          /\ mp[x].dsrc <=> source[x] = "active"
      BY <1>0, <2>1, UserFacts
    <2>3. records'[p] # None /\ ~records'[p].doRights /\ ~records'[p].invalidated
      <3>1. records'[p] = [doRights |-> FALSE, invalidated |-> FALSE]
        BY <1>0, <1>1, <1>4, <2>1 DEF WithIntent
      <3>2. [doRights |-> FALSE, invalidated |-> FALSE] \in [doRights : BOOLEAN, invalidated : BOOLEAN]
        OBVIOUS
      <3>3. records'[p] # None
        BY <3>1, <3>2, MachPortAssumption
      <3> QED
        BY <3>1, <3>3
    <2>4. \A a \in Actors : at'[a].port = p => a = t
      BY <1>2, <2>1
    <2>5. \A o \in Objects : Uses(mp'[o], source'[o], p) => o = x
      BY <1>1, <2>2
    <2>6. /\ at'[t].o = x /\ at'[t].pc = "source" /\ mp' = mp /\ source' = source /\ port'[p] = "rights"
          /\ mp'[x].state = "ready" /\ mp'[x].held = 0 /\ source'[x] \notin {"active", "cancelled"}
          /\ mp'[x].dsrc <=> source'[x] = "active"
      BY <1>1, <1>2, <2>1, <2>2
    <2> HIDE DEF x
    <2> QED
      BY <2>3, <2>4, <2>5, <2>6, SoundAfter
  <1> QED
    BY <1>3, <1>4

LEMMA MakeSourceSound ==
  ASSUME PortsInv, NEW t \in Threads, MakeSource(t), NEW p \in OwnPorts
  PROVE  p \in Sound'
  <1> DEFINE x == at[t].o
  <1>0. /\ CountInv /\ p \in Sound /\ t \in Actors /\ at \in [Actors -> Calls] /\ p # None
        /\ mp \in [Objects -> MachPorts] /\ p \in Ports
        /\ source \in [Objects -> {"none", "active", "cancelled", "handled"}]
    BY SoundAre, ActorsAre, MachPortAssumption DEF CountInv, TypeOK, Ports
  <1>1. /\ UNCHANGED <<port, records>> /\ at[t].pc = "source"
        /\ source' = [source EXCEPT ![x] = "active"]
        /\ mp' = [mp EXCEPT ![x].dsrc = TRUE]
    BY DEF MakeSource
  <1>2. /\ at'[t].pc = "check" /\ at'[t].o = x /\ at'[t].port = at[t].port
        /\ \A a \in Actors : a # t => at'[a] = at[a]
    BY <1>0 DEF MakeSource, Goto, Calls
  <1>3. x \in Objects /\ mp[x].port = at[t].port /\ Makes(at[t], x)
    BY <1>0, <1>1 DEF CountInv, CallsAreTyped, Makes
  <1>4. /\ mp'[x].dsrc /\ mp'[x].state = mp[x].state /\ mp'[x].port = mp[x].port
        /\ \A o \in Objects : o # x => mp'[o] = mp[o] /\ source'[o] = source[o]
        /\ source'[x] = "active"
    BY <1>0, <1>1, <1>3, MakeSourceEffect
  <1>5. mp'[x].held = mp[x].held
    <2>1. mp' = [mp EXCEPT ![x] = [mp[x] EXCEPT !.dsrc = TRUE]]
      BY <1>1
    <2> HIDE DEF x
    <2> QED
      BY <1>0, <1>3, <2>1 DEF MachPorts
  <1> HIDE DEF x
  <1>6. CASE at[t].port # p
    <2>1. \A a \in Actors : at'[a].port = p \/ at[a].port = p => at'[a] = at[a]
      BY <1>2, <1>6
    <2>2. \A o \in Objects : mp'[o].port = p => mp[o].port = p /\ Stays(o)
      BY <1>3, <1>4, <1>6 DEF Stays
    <2>3. \A a \in Actors : \A o \in Objects :
            at[a].port = p /\ Makes(at[a], o) => mp'[o].held = mp[o].held /\ Stays(o)
      <3> TAKE a \in Actors
      <3> TAKE o \in Objects
      <3> HAVE at[a].port = p /\ Makes(at[a], o)
      <3>1. mp[o].port = p
        BY <1>0, HeldAreMade
      <3> QED
        BY <1>3, <1>4, <1>6, <3>1 DEF Stays
    <2>4. port'[p] = port[p] /\ records'[p] = records[p]
      BY <1>1
    <2> QED
      BY <1>0, <2>1, <2>2, <2>3, <2>4, StaysSound
  <1>7. CASE at[t].port = p
    <2>1. /\ port[p] = "rights" /\ records[p] # None /\ ~records[p].doRights
          /\ \A a \in Actors : at[a].port = p => a = t
          /\ mp[x].state = "ready" /\ mp[x].held = 0 /\ Uses(mp[x], source[x], p)
      BY <1>0, <1>1, <1>7, MakerFacts DEF x
    <2>2. /\ \A o \in Objects : Uses(mp[o], source[o], p) => o = x
          /\ ~records[p].invalidated
      BY <1>0, <1>3, <2>1, UserFacts
    <2>3. \A a \in Actors : at'[a].port = p => a = t
      BY <1>2, <2>1
    <2>4. \A o \in Objects : Uses(mp'[o], source'[o], p) => o = x
      BY <1>4, <2>2
    <2>5. port'[p] = "rights" /\ records'[p] = records[p]
      BY <1>1, <2>1
    <2>6. mp'[x].state = "ready" /\ mp'[x].held = 0
      BY <1>4, <1>5, <2>1
    <2> QED
      BY <1>2, <1>4, <2>1, <2>2, <2>3, <2>4, <2>5, <2>6, SoundAfter
  <1> QED
    BY <1>6, <1>7

\* An own port's object is valid when the call that made it comes to check it.
LEMMA OwnIsValid ==
  ASSUME PortsInv, NEW t \in Threads, at[t].pc = "check", at[t].port \in OwnPorts
  PROVE  IsValid(at[t].o)
  <1>1. CountInv /\ at[t].port \in Sound /\ t \in Actors
    BY SoundAre, ActorsAre
  <1>2. port[at[t].port] = "rights" /\ mp[at[t].o].port = at[t].port /\ mp[at[t].o].state = "ready"
    BY <1>1, MakerFacts
  <1> QED
    BY <1>2 DEF IsValid

LEMMA CheckSound ==
  ASSUME PortsInv, NEW t \in Threads, Check(t), NEW p \in OwnPorts
  PROVE  p \in Sound'
  <1> DEFINE x == at[t].o
  <1>0. /\ CountInv /\ p \in Sound /\ t \in Actors /\ at \in [Actors -> Calls] /\ p # None
        /\ mp \in [Objects -> MachPorts] /\ p \in Ports /\ at[t].port # None
    BY SoundAre, ActorsAre, MachPortAssumption DEF CountInv, TypeOK, Ports, Check, CallsAreTyped
  <1>1. UNCHANGED <<source, records>> /\ at[t].pc = "check"
    BY DEF Check
  <1>2. at'[t].port = None /\ \A a \in Actors : a # t => at'[a] = at[a]
    BY <1>0 DEF Check, Idle
  <1>3. x \in Objects /\ mp[x].port = at[t].port /\ Makes(at[t], x)
    BY <1>0, <1>1, CallFacts
  <1>4. /\ \A o \in Objects : o # x => mp'[o] = mp[o]
        /\ \/ /\ IsValid(x) /\ UNCHANGED port /\ mp'[x].state = mp[x].state
              /\ mp'[x].port = mp[x].port /\ mp'[x].dsrc = mp[x].dsrc
           \/ /\ ~IsValid(x) /\ LetGo(mp'[x], mp[x])
              /\ port' = IF at[t].create THEN GivenBack(at[t].port) ELSE port
    BY <1>0, CheckEffect
  <1> HIDE DEF x
  <1>6. CASE at[t].port # p
    <2>1. \A a \in Actors : at'[a].port = p \/ at[a].port = p => at'[a] = at[a]
      BY <1>0, <1>2, <1>6
    <2>2. \A o \in Objects : mp'[o].port = p => mp[o].port = p /\ Stays(o)
      BY <1>1, <1>3, <1>4, <1>6 DEF Stays, LetGo
    <2>3. \A a \in Actors : \A o \in Objects :
            at[a].port = p /\ Makes(at[a], o) => mp'[o].held = mp[o].held /\ Stays(o)
      <3> TAKE a \in Actors
      <3> TAKE o \in Objects
      <3> HAVE at[a].port = p /\ Makes(at[a], o)
      <3>1. mp[o].port = p
        BY <1>0, HeldAreMade
      <3> QED
        BY <1>1, <1>3, <1>4, <1>6, <3>1 DEF Stays
    <2>4. port'[p] = port[p] /\ records'[p] = records[p]
      <3>1. port \in [Ports -> {"none", "rights", "dead"}]
        BY <1>0 DEF CountInv, TypeOK
      <3> QED
        BY <1>0, <1>1, <1>4, <1>6, <3>1 DEF GivenBack
    <2> QED
      BY <1>0, <2>1, <2>2, <2>3, <2>4, StaysSound
  <1>7. CASE at[t].port = p
    <2>1. /\ port[p] = "rights" /\ records[p] # None /\ ~records[p].doRights
          /\ \A a \in Actors : at[a].port = p => a = t
          /\ mp[x].state = "ready" /\ source[x] = "active" /\ Uses(mp[x], source[x], p)
      BY <1>0, <1>1, <1>7, MakerFacts DEF x
    <2>2. /\ \A o \in Objects : Uses(mp[o], source[o], p) => o = x
          /\ ~records[p].invalidated /\ mp[x].dsrc
      BY <1>0, <1>3, <2>1, UserFacts
    <2>3. IsValid(x)
      BY <1>1, <1>7, OwnIsValid DEF x
    <2>4. /\ mp'[x].state = "ready" /\ mp'[x].dsrc /\ mp'[x].port = p /\ source'[x] = "active"
          /\ port'[p] = "rights" /\ records'[p] = records[p]
          /\ \A o \in Objects : o # x => mp'[o] = mp[o] /\ source'[o] = source[o]
      BY <1>1, <1>3, <1>4, <1>7, <2>1, <2>2, <2>3
    <2>5. \A a \in Actors : at'[a].port # p
      BY <1>0, <1>2, <2>1
    <2>6. \A o \in Objects : Uses(mp'[o], source'[o], p) => o = x
      BY <2>2, <2>4
    <2> QED
      BY <2>1, <2>2, <2>4, <2>5, <2>6, SoundAfter
  <1> QED
    BY <1>6, <1>7

----------------------------------------------------------------------------
(* Invalidating and releasing an object, which no call for an own port makes. *)

LEMMA InvalidateSound ==
  ASSUME PortsInv, NEW t \in Threads, NEW x \in Objects, Invalidate(t, x), NEW p \in OwnPorts
  PROVE  p \in Sound'
  <1>0. /\ CountInv /\ p \in Sound /\ t \in Actors /\ at \in [Actors -> Calls] /\ p # None
        /\ mp \in [Objects -> MachPorts]
    BY SoundAre, ActorsAre, MachPortAssumption DEF CountInv, TypeOK
  <1>1. UNCHANGED <<port, records>> /\ at[t] = Idle /\ mp[x].held > 0 /\ source' = Cancelled({x})
    BY DEF Invalidate
  <1>2. at[t].port = None /\ at'[t].port = None /\ \A a \in Actors : a # t => at'[a] = at[a]
    BY <1>0, <1>1 DEF Invalidate, Idle
  <1>3. /\ mp[x].state = "ready" /\ mp'[x].state = "invalidating" /\ ~mp'[x].dsrc
        /\ mp'[x].port = mp[x].port /\ \A o \in Objects : o # x => mp'[o] = mp[o]
    BY <1>0, InvalidateEffect
  <1>4. /\ source'[x] = (IF mp[x].dsrc THEN "cancelled" ELSE source[x])
        /\ \A o \in Objects : o # x => source'[o] = source[o]
    BY <1>1 DEF Cancelled
  <1>5. \A a \in Actors : at'[a].port = p \/ at[a].port = p => at'[a] = at[a]
    BY <1>0, <1>2
  <1>6. \A o \in Objects : mp'[o].port = p => mp[o].port = p /\ (Stays(o) \/ IsTakenOff(o))
    BY <1>3, <1>4 DEF Stays, IsTakenOff
  <1>7. \A a \in Actors : \A o \in Objects :
          at[a].port = p /\ Makes(at[a], o) => mp'[o].held = mp[o].held /\ Stays(o)
    <2> TAKE a \in Actors
    <2> TAKE o \in Objects
    <2> HAVE at[a].port = p /\ Makes(at[a], o)
    <2>1. o # x
      BY <1>0, <1>1, HeldAreMade
    <2> QED
      BY <1>3, <1>4, <2>1 DEF Stays
  <1> QED
    BY <1>0, <1>1, <1>5, <1>6, <1>7, StaysSound

LEMMA SettleSound ==
  ASSUME PortsInv, NEW a \in Actors, Settle(a), NEW p \in OwnPorts
  PROVE  p \in Sound'
  <1> DEFINE x == at[a].o
  <1>0. /\ CountInv /\ p \in Sound /\ at \in [Actors -> Calls] /\ p # None
    BY SoundAre, MachPortAssumption DEF CountInv, TypeOK
  <1>1. UNCHANGED <<port, records, source>> /\ at' = [at EXCEPT ![a] = Idle] /\ Ends(at[a])
    BY DEF Settle, Ends
  <1>2. at[a].port = None /\ at'[a].port = None /\ \A b \in Actors : b # a => at'[b] = at[b]
    BY <1>0, <1>1, EndsFacts DEF Idle
  <1>3. /\ x \in Objects /\ \A o \in Objects : o # x => mp'[o] = mp[o]
        /\ mp'[x].state \in {"invalid", "deallocating"} /\ mp[x].state = "invalidating"
        /\ mp'[x].port = mp[x].port /\ mp'[x].dsrc = mp[x].dsrc
    BY <1>0, SettleEffect
  <1> HIDE DEF x
  <1>5. \A b \in Actors : at'[b].port = p \/ at[b].port = p => at'[b] = at[b]
    BY <1>0, <1>2
  <1>6. \A o \in Objects : mp'[o].port = p => mp[o].port = p /\ (Stays(o) \/ IsLetGo(o))
    BY <1>1, <1>3 DEF Stays, IsLetGo
  <1>7. \A b \in Actors : \A o \in Objects :
          at[b].port = p /\ Makes(at[b], o) => mp'[o].held = mp[o].held /\ Stays(o)
    <2> TAKE b \in Actors
    <2> TAKE o \in Objects
    <2> HAVE at[b].port = p /\ Makes(at[b], o)
    <2>1. o # x
      BY <1>0, <1>3, HeldAreMade
    <2> QED
      BY <1>1, <1>3, <2>1 DEF Stays
  <1> QED
    BY <1>0, <1>1, <1>5, <1>6, <1>7, StaysSound

LEMMA ReleaseSound ==
  ASSUME PortsInv, NEW t \in Threads, NEW x \in Objects, Release(t, x), NEW p \in OwnPorts
  PROVE  p \in Sound'
  <1>0. CountInv /\ p \in Sound
    BY SoundAre
  <1>1. UNCHANGED <<port, records, source, at>> /\ mp[x].held > 0
    BY DEF Release
  <1>2. LetGo(mp'[x], mp[x]) /\ \A o \in Objects : o # x => mp'[o] = mp[o]
    BY <1>0, ReleaseEffect
  <1>3. \A o \in Objects : mp'[o].port = p => mp[o].port = p /\ (Stays(o) \/ IsLetGo(o))
    BY <1>1, <1>2 DEF Stays, IsLetGo, LetGo
  <1>4. \A b \in Actors : \A o \in Objects :
          at[b].port = p /\ Makes(at[b], o) => mp'[o].held = mp[o].held /\ Stays(o)
    <2> TAKE b \in Actors
    <2> TAKE o \in Objects
    <2> HAVE at[b].port = p /\ Makes(at[b], o)
    <2>1. o # x
      BY <1>0, <1>1, HeldAreMade
    <2> QED
      BY <1>1, <1>2, <2>1 DEF Stays
  <1> QED
    BY <1>0, <1>1, <1>3, <1>4, StaysSound

\* The checker finds an object that is being made for an own port wanted: its
\* port has rights, and the call that makes it has a reference.
LEMMA CheckerSound ==
  ASSUME PortsInv, NEW watcher \in Objects, Checker(watcher), NEW p \in OwnPorts
  PROVE  p \in Sound'
  <1>0. CountInv /\ p \in Sound
    BY SoundAre
  <1>1. UNCHANGED <<port, records, at>>
    BY DEF Checker
  <1>2. PICK ready \in SUBSET Objects :
           /\ source' = Cancelled(ready)
           /\ \A o \in ready : /\ mp[o].state = "ready" /\ mp'[o].state = "invalidating"
                               /\ ~mp'[o].dsrc /\ mp'[o].port = mp[o].port /\ Unwanted(o)
           /\ \A o \in Objects : o \notin ready => mp'[o] = mp[o]
    BY <1>0, CheckerEffect
  <1>3. \A o \in Objects :
          source'[o] = IF o \in ready /\ mp[o].dsrc THEN "cancelled" ELSE source[o]
    BY <1>2 DEF Cancelled
  <1>4. \A o \in Objects : mp'[o].port = p => mp[o].port = p /\ (Stays(o) \/ IsTakenOff(o))
    <2> TAKE o \in Objects
    <2>1. CASE o \in ready
      BY <1>2, <1>3, <2>1 DEF IsTakenOff
    <2>2. CASE o \notin ready
      BY <1>2, <1>3, <2>2 DEF Stays
    <2> QED
      BY <2>1, <2>2
  <1>5. \A b \in Actors : \A o \in Objects :
          at[b].port = p /\ Makes(at[b], o) => mp'[o].held = mp[o].held /\ Stays(o)
    <2> TAKE b \in Actors
    <2> TAKE o \in Objects
    <2> HAVE at[b].port = p /\ Makes(at[b], o)
    <2>1. /\ mp[o].state = "ready" /\ mp[o].port = p /\ port[p] = "rights" /\ mp[o].held = 0
      BY <1>0, HeldAreMade, MakerFacts
    <2>2. /\ Cardinality(Makers[o]) \in Nat /\ Cardinality(Makers[o]) >= 1
          /\ mp[o].refs = mp[o].held + Cardinality(Makers[o]) + 1
      BY <1>0, <2>1, CountFacts DEF IsInUse
    <2>3. mp[o].refs # 1
      BY <2>1, <2>2
    <2>4. o \notin ready
      BY <1>2, <2>1, <2>3 DEF Unwanted
    <2> QED
      BY <1>2, <1>3, <2>4 DEF Stays
  <1> QED
    BY <1>0, <1>1, <1>4, <1>5, StaysSound

----------------------------------------------------------------------------
(* Deallocating an object and its source's cancel handler, in either order. *)

\* Each finds what the other has left of the record.
LEMMA RecordFacts ==
  ASSUME CountInv, NEW p \in OwnPorts, p \in Sound, NEW x \in Objects, Uses(mp[x], source[x], p)
  PROVE  /\ AwaitsInvalidation(p) <=> records[p] # None
         /\ mp[x].state = "deallocating" => \A a \in Actors : at[a].port # p
         /\ source[x] = "cancelled" => \A a \in Actors : at[a].port # p
  <1>1. /\ records[p] # None => ~records[p].invalidated
        /\ \A o \in Objects : Uses(mp[o], source[o], p) => o = x
    BY UserFacts
  <1>2. ASSUME NEW a \in Actors, at[a].port = p
        PROVE  mp[x].state # "deallocating" /\ source[x] # "cancelled"
    <2>1. at[a].pc \in {"find", "make", "intent", "source", "check"}
      BY <1>2, CallFacts, MachPortAssumption
    <2>2. /\ at[a].pc \in {"intent", "source", "check"} /\ at[a].o \in Objects
          /\ mp[at[a].o].state = "ready" /\ Uses(mp[at[a].o], source[at[a].o], p)
          /\ source[at[a].o] # "cancelled"
      BY <1>2, <2>1, MakerFacts
    <2>3. at[a].o = x
      BY <1>1, <2>2
    <2> QED
      BY <2>2, <2>3
  <1> QED
    BY <1>1, <1>2 DEF AwaitsInvalidation

LEMMA DeallocateSound ==
  ASSUME PortsInv, NEW x \in Objects, Deallocate(x), NEW p \in OwnPorts
  PROVE  p \in Sound'
  <1>0. /\ CountInv /\ p \in Sound /\ p \in Ports
        /\ records \in [Ports -> Records] /\ port \in [Ports -> {"none", "rights", "dead"}]
    BY SoundAre DEF CountInv, TypeOK, Ports
  <1>1. /\ UNCHANGED <<source, at>> /\ RecordDeallocation(mp[x].port, mp[x].owns)
        /\ mp[x].state = "deallocating" /\ mp'[x].state = "gone" /\ mp'[x].port = mp[x].port
        /\ mp'[x].dsrc = mp[x].dsrc /\ \A o \in Objects : o # x => mp'[o] = mp[o]
    BY <1>0, DeallocateEffect DEF Deallocate
  <1>2. CASE mp[x].port # p
    <2>1. port'[p] = port[p] /\ records'[p] = records[p]
      BY <1>0, <1>1, <1>2 DEF RecordDeallocation, GivenBack
    <2>2. \A o \in Objects : mp'[o].port = p => mp[o].port = p /\ Stays(o)
      BY <1>1, <1>2 DEF Stays
    <2>3. \A b \in Actors : \A o \in Objects :
            at[b].port = p /\ Makes(at[b], o) => mp'[o].held = mp[o].held /\ Stays(o)
      <3> TAKE b \in Actors
      <3> TAKE o \in Objects
      <3> HAVE at[b].port = p /\ Makes(at[b], o)
      <3>1. mp[o].port = p
        BY <1>0, HeldAreMade
      <3> QED
        BY <1>1, <1>2, <3>1 DEF Stays
    <2> QED
      BY <1>0, <1>1, <2>1, <2>2, <2>3, StaysSound
  <1>3. CASE mp[x].port = p
    <2>1. Uses(mp[x], source[x], p)
      BY <1>1, <1>3 DEF Uses
    <2>2. /\ port[p] = "rights" /\ \A o \in Objects : Uses(mp[o], source[o], p) => o = x
          /\ mp[x].dsrc <=> source[x] = "active"
          /\ source[x] # "active"
          /\ source[x] = "cancelled" => records[p] # None
          /\ records[p] # None => ~records[p].invalidated /\ ~records[p].doRights
      BY <1>0, <1>1, <2>1, UserFacts
    <2>3. (AwaitsInvalidation(p) <=> records[p] # None) /\ \A a \in Actors : at[a].port # p
      BY <1>0, <1>1, <2>1, RecordFacts
    <2>4. \A o \in Objects : Uses(mp'[o], source'[o], p) => o = x
      BY <1>1, <2>2
    <2>5. ~mp'[x].dsrc /\ source'[x] # "active" /\ source'[x] = source[x] /\ \A a \in Actors : at'[a].port # p
      BY <1>1, <2>2, <2>3
    <2>6. CASE ~mp[x].owns /\ UNCHANGED <<records, port>>
      BY <1>1, <2>2, <2>4, <2>5, <2>6, SoundAfter
    <2>7. CASE /\ records[p] # None /\ records' = [records EXCEPT ![p].doRights = TRUE]
               /\ UNCHANGED port
      <3>1. /\ records[p] \in [doRights : BOOLEAN, invalidated : BOOLEAN]
            /\ records'[p] = [records[p] EXCEPT !.doRights = TRUE]
        BY <1>0, <2>7 DEF Records
      <3>2. /\ records'[p] \in [doRights : BOOLEAN, invalidated : BOOLEAN]
            /\ records'[p].invalidated = records[p].invalidated
        BY <3>1
      <3>3. records'[p] # None /\ ~records'[p].invalidated /\ port'[p] = "rights"
        BY <2>2, <2>7, <3>2, MachPortAssumption
      <3> QED
        BY <1>1, <2>4, <2>5, <3>3, SoundAfter
    <2>8. CASE /\ records[p] = None /\ records' = [records EXCEPT ![p] = None]
               /\ port' = GivenBack(p)
      <3>1. records'[p] = None /\ port'[p] = "none"
        BY <1>0, <2>8 DEF GivenBack
      <3>2. source[x] \notin {"active", "cancelled"}
        BY <2>2, <2>8
      <3>3. \A o \in Objects : ~Uses(mp'[o], source'[o], p)
        BY <1>1, <2>4, <2>5, <3>2 DEF Uses
      <3> QED
        BY <2>5, <3>1, <3>3, SoundAfter
    <2> QED
      BY <1>1, <1>3, <2>3, <2>6, <2>7, <2>8 DEF RecordDeallocation, IsDeferred
  <1> QED
    BY <1>2, <1>3

LEMMA CancelHandlerSound ==
  ASSUME PortsInv, NEW x \in Objects, CancelHandler(x), NEW p \in OwnPorts
  PROVE  p \in Sound'
  <1>0. /\ CountInv /\ p \in Sound /\ p \in Ports
        /\ records \in [Ports -> Records] /\ port \in [Ports -> {"none", "rights", "dead"}]
        /\ source \in [Objects -> {"none", "active", "cancelled", "handled"}]
    BY SoundAre DEF CountInv, TypeOK, Ports
  <1>1. /\ UNCHANGED <<mp, at>> /\ SourceInvalidated(mp[x].port)
        /\ source[x] = "cancelled" /\ source'[x] = "handled"
        /\ \A o \in Objects : o # x => source'[o] = source[o]
    BY <1>0 DEF CancelHandler
  <1>2. CASE mp[x].port # p
    <2>1. port'[p] = port[p] /\ records'[p] = records[p]
      BY <1>0, <1>1, <1>2 DEF SourceInvalidated, GivenBack, RecordsAfter
    <2>2. \A o \in Objects : mp'[o].port = p => mp[o].port = p /\ Stays(o)
      BY <1>1, <1>2 DEF Stays
    <2>3. \A b \in Actors : \A o \in Objects :
            at[b].port = p /\ Makes(at[b], o) => mp'[o].held = mp[o].held /\ Stays(o)
      <3> TAKE b \in Actors
      <3> TAKE o \in Objects
      <3> HAVE at[b].port = p /\ Makes(at[b], o)
      <3>1. mp[o].port = p
        BY <1>0, HeldAreMade
      <3> QED
        BY <1>1, <1>2, <3>1 DEF Stays
    <2> QED
      BY <1>0, <1>1, <2>1, <2>2, <2>3, StaysSound
  <1>3. CASE mp[x].port = p
    <2>1. Uses(mp[x], source[x], p)
      BY <1>1, <1>3 DEF Uses
    <2>2. /\ port[p] = "rights" /\ \A o \in Objects : Uses(mp[o], source[o], p) => o = x
          /\ ~mp[x].dsrc /\ records[p] # None
          /\ records[p].doRights => mp[x].state = "gone"
      BY <1>0, <1>1, <2>1, UserFacts
    <2>3. AwaitsInvalidation(p) /\ \A a \in Actors : at'[a].port # p
      BY <1>0, <1>1, <2>1, <2>2, RecordFacts
    <2>4. /\ records'[p] = None
          /\ port'[p] = IF records[p].doRights THEN "none" ELSE "rights"
      BY <1>0, <1>1, <1>3, <2>2, <2>3 DEF SourceInvalidated, GivenBack, RecordsAfter
    <2>5. \A o \in Objects : Uses(mp'[o], source'[o], p) => o = x /\ mp'[x].state # "gone"
      BY <1>1, <2>2 DEF Uses
    <2>6. port'[p] = "none" => \A o \in Objects : ~Uses(mp'[o], source'[o], p)
      BY <1>1, <2>2, <2>4, <2>5
    <2>7. ~mp'[x].dsrc /\ source'[x] = "handled"
      BY <1>1, <2>2
    <2>8. port'[p] # "dead"
      BY <2>4
    <2> QED
      BY <2>3, <2>4, <2>5, <2>6, <2>7, <2>8, SoundAfter
  <1> QED
    BY <1>2, <1>3

----------------------------------------------------------------------------
(* What an object that was made has, and the ports of others. *)

\* The objects keep their ports and owners.
LEMMA ObjectsKept ==
  ASSUME ObjectsAreTyped,
         \A o \in Objects : /\ mp'[o].port = mp[o].port /\ mp'[o].owns = mp[o].owns
                            /\ mp'[o].state # "gone" => mp[o].state # "gone"
                            /\ source'[o] = source[o] \/ source[o] # "none" \/ mp[o].state # "gone"
  PROVE  ObjectsAreTyped'
  BY DEF ObjectsAreTyped

LEMMA ClientTyped == ASSUME PortsInv, NEW t \in Threads, Client(t) PROVE ObjectsAreTyped'
  <1>0. CountInv /\ ObjectsAreTyped
    BY DEF PortsInv
  <1>1. ASSUME NEW p \in Ports, Create(t, p) \/ CreateWithPort(t, p) PROVE ObjectsAreTyped'
    BY <1>0, <1>1, ObjectsKept DEF Create, CreateWithPort
  <1>2. ASSUME NEW x \in Objects, Invalidate(t, x) PROVE ObjectsAreTyped'
    <2>1. \A o \in Objects : /\ mp'[o].port = mp[o].port /\ mp'[o].owns = mp[o].owns
                             /\ mp'[o].state # "gone" => mp[o].state # "gone"
      BY <1>0, <1>2, InvalidateEffect
    <2>2. \A o \in Objects : source'[o] = source[o] \/ mp[o].state # "gone"
      BY <1>0, <1>2, InvalidateEffect DEF Invalidate, Cancelled
    <2> QED
      BY <1>0, <2>1, <2>2, ObjectsKept
  <1>3. ASSUME NEW x \in Objects, SetInvalidationCallBack(t, x) PROVE ObjectsAreTyped'
    <2>1. \A o \in Objects : /\ mp'[o].port = mp[o].port /\ mp'[o].owns = mp[o].owns
                             /\ mp'[o].state = mp[o].state
      BY <1>0, <1>3, SetInvalidationCallBackEffect
    <2> QED
      BY <1>0, <1>3, <2>1, ObjectsKept DEF SetInvalidationCallBack
  <1>4. ASSUME NEW x \in Objects, Release(t, x) PROVE ObjectsAreTyped'
    <2>1. \A o \in Objects : /\ mp'[o].port = mp[o].port /\ mp'[o].owns = mp[o].owns
                             /\ mp'[o].state # "gone" => mp[o].state # "gone"
      BY <1>0, <1>4, ReleaseEffect DEF LetGo
    <2> QED
      BY <1>0, <1>4, <2>1, ObjectsKept DEF Release
  <1> QED
    BY <1>1, <1>2, <1>3, <1>4 DEF Client

LEMMA MakingTyped == ASSUME PortsInv, NEW t \in Threads, Making(t) PROVE ObjectsAreTyped'
  <1>0. CountInv /\ ObjectsAreTyped /\ t \in Actors /\ CallsAreTyped
    BY ActorsAre DEF PortsInv, CountInv
  <1>1. CASE Find(t)
    <2>1. \A o \in Objects : /\ mp'[o].port = mp[o].port /\ mp'[o].owns = mp[o].owns
                             /\ mp'[o].state = mp[o].state
      BY <1>0, <1>1, FindEffect DEF Alike
    <2> QED
      BY <1>0, <1>1, <2>1, ObjectsKept DEF Find
  <1>2. ASSUME NEW x \in Objects, Make(t, x) PROVE ObjectsAreTyped'
    <2>1. /\ mp'[x].port \in Ports /\ ~mp'[x].owns
          /\ \A o \in Objects : o # x => mp'[o] = mp[o] /\ source'[o] = source[o]
      <3>1. at[t].pc = "make" /\ source' = [source EXCEPT ![x] = "none"]
        BY <1>2 DEF Make
      <3>2. at[t].port \in Ports
        BY <1>0, <3>1 DEF CallsAreTyped
      <3> QED
        BY <1>0, <1>2, <3>1, <3>2, MakeEffect DEF CountInv, TypeOK
    <2> QED
      BY <1>0, <2>1 DEF ObjectsAreTyped
  <1>3. CASE MakeFails(t) \/ RecordIntent(t)
    BY <1>0, <1>3, ObjectsKept DEF MakeFails, RecordIntent
  <1>4. CASE MakeSource(t)
    <2>1. /\ at[t].pc = "source" /\ at[t].port \in Ports /\ mp[at[t].o].port = at[t].port
          /\ at[t].o \in Objects
      BY <1>0, <1>4 DEF MakeSource, CallsAreTyped
    <2>2. /\ mp'[at[t].o].port = mp[at[t].o].port /\ mp'[at[t].o].owns = mp[at[t].o].owns
          /\ \A o \in Objects : o # at[t].o => mp'[o] = mp[o] /\ source'[o] = source[o]
      BY <1>0, <1>4, MakeSourceEffect DEF MakeSource
    <2>3. ASSUME NEW o \in Objects
          PROVE  /\ (mp'[o].state # "gone" \/ source'[o] # "none") => mp'[o].port \in Ports
                 /\ mp'[o].owns => mp'[o].port \in OwnPorts
      <3>1. CASE o = at[t].o
        BY <1>0, <2>1, <2>2, <3>1 DEF ObjectsAreTyped
      <3>2. CASE o # at[t].o
        BY <1>0, <2>2, <3>2 DEF ObjectsAreTyped
      <3> QED
        BY <3>1, <3>2
    <2> QED
      BY <2>3 DEF ObjectsAreTyped
  <1>5. CASE Check(t)
    <2>1. /\ at[t].pc = "check" /\ (at[t].create <=> at[t].port \in OwnPorts)
          /\ mp[at[t].o].port = at[t].port /\ UNCHANGED source
      BY <1>0, <1>5 DEF Check, CallsAreTyped
    <2>2. /\ at[t].o \in Objects /\ \A o \in Objects : o # at[t].o => mp'[o] = mp[o]
          /\ mp'[at[t].o].port = mp[at[t].o].port
          /\ mp'[at[t].o].owns => mp[at[t].o].owns \/ at[t].create
          /\ mp'[at[t].o].state # "gone" => mp[at[t].o].state # "gone"
      BY <1>0, <1>5, CheckEffect DEF LetGo
    <2>3. ASSUME NEW o \in Objects
          PROVE  /\ (mp'[o].state # "gone" \/ source'[o] # "none") => mp'[o].port \in Ports
                 /\ mp'[o].owns => mp'[o].port \in OwnPorts
      <3>1. CASE o = at[t].o
        BY <1>0, <2>1, <2>2, <3>1 DEF ObjectsAreTyped
      <3>2. CASE o # at[t].o
        BY <1>0, <2>1, <2>2, <3>2 DEF ObjectsAreTyped
      <3> QED
        BY <3>1, <3>2
    <2> QED
      BY <2>3 DEF ObjectsAreTyped
  <1> QED
    BY <1>1, <1>2, <1>3, <1>4, <1>5 DEF Making

LEMMA FinishingTyped == ASSUME PortsInv, NEW a \in Actors, Finishing(a) PROVE ObjectsAreTyped'
  <1>0. CountInv /\ ObjectsAreTyped
    BY DEF PortsInv
  <1>1. CASE Announce(a)
    <2>1. Ends(at[a])
      BY <1>1 DEF Announce, Ends
    <2>2. \A o \in Objects : /\ mp'[o].port = mp[o].port /\ mp'[o].owns = mp[o].owns
                             /\ mp'[o].state = mp[o].state
      BY <1>0, <1>1, <2>1, EndsFacts, AnnounceEffect, AnnouncedIs
    <2> QED
      BY <1>0, <1>1, <2>2, ObjectsKept DEF Announce
  <1>2. CASE Settle(a)
    <2>1. \A o \in Objects : /\ mp'[o].port = mp[o].port /\ mp'[o].owns = mp[o].owns
                             /\ mp'[o].state # "gone" => mp[o].state # "gone"
      BY <1>0, <1>2, SettleEffect
    <2> QED
      BY <1>0, <1>2, <2>1, ObjectsKept DEF Settle
  <1> QED
    BY <1>1, <1>2 DEF Finishing

LEMMA QueuesTyped ==
  ASSUME PortsInv, NEW x \in Objects, Deallocate(x) \/ CancelHandler(x) \/ Checker(x)
  PROVE  ObjectsAreTyped'
  <1>0. CountInv /\ ObjectsAreTyped
    BY DEF PortsInv
  <1>1. CASE Deallocate(x)
    <2>1. \A o \in Objects : /\ mp'[o].port = mp[o].port /\ mp'[o].owns = mp[o].owns
                             /\ mp'[o].state # "gone" => mp[o].state # "gone"
      BY <1>0, <1>1, DeallocateEffect
    <2> QED
      BY <1>0, <1>1, <2>1, ObjectsKept DEF Deallocate
  <1>2. CASE CancelHandler(x)
    <2>1. /\ source[x] = "cancelled" /\ source' = [source EXCEPT ![x] = "handled"] /\ UNCHANGED mp
          /\ source \in [Objects -> {"none", "active", "cancelled", "handled"}]
      BY <1>0, <1>2 DEF CancelHandler, CountInv, TypeOK
    <2>2. \A o \in Objects : source'[o] = source[o] \/ source[o] # "none"
      BY <2>1
    <2> QED
      BY <1>0, <2>1, <2>2, ObjectsKept
  <1>3. CASE Checker(x)
    <2>1. PICK ready \in SUBSET Objects :
            /\ source' = Cancelled(ready)
            /\ \A o \in ready : /\ mp[o].state = "ready" /\ mp'[o].state = "invalidating"
                                /\ mp'[o].port = mp[o].port /\ mp'[o].owns = mp[o].owns
            /\ \A o \in Objects : o \notin ready => mp'[o] = mp[o]
      BY <1>0, <1>3, CheckerEffect
    <2>2. \A o \in Objects : /\ mp'[o].port = mp[o].port /\ mp'[o].owns = mp[o].owns
                             /\ mp'[o].state # "gone" => mp[o].state # "gone"
      <3> TAKE o \in Objects
      <3>1. CASE o \in ready
        BY <2>1, <3>1
      <3>2. CASE o \notin ready
        BY <2>1, <3>2
      <3> QED
        BY <3>1, <3>2
    <2>3. \A o \in Objects : source'[o] = source[o] \/ mp[o].state # "gone"
      BY <2>1 DEF Cancelled
    <2> QED
      BY <1>0, <2>2, <2>3, ObjectsKept
  <1> QED
    BY <1>1, <1>2, <1>3

LEMMA ObjectsStayTyped == ASSUME PortsInv, [Next]_vars PROVE ObjectsAreTyped'
  <1>1. ASSUME RunBlock \/ (\E p \in Ports : PortDies(p)) \/ UNCHANGED vars PROVE ObjectsAreTyped'
    <2>1. UNCHANGED <<mp, source>>
      BY <1>1 DEF RunBlock, PortDies, vars
    <2> QED
      BY <2>1 DEF PortsInv, ObjectsAreTyped
  <1> QED
    BY <1>1, ClientTyped, MakingTyped, FinishingTyped, QueuesTyped DEF Next

LEMMA OthersStayOthers == ASSUME PortsInv, [Next]_vars PROVE OthersKeepTheirRights'
  <1>0. /\ CountInv /\ ObjectsAreTyped /\ OthersKeepTheirRights /\ OwnPorts \cap ExternalPorts = {}
        /\ records \in [Ports -> Records]
    BY MachPortAssumption DEF PortsInv, CountInv, TypeOK
  <1>1. ASSUME UNCHANGED records PROVE OthersKeepTheirRights'
    BY <1>0, <1>1 DEF OthersKeepTheirRights
  <1>2. ASSUME NEW t \in Threads, RecordIntent(t) PROVE OthersKeepTheirRights'
    BY <1>0, <1>2 DEF RecordIntent, WithIntent, OthersKeepTheirRights, Ports
  <1>3. ASSUME NEW x \in Objects, Deallocate(x) PROVE OthersKeepTheirRights'
    <2>1. mp[x].owns => mp[x].port \notin ExternalPorts
      BY <1>0 DEF ObjectsAreTyped
    <2>2. \A p \in ExternalPorts : records'[p] = records[p]
      BY <1>0, <1>3, <2>1 DEF Deallocate, RecordDeallocation, Ports
    <2> QED
      BY <1>0, <2>2 DEF OthersKeepTheirRights
  <1>4. ASSUME NEW x \in Objects, CancelHandler(x) PROVE OthersKeepTheirRights'
    <2>1. \A p \in ExternalPorts : records'[p] = records[p] \/ records'[p] = None
      <3>1. \/ UNCHANGED records
            \/ records' = [records EXCEPT ![mp[x].port] = None]
        BY <1>4 DEF CancelHandler, SourceInvalidated, RecordsAfter
      <3>2. \A p \in ExternalPorts : p \in Ports
        BY DEF Ports
      <3> QED
        BY <1>0, <3>1, <3>2
    <2> QED
      BY <1>0, <2>1 DEF OthersKeepTheirRights
  <1>5. ASSUME NEW t \in Threads, Client(t) \/ Making(t) PROVE OthersKeepTheirRights'
    <2>1. UNCHANGED records \/ RecordIntent(t)
      BY <1>5 DEF Client, Making, Create, CreateWithPort, Invalidate, SetInvalidationCallBack, Release,
                  Find, Make, MakeFails, MakeSource, Check
    <2> QED
      BY <1>1, <1>2, <2>1
  <1>6. ASSUME NEW a \in Actors, Finishing(a) PROVE OthersKeepTheirRights'
    BY <1>1, <1>6 DEF Finishing, Announce, Settle
  <1>7. ASSUME NEW x \in Objects, Checker(x) PROVE OthersKeepTheirRights'
    BY <1>1, <1>7 DEF Checker
  <1>8. ASSUME RunBlock \/ (\E p \in Ports : PortDies(p)) \/ UNCHANGED vars PROVE OthersKeepTheirRights'
    BY <1>1, <1>8 DEF RunBlock, PortDies, vars
  <1> QED
    BY <1>3, <1>4, <1>5, <1>6, <1>7, <1>8 DEF Next

----------------------------------------------------------------------------
(* The invariant, and what follows from it. *)

LEMMA InitPorts == Init => PortsInv
  <1> SUFFICES ASSUME Init PROVE PortsInv
    OBVIOUS
  <1>1. CountInv /\ ObjectsAreTyped /\ OthersKeepTheirRights
    BY InitCounts DEF Init, ObjectsAreTyped, OthersKeepTheirRights, Gone, Ports
  <1>2. ASSUME NEW p \in OwnPorts
        PROVE  p \in UsedOnce /\ p \in InStep /\ p \in Recorded
    <2>1. /\ p \in Ports /\ p # None /\ p \notin ExternalPorts
          /\ \A o \in Objects : mp[o].port # p /\ \A a \in Actors : at[a].port # p
      BY MachPortAssumption DEF Init, Gone, Idle, Ports
    <2>2. Users[p] = {} /\ port[p] = "none" /\ records[p] = None
      BY <2>1 DEF Users, Init
    <2>3. \A a \in Actors : at[a].port # p
      BY <2>1 DEF Init, Idle
    <2> QED
      BY <2>2, <2>3 DEF UsedOnce, InStep, Recorded
  <1> QED
    BY <1>1, <1>2 DEF PortsInv

LEMMA SoundKept == ASSUME PortsInv, [Next]_vars, NEW p \in OwnPorts PROVE p \in Sound'
  <1>1. ASSUME NEW t \in Threads, Client(t) PROVE p \in Sound'
    BY <1>1, CreateSound, CreateWithPortSound, InvalidateSound, CallbackStepsSound, ReleaseSound DEF Client
  <1>2. ASSUME NEW t \in Threads, Making(t) PROVE p \in Sound'
    BY <1>2, FindSound, MakeSound, MakeFailsSound, RecordIntentSound, MakeSourceSound, CheckSound DEF Making
  <1>3. ASSUME NEW a \in Actors, Finishing(a) PROVE p \in Sound'
    BY <1>3, CallbackStepsSound, SettleSound DEF Finishing
  <1>4. ASSUME NEW x \in Objects, Deallocate(x) \/ CancelHandler(x) \/ Checker(x) PROVE p \in Sound'
    BY <1>4, DeallocateSound, CancelHandlerSound, CheckerSound
  <1>5. ASSUME RunBlock \/ (\E q \in Ports : PortDies(q)) \/ UNCHANGED vars PROVE p \in Sound'
    BY <1>5, OtherStepsSound
  <1> QED
    BY <1>1, <1>2, <1>3, <1>4, <1>5 DEF Next

LEMMA PortsAreKept == PortsInv /\ [Next]_vars => PortsInv'
  <1> SUFFICES ASSUME PortsInv, [Next]_vars PROVE PortsInv'
    OBVIOUS
  <1>1. CountInv'
    BY CountIsKept DEF PortsInv
  <1>2. ObjectsAreTyped' /\ OthersKeepTheirRights'
    BY ObjectsStayTyped, OthersStayOthers
  <1>3. \A p \in OwnPorts : p \in Sound'
    BY SoundKept
  <1> QED
    BY <1>1, <1>2, <1>3 DEF PortsInv, Sound

LEMMA PortsCorrect == Spec => []PortsInv
  BY InitPorts, PortsAreKept, PTL DEF Spec

\* What the objects, the table, the sources and the records say of a port agrees.
THEOREM ObjectsAgree == Spec => []ObjectsAgreeWithPorts
  <1>1. PortsInv => ObjectsAgreeWithPorts
    <2> SUFFICES ASSUME PortsInv PROVE ObjectsAgreeWithPorts
      OBVIOUS
    <2>0. /\ CountInv /\ ObjectsAreTyped /\ TableIsOfReadyObjects
          /\ \A p \in OwnPorts : p \in Sound
      BY SoundAre DEF PortsInv, CountInv
    <2>1. OwnersHaveRights
      <3> SUFFICES ASSUME NEW o \in Objects, mp[o].owns, mp[o].state \notin {"deallocating", "gone"}
                   PROVE  port[mp[o].port] = "rights"
        BY DEF OwnersHaveRights
      <3>1. mp[o].port \in OwnPorts
        BY <2>0 DEF ObjectsAreTyped
      <3> QED
        BY <2>0, <3>1, UserFacts DEF Uses
    <2>2. InvalidationIsExpected
      <3> SUFFICES ASSUME NEW o \in Objects, source[o] = "cancelled", mp[o].port \in OwnPorts
                   PROVE  records[mp[o].port] # None
        BY DEF InvalidationIsExpected
      <3> QED
        BY <2>0, UserFacts DEF Uses
    <2>3. SourcesAreCancelled
      <3> SUFFICES ASSUME NEW o \in Objects, mp[o].port \in OwnPorts,
                          mp[o].state \in {"invalid", "deallocating", "gone"}, source[o] = "active"
                   PROVE  FALSE
        BY DEF SourcesAreCancelled
      <3>1. mp[o].state = "ready"
        BY <2>0, UserFacts DEF Uses
      <3> QED
        BY <3>1
    <2> QED
      BY <2>0, <2>1, <2>2, <2>3 DEF ObjectsAgreeWithPorts
  <1> QED
    BY <1>1, PortsCorrect, PTL

----------------------------------------------------------------------------
(* When rights are given back, and objects deallocated. *)

\* No object of the port has a source that is not done with.
IsUnwatched(p) == \A o \in Objects : mp[o].port = p => source'[o] \notin {"active", "cancelled"}

\* The rights to the ports of others are never given back.
LEMMA OnlyOwnRights ==
  ASSUME PortsInv, [Next]_vars, NEW p \in Ports, port[p] = "rights", port'[p] = "none"
  PROVE  p \in OwnPorts
  <1>0. /\ CountInv /\ ObjectsAreTyped /\ OthersKeepTheirRights /\ CallsAreTyped
        /\ port \in [Ports -> {"none", "rights", "dead"}] /\ \A t \in Threads : t \in Actors
        /\ records \in [Ports -> Records]
    BY ActorsAre DEF PortsInv, CountInv, TypeOK
  <1> SUFFICES ASSUME p \in ExternalPorts PROVE FALSE
    BY DEF Ports
  <1>1. p \notin OwnPorts
    BY MachPortAssumption
  <1>2. ASSUME NEW t \in Threads, MakeFails(t) \/ Check(t) PROVE FALSE
    <2>1. port' = port \/ (at[t].create /\ port' = [port EXCEPT ![at[t].port] = "none"])
      BY <1>2 DEF MakeFails, Check, GivenBack
    <2>2. at[t].create => at[t].port # p
      BY <1>0, <1>1, <1>2 DEF MakeFails, Check, CallsAreTyped
    <2> QED
      BY <1>0, <2>1, <2>2
  <1>3. ASSUME NEW x \in Objects, Deallocate(x) PROVE FALSE
    <2>1. mp[x].owns => mp[x].port # p
      BY <1>0, <1>1 DEF ObjectsAreTyped
    <2> QED
      BY <1>0, <1>3, <2>1 DEF Deallocate, RecordDeallocation, GivenBack
  <1>4. ASSUME NEW x \in Objects, CancelHandler(x) PROVE FALSE
    <2>1. mp[x].port = p /\ records[p] # None /\ records[p].doRights
      BY <1>0, <1>4 DEF CancelHandler, SourceInvalidated, GivenBack, AwaitsInvalidation
    <2> QED
      BY <1>0, <2>1 DEF OthersKeepTheirRights
  <1>5. ASSUME NEW q \in Ports, NEW t \in Threads, Create(t, q) PROVE FALSE
    BY <1>0, <1>5 DEF Create
  <1>6. ASSUME NEW q \in Ports, PortDies(q) PROVE FALSE
    BY <1>0, <1>6 DEF PortDies
  <1>7. ASSUME UNCHANGED port PROVE FALSE
    BY <1>7
  <1>8. ASSUME NEW t \in Threads, Client(t) \/ Making(t) PROVE FALSE
    <2>1. \/ UNCHANGED port \/ MakeFails(t) \/ Check(t)
          \/ \E q \in Ports : Create(t, q)
      BY <1>8 DEF Client, Making, CreateWithPort, Invalidate, SetInvalidationCallBack, Release,
                  Find, Make, RecordIntent, MakeSource
    <2> QED
      BY <1>2, <1>5, <1>7, <2>1
  <1>9. ASSUME NEW a \in Actors, Finishing(a) PROVE FALSE
    BY <1>7, <1>9 DEF Finishing, Announce, Settle
  <1>10. ASSUME (\E x \in Objects : Checker(x)) \/ RunBlock \/ UNCHANGED vars PROVE FALSE
    BY <1>7, <1>10 DEF Checker, RunBlock, vars
  <1> QED
    BY <1>3, <1>4, <1>6, <1>8, <1>9, <1>10 DEF Next

LEMMA RightsGoBack ==
  ASSUME PortsInv, [Next]_vars, NEW p \in OwnPorts, port[p] = "rights", port'[p] = "none"
  PROVE  IsUnwatched(p)
  <1>0. /\ CountInv /\ p \in Sound /\ p \in Ports
        /\ port \in [Ports -> {"none", "rights", "dead"}]
    BY SoundAre DEF CountInv, TypeOK, Ports
  <1>1. p \in Sound'
    BY SoundKept
  <1>2. \A o \in Objects : ~Uses(mp'[o], source'[o], p)
    BY <1>0, <1>1, UsersAre DEF Sound, UsedOnce
  <1>3. \A o \in Objects : mp'[o].port = mp[o].port
    <2>1. ASSUME NEW t \in Threads, Client(t) \/ Making(t)
          PROVE  UNCHANGED port \/ UNCHANGED mp \/ Check(t)
      BY <2>1 DEF Client, Making, Create, CreateWithPort, Invalidate, SetInvalidationCallBack, Release,
                  Find, Make, MakeFails, RecordIntent, MakeSource
    <2>2. ASSUME NEW a \in Actors, Finishing(a) PROVE UNCHANGED port
      BY <2>2 DEF Finishing, Announce, Settle
    <2>3. ASSUME (\E x \in Objects : CancelHandler(x) \/ Checker(x)) \/ RunBlock
                   \/ (\E q \in Ports : PortDies(q)) \/ UNCHANGED vars
          PROVE  UNCHANGED port \/ UNCHANGED mp
      BY <2>3 DEF CancelHandler, Checker, RunBlock, PortDies, vars
    <2>4. ASSUME NEW t \in Threads, Check(t) PROVE \A o \in Objects : mp'[o].port = mp[o].port
      BY <1>0, <2>4, CheckEffect DEF LetGo
    <2>5. ASSUME NEW x \in Objects, Deallocate(x) PROVE \A o \in Objects : mp'[o].port = mp[o].port
      BY <1>0, <2>5, DeallocateEffect
    <2>6. port' # port
      OBVIOUS
    <2> QED
      BY <2>1, <2>2, <2>3, <2>4, <2>5, <2>6 DEF Next
  <1> QED
    BY <1>2, <1>3 DEF IsUnwatched, Uses

LEMMA DeallocatedInTime ==
  ASSUME CountInv, [Next]_vars, NEW o \in Objects,
         mp[o].state # "deallocating", mp'[o].state = "deallocating"
  PROVE  mp[o].state = "invalid" \/ \E a \in Actors : at[a].pc = "settle" /\ at[a].o = o
  <1>1. ASSUME NEW t \in Threads, Making(t) PROVE mp[o].state = "invalid"
    BY <1>1, FindEffect, MakeEffect, MakeSourceEffect, CheckEffect
       DEF Making, Alike, LetGo, MakeFails, RecordIntent
  <1>2. ASSUME NEW t \in Threads, Client(t) PROVE mp[o].state = "invalid"
    BY <1>2, InvalidateEffect, SetInvalidationCallBackEffect, ReleaseEffect
       DEF Client, LetGo, Create, CreateWithPort
  <1>3. ASSUME NEW a \in Actors, Announce(a) PROVE FALSE
    <2>1. Ends(at[a])
      BY <1>3 DEF Announce, Ends
    <2> QED
      BY <1>3, <2>1, EndsFacts, AnnounceEffect, AnnouncedIs
  <1>4. ASSUME NEW a \in Actors, Settle(a) PROVE at[a].pc = "settle" /\ at[a].o = o
    BY <1>4, SettleEffect DEF Settle
  <1>5. ASSUME NEW x \in Objects, Deallocate(x) PROVE FALSE
    BY <1>5, DeallocateEffect
  <1>6. ASSUME NEW x \in Objects, Checker(x) PROVE FALSE
    BY <1>6, CheckerEffect
  <1>7. ASSUME (\E x \in Objects : CancelHandler(x)) \/ RunBlock
                 \/ (\E q \in Ports : PortDies(q)) \/ UNCHANGED vars
        PROVE  FALSE
    BY <1>7 DEF CancelHandler, RunBlock, PortDies, vars
  <1> QED
    BY <1>1, <1>2, <1>3, <1>4, <1>5, <1>6, <1>7 DEF Next, Finishing

\* The rights to a port are given back only when no source watches it, nor waits
\* for its cancel handler, and an object is invalid before it is deallocated.
THEOREM RightsOutlive == Spec => RightsOutliveSources
  <1>1. PortsInv /\ [Next]_vars =>
          [/\ \A p \in Ports : (port[p] = "rights" /\ port'[p] = "none") =>
                \A o \in Objects : mp[o].port = p => source'[o] \notin {"active", "cancelled"}
           /\ \A o \in Objects :
                (mp[o].state # "deallocating" /\ mp'[o].state = "deallocating") =>
                  mp[o].state = "invalid" \/ \E a \in Actors : at[a].pc = "settle" /\ at[a].o = o]_vars
    <2> SUFFICES ASSUME PortsInv, [Next]_vars
                 PROVE  /\ \A p \in Ports : (port[p] = "rights" /\ port'[p] = "none") =>
                             IsUnwatched(p)
                        /\ \A o \in Objects :
                             (mp[o].state # "deallocating" /\ mp'[o].state = "deallocating") =>
                               \/ mp[o].state = "invalid"
                               \/ \E a \in Actors : at[a].pc = "settle" /\ at[a].o = o
      BY DEF IsUnwatched
    <2>1. CountInv
      BY SoundAre
    <2>2. \A p \in Ports : (port[p] = "rights" /\ port'[p] = "none") => IsUnwatched(p)
      BY OnlyOwnRights, RightsGoBack
    <2> QED
      BY <2>1, <2>2, DeallocatedInTime
  <1> QED
    BY <1>1, PortsCorrect, PTL DEF Spec, RightsOutliveSources

============================================================================
