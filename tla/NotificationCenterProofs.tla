----------------------- MODULE NotificationCenterProofs ---------------------
(* Theorems about NotificationCenter, for any threads, observers, records   *)
(* and any depth of nested posts: what is counted is counted exactly, and a *)
(* post reaches the observers it is for.                                    *)
EXTENDS NotificationCenter, FiniteSetTheorems, SequenceTheorems, WellFoundedInduction, TLAPS

----------------------------------------------------------------------------
(* Sequences and the members of a set in them. *)

\* Induction, over a set of numbers in place of a predicate.
LEMMA NatSetInduction ==
  ASSUME NEW N \in SUBSET Nat, 0 \in N, \A n \in N : n + 1 \in N
  PROVE  N = Nat
  <1> DEFINE R == OpToRel(<, Nat)
             Others == Nat \ N
  <1>w. IsWellFoundedOn(R, Nat)
    BY NatLessThanWellFounded, Zenon
  <1>o. R = {p \in Nat \X Nat : p[1] < p[2]}
    BY Zenon DEF OpToRel
  <1> HIDE DEF R
  <1>1. SUFFICES ASSUME Others # {} PROVE FALSE
    OBVIOUS
  <1>2. PICK k \in Others : \A j \in Others : ~(<<j, k>> \in R)
    <2>1. Others \subseteq Nat
      OBVIOUS
    <2> HIDE DEF Others
    <2> QED
      BY <1>w, <1>1, <2>1, WFMin, Zenon
  <1>3. k \in Nat /\ k # 0 /\ k \notin N
    BY <1>2
  <1>4. k - 1 \in Nat
    BY <1>3
  <1>5. k - 1 \notin Others
    <2>1. <<k - 1, k>> \in Nat \X Nat /\ <<k - 1, k>>[1] < <<k - 1, k>>[2]
      BY <1>3, <1>4
    <2>2. <<k - 1, k>> \in R
      BY <2>1, <1>o
    <2> QED
      BY <2>2, <1>2
  <1>6. k - 1 \in N /\ (k - 1) + 1 = k
    BY <1>3, <1>4, <1>5
  <1> QED
    BY <1>3, <1>6

\* One more member, and its place in what is kept.
OneMore(seq, S, kept, i) ==
  IF i = 0 THEN <<>>
  ELSE IF seq[i] \in S THEN Append(kept[i - 1], seq[i]) ELSE kept[i - 1]

LEMMA KeptDefined ==
  ASSUME NEW T, NEW seq \in Seq(T), NEW S
  PROVE  /\ Kept(seq, S)[0] = <<>>
         /\ \A i \in 1..Len(seq) :
              Kept(seq, S)[i] = IF seq[i] \in S THEN Append(Kept(seq, S)[i - 1], seq[i])
                                ELSE Kept(seq, S)[i - 1]
  <1> DEFINE N == {n \in Nat : \E g : g = [i \in 0..n |-> OneMore(seq, S, g, i)]}
  <1>1. 0 \in N
    <2> DEFINE g == [i \in 0..0 |-> <<>>]
    <2>1. g = [i \in 0..0 |-> OneMore(seq, S, g, i)]
      BY DEF OneMore
    <2> QED
      BY <2>1
  <1>2. ASSUME NEW n \in N PROVE n + 1 \in N
    <2>1. PICK g : g = [i \in 0..n |-> OneMore(seq, S, g, i)]
      OBVIOUS
    <2> DEFINE h == [i \in 0..(n + 1) |-> IF i \in 0..n THEN g[i] ELSE OneMore(seq, S, g, i)]
    <2>2. ASSUME NEW i \in 0..(n + 1) PROVE h[i] = OneMore(seq, S, h, i)
      <3>1. i = 0 \/ (i - 1 \in 0..n /\ i - 1 \in 0..(n + 1))
        OBVIOUS
      <3>2. OneMore(seq, S, h, i) = OneMore(seq, S, g, i)
        BY <3>1 DEF OneMore
      <3>3. i \in 0..n => g[i] = OneMore(seq, S, g, i)
        BY <2>1
      <3> QED
        BY <3>2, <3>3
    <2>3. h = [i \in 0..(n + 1) |-> h[i]]
      OBVIOUS
    <2> HIDE DEF h
    <2>4. h = [i \in 0..(n + 1) |-> OneMore(seq, S, h, i)]
      BY <2>2, <2>3
    <2> QED
      BY <2>4
  <1>3. Len(seq) \in N
    <2> HIDE DEF N
    <2>1. N \subseteq Nat
      BY DEF N
    <2>2. N = Nat
      BY <1>1, <1>2, <2>1, NatSetInduction
    <2> QED
      BY <2>2, LenProperties
  <1>4. Kept(seq, S) = CHOOSE g : g = [i \in 0..Len(seq) |-> OneMore(seq, S, g, i)]
    BY DEF Kept, OneMore
  <1>5. Kept(seq, S) = [i \in 0..Len(seq) |-> OneMore(seq, S, Kept(seq, S), i)]
    BY <1>3, <1>4
  <1>6. Len(seq) \in Nat
    BY LenProperties
  <1>7. ASSUME NEW i \in 0..Len(seq)
        PROVE  Kept(seq, S)[i] = OneMore(seq, S, Kept(seq, S), i)
    BY <1>5
  <1> QED
    BY <1>6, <1>7 DEF OneMore

LEMMA MembersOfSeq ==
  ASSUME NEW T, NEW seq \in Seq(T)
  PROVE  /\ ToSet(seq) = {seq[i] : i \in 1..Len(seq)}
         /\ ToSet(seq) \subseteq T
         /\ \A i \in 1..Len(seq) : seq[i] \in ToSet(seq)
  <1>1. DOMAIN seq = 1..Len(seq) /\ \A i \in 1..Len(seq) : seq[i] \in T
    BY LenProperties, ElementOfSeq
  <1> QED
    BY <1>1, Zenon DEF ToSet

LEMMA NoMembers == ToSet(<<>>) = {}
  <1>1. DOMAIN <<>> = {}
    OBVIOUS
  <1> QED
    BY <1>1, Zenon DEF ToSet

LEMMA MembersOfAppend ==
  ASSUME NEW T, NEW seq \in Seq(T), NEW x \in T
  PROVE  ToSet(Append(seq, x)) = ToSet(seq) \cup {x}
  <1> DEFINE more == Append(seq, x)
  <1>1. /\ Len(seq) \in Nat /\ more \in Seq(T) /\ Len(more) = Len(seq) + 1
        /\ \A i \in 1..Len(seq) : more[i] = seq[i]
        /\ more[Len(seq) + 1] = x
    OBVIOUS
  <1> HIDE DEF more
  <1>2. ToSet(more) = {more[i] : i \in 1..Len(more)}
    BY <1>1, MembersOfSeq
  <1>3. ToSet(seq) = {seq[i] : i \in 1..Len(seq)}
    BY MembersOfSeq
  <1> QED
    BY <1>1, <1>2, <1>3 DEF more

\* The first i members.
FirstOf(seq, i) == {seq[j] : j \in 1..i}

\* What is kept are the members of S there, in a sequence, each as often as there.
LEMMA KeptMembers ==
  ASSUME NEW T, NEW seq \in Seq(T), NEW S
  PROVE  \A i \in 0..Len(seq) :
           /\ Kept(seq, S)[i] \in Seq(T)
           /\ ToSet(Kept(seq, S)[i]) = FirstOf(seq, i) \cap S
  <1> DEFINE k == Kept(seq, S)
             N == {n \in Nat : n <= Len(seq) =>
                     k[n] \in Seq(T) /\ ToSet(k[n]) = FirstOf(seq, n) \cap S}
  <1>0. Len(seq) \in Nat /\ \A j \in 1..Len(seq) : seq[j] \in T
    BY LenProperties, ElementOfSeq
  <1>d. /\ k[0] = <<>>
        /\ \A i \in 1..Len(seq) :
             k[i] = IF seq[i] \in S THEN Append(k[i - 1], seq[i]) ELSE k[i - 1]
    BY KeptDefined
  <1> HIDE DEF k
  <1>1. 0 \in N
    <2>1. FirstOf(seq, 0) = {} /\ k[0] \in Seq(T)
      BY <1>d DEF FirstOf
    <2>2. ToSet(k[0]) = {}
      BY <1>d, NoMembers
    <2> QED
      BY <2>1, <2>2
  <1>2. ASSUME NEW n \in N PROVE n + 1 \in N
    <2>1. SUFFICES ASSUME n + 1 <= Len(seq)
                   PROVE  /\ k[n + 1] \in Seq(T)
                          /\ ToSet(k[n + 1]) = FirstOf(seq, n + 1) \cap S
      OBVIOUS
    <2>2. k[n] \in Seq(T) /\ ToSet(k[n]) = FirstOf(seq, n) \cap S
      BY <2>1, <1>0
    <2>3. n + 1 \in 1..Len(seq) /\ (n + 1) - 1 = n
      BY <2>1, <1>0
    <2>4. FirstOf(seq, n + 1) = FirstOf(seq, n) \cup {seq[n + 1]}
      <3>1. 1..(n + 1) = (1..n) \cup {n + 1}
        OBVIOUS
      <3> QED
        BY <3>1 DEF FirstOf
    <2>5. CASE seq[n + 1] \in S
      <3>1. k[n + 1] = Append(k[n], seq[n + 1])
        BY <2>3, <2>5, <1>d
      <3>2. ToSet(Append(k[n], seq[n + 1])) = ToSet(k[n]) \cup {seq[n + 1]}
        BY <2>2, <2>3, <1>0, MembersOfAppend
      <3> QED
        BY <2>2, <2>3, <2>4, <2>5, <3>1, <3>2, <1>0
    <2>6. CASE seq[n + 1] \notin S
      <3>1. k[n + 1] = k[n]
        BY <2>3, <2>6, <1>d
      <3> QED
        BY <2>2, <2>4, <2>6, <3>1
    <2> QED
      BY <2>5, <2>6
  <1>3. N = Nat
    <2>1. N \subseteq Nat
      OBVIOUS
    <2> HIDE DEF N
    <2> QED
      BY <1>1, <1>2, <2>1, NatSetInduction
  <1> QED
    BY <1>3, <1>0 DEF k

LEMMA WithinMembers ==
  ASSUME NEW T, NEW seq \in Seq(T), NEW S
  PROVE  Within(seq, S) \in Seq(T) /\ ToSet(Within(seq, S)) = ToSet(seq) \cap S
  <1>1. Len(seq) \in 0..Len(seq)
    BY LenProperties
  <1>2. /\ Kept(seq, S)[Len(seq)] \in Seq(T)
        /\ ToSet(Kept(seq, S)[Len(seq)]) = FirstOf(seq, Len(seq)) \cap S
    BY <1>1, KeptMembers
  <1> QED
    BY <1>2, MembersOfSeq DEF Within, FirstOf

\* Only the sets' members in the sequence matter.
LEMMA KeptSame ==
  ASSUME NEW T, NEW seq \in Seq(T), NEW S, NEW R,
         \A j \in 1..Len(seq) : seq[j] \in S <=> seq[j] \in R
  PROVE  \A i \in 0..Len(seq) : Kept(seq, S)[i] = Kept(seq, R)[i]
  <1> DEFINE k == Kept(seq, S)
             l == Kept(seq, R)
             N == {n \in Nat : n <= Len(seq) => k[n] = l[n]}
  <1>0. Len(seq) \in Nat
    BY LenProperties
  <1>d. /\ k[0] = <<>>
        /\ \A i \in 1..Len(seq) :
             k[i] = IF seq[i] \in S THEN Append(k[i - 1], seq[i]) ELSE k[i - 1]
    BY KeptDefined
  <1>e. /\ l[0] = <<>>
        /\ \A i \in 1..Len(seq) :
             l[i] = IF seq[i] \in R THEN Append(l[i - 1], seq[i]) ELSE l[i - 1]
    BY KeptDefined
  <1> HIDE DEF k, l
  <1>1. 0 \in N
    BY <1>d, <1>e
  <1>2. ASSUME NEW n \in N PROVE n + 1 \in N
    <2>1. SUFFICES ASSUME n + 1 <= Len(seq) PROVE k[n + 1] = l[n + 1]
      OBVIOUS
    <2>2. k[n] = l[n] /\ n + 1 \in 1..Len(seq) /\ (n + 1) - 1 = n
      BY <2>1, <1>0
    <2> QED
      BY <2>2, <1>d, <1>e
  <1>3. N = Nat
    <2>1. N \subseteq Nat
      OBVIOUS
    <2> HIDE DEF N
    <2> QED
      BY <1>1, <1>2, <2>1, NatSetInduction
  <1> QED
    BY <1>3, <1>0 DEF k, l

\* A member appended is kept if it is in S.
LEMMA KeptAppend ==
  ASSUME NEW T, NEW seq \in Seq(T), NEW S, NEW x \in T
  PROVE  /\ \A i \in 0..Len(seq) : Kept(Append(seq, x), S)[i] = Kept(seq, S)[i]
         /\ Within(Append(seq, x), S) =
              IF x \in S THEN Append(Within(seq, S), x) ELSE Within(seq, S)
  <1> DEFINE more == Append(seq, x)
             k == Kept(seq, S)
             l == Kept(more, S)
             N == {n \in Nat : n <= Len(seq) => l[n] = k[n]}
  <1>0. /\ Len(seq) \in Nat /\ more \in Seq(T) /\ Len(more) = Len(seq) + 1
        /\ \A i \in 1..Len(seq) : more[i] = seq[i]
        /\ more[Len(seq) + 1] = x
    OBVIOUS
  <1>d. /\ k[0] = <<>>
        /\ \A i \in 1..Len(seq) :
             k[i] = IF seq[i] \in S THEN Append(k[i - 1], seq[i]) ELSE k[i - 1]
    BY KeptDefined
  <1> HIDE DEF more
  <1>e. /\ l[0] = <<>>
        /\ \A i \in 1..Len(more) :
             l[i] = IF more[i] \in S THEN Append(l[i - 1], more[i]) ELSE l[i - 1]
    BY <1>0, KeptDefined
  <1> HIDE DEF k, l
  <1>1. 0 \in N
    BY <1>d, <1>e
  <1>2. ASSUME NEW n \in N PROVE n + 1 \in N
    <2>1. SUFFICES ASSUME n + 1 <= Len(seq) PROVE l[n + 1] = k[n + 1]
      OBVIOUS
    <2>2. l[n] = k[n] /\ n + 1 \in 1..Len(seq) /\ n + 1 \in 1..Len(more) /\ (n + 1) - 1 = n
      BY <2>1, <1>0
    <2> QED
      BY <2>2, <1>0, <1>d, <1>e
  <1>3. N = Nat
    <2>1. N \subseteq Nat
      OBVIOUS
    <2> HIDE DEF N
    <2> QED
      BY <1>1, <1>2, <2>1, NatSetInduction
  <1>4. \A i \in 0..Len(seq) : l[i] = k[i]
    BY <1>3, <1>0
  <1>5. l[Len(more)] = IF x \in S THEN Append(k[Len(seq)], x) ELSE k[Len(seq)]
    <2>1. Len(more) \in 1..Len(more) /\ Len(more) - 1 = Len(seq) /\ Len(seq) \in 0..Len(seq)
      BY <1>0
    <2> QED
      BY <2>1, <1>0, <1>e, <1>4
  <1> QED
    BY <1>4, <1>5 DEF k, l, more, Within

LEMMA WithinAppend ==
  ASSUME NEW T, NEW seq \in Seq(T), NEW S, NEW x \in T
  PROVE  Within(Append(seq, x), S) =
           IF x \in S THEN Append(Within(seq, S), x) ELSE Within(seq, S)
  BY KeptAppend

LEMMA WithinAppendIn ==
  ASSUME NEW T, NEW seq \in Seq(T), NEW S, NEW x \in T, x \in S
  PROVE  Within(Append(seq, x), S) = Append(Within(seq, S), x)
  BY WithinAppend

LEMMA WithinAppendOut ==
  ASSUME NEW T, NEW seq \in Seq(T), NEW S, NEW x \in T, x \notin S
  PROVE  Within(Append(seq, x), S) = Within(seq, S)
  BY WithinAppend

\* What is kept of what is kept.
Both(S, R) == S \cap R

LEMMA KeptTwice ==
  ASSUME NEW T, NEW seq \in Seq(T), NEW S, NEW R
  PROVE  \A i \in 0..Len(seq) : Within(Kept(seq, S)[i], R) = Kept(seq, Both(S, R))[i]
  <1> DEFINE k == Kept(seq, S)
             l == Kept(seq, Both(S, R))
             N == {n \in Nat : n <= Len(seq) => Within(k[n], R) = l[n]}
  <1>0. Len(seq) \in Nat /\ \A i \in 1..Len(seq) : seq[i] \in T
    BY LenProperties, ElementOfSeq
  <1>d. /\ k[0] = <<>>
        /\ \A i \in 1..Len(seq) :
             k[i] = IF seq[i] \in S THEN Append(k[i - 1], seq[i]) ELSE k[i - 1]
    BY KeptDefined
  <1>e. /\ l[0] = <<>>
        /\ \A i \in 1..Len(seq) :
             l[i] = IF seq[i] \in Both(S, R) THEN Append(l[i - 1], seq[i]) ELSE l[i - 1]
    BY KeptDefined
  <1>t. \A i \in 0..Len(seq) : k[i] \in Seq(T)
    BY KeptMembers
  <1> HIDE DEF k, l
  <1>1. 0 \in N
    <2>1. Within(<<>>, R) = <<>>
      <3>1. <<>> \in Seq(T) /\ Len(<<>>) = 0
        OBVIOUS
      <3>2. Kept(<<>>, R)[0] = <<>>
        BY <3>1, KeptDefined, ZenonT(30)
      <3> QED
        BY <3>1, <3>2 DEF Within
    <2> QED
      BY <2>1, <1>d, <1>e
  <1>2. ASSUME NEW n \in N PROVE n + 1 \in N
    <2>1. SUFFICES ASSUME n + 1 <= Len(seq) PROVE Within(k[n + 1], R) = l[n + 1]
      OBVIOUS
    <2>2. /\ Within(k[n], R) = l[n] /\ n + 1 \in 1..Len(seq) /\ (n + 1) - 1 = n
          /\ n \in 0..Len(seq)
      BY <2>1, <1>0
    <2>3. k[n] \in Seq(T) /\ seq[n + 1] \in T
      BY <2>2, <1>0, <1>t
    <2>4. \A s \in Seq(T), x \in T : Within(Append(s, x), R) =
            IF x \in R THEN Append(Within(s, R), x) ELSE Within(s, R)
      BY WithinAppend
    <2>5. k[n + 1] = IF seq[n + 1] \in S THEN Append(k[n], seq[n + 1]) ELSE k[n]
      BY <2>2, <1>d
    <2>6. l[n + 1] = IF seq[n + 1] \in Both(S, R) THEN Append(l[n], seq[n + 1]) ELSE l[n]
      BY <2>2, <1>e
    <2>7. CASE seq[n + 1] \in R
      <3>1. Within(Append(k[n], seq[n + 1]), R) = Append(Within(k[n], R), seq[n + 1])
        BY <2>3, <2>4, <2>7, Zenon
      <3> QED
        BY <2>2, <2>5, <2>6, <2>7, <3>1 DEF Both
    <2>8. CASE seq[n + 1] \notin R
      <3>1. Within(Append(k[n], seq[n + 1]), R) = Within(k[n], R)
        BY <2>3, <2>4, <2>8, Zenon
      <3> QED
        BY <2>2, <2>5, <2>6, <2>8, <3>1 DEF Both
    <2> QED
      BY <2>7, <2>8
  <1>3. N = Nat
    <2>1. N \subseteq Nat
      OBVIOUS
    <2> HIDE DEF N
    <2> QED
      BY <1>1, <1>2, <2>1, NatSetInduction
  <1>4. \A n \in N : n <= Len(seq) => Within(k[n], R) = l[n]
    BY Zenon DEF N
  <1> HIDE DEF N
  <1>5. \A i \in 0..Len(seq) : Within(k[i], R) = l[i]
    BY <1>3, <1>4, <1>0
  <1> QED
    BY <1>5, Zenon DEF k, l

\* No member twice.
Once(seq) == \A i, j \in 1..Len(seq) : seq[i] = seq[j] => i = j

LEMMA WithinOnce ==
  ASSUME NEW T, NEW seq \in Seq(T), NEW S, Once(seq)
  PROVE  Once(Within(seq, S))
  <1> DEFINE k == Kept(seq, S)
             N == {n \in Nat : n <= Len(seq) => Once(k[n])}
  <1>0. Len(seq) \in Nat /\ \A i \in 1..Len(seq) : seq[i] \in T
    BY LenProperties, ElementOfSeq
  <1>d. /\ k[0] = <<>>
        /\ \A i \in 1..Len(seq) :
             k[i] = IF seq[i] \in S THEN Append(k[i - 1], seq[i]) ELSE k[i - 1]
    BY KeptDefined
  <1>t. \A i \in 0..Len(seq) : k[i] \in Seq(T) /\ ToSet(k[i]) = FirstOf(seq, i) \cap S
    BY KeptMembers
  <1> HIDE DEF k
  <1>1. 0 \in N
    BY <1>d DEF Once
  <1>2. ASSUME NEW n \in N PROVE n + 1 \in N
    <2>1. SUFFICES ASSUME n + 1 <= Len(seq) PROVE Once(k[n + 1])
      OBVIOUS
    <2>2. /\ Once(k[n]) /\ n + 1 \in 1..Len(seq) /\ (n + 1) - 1 = n
          /\ n \in 0..Len(seq)
      BY <2>1, <1>0
    <2>3. k[n] \in Seq(T) /\ seq[n + 1] \in T
      BY <2>2, <1>0, <1>t
    <2>4. seq[n + 1] \notin ToSet(k[n])
      <3>1. \A j \in 1..n : seq[j] # seq[n + 1]
        BY <2>2, <1>0 DEF Once
      <3> QED
        BY <3>1, <2>2, <1>t DEF FirstOf
    <2>5. Once(Append(k[n], seq[n + 1]))
      BY <2>2, <2>3, <2>4 DEF Once, ToSet
    <2> QED
      BY <2>2, <2>5, <1>d
  <1>3. N = Nat
    <2>1. N \subseteq Nat
      OBVIOUS
    <2> HIDE DEF N
    <2> QED
      BY <1>1, <1>2, <2>1, NatSetInduction
  <1> QED
    BY <1>3, <1>0 DEF k, Within

\* A sequence without duplicates is as long as it has members.
LEMMA LenOfOnce ==
  ASSUME NEW T, NEW seq \in Seq(T), Once(seq)
  PROVE  IsFiniteSet(ToSet(seq)) /\ Cardinality(ToSet(seq)) = Len(seq)
  <1>1. Len(seq) \in Nat /\ seq \in [1..Len(seq) -> T] /\ DOMAIN seq = 1..Len(seq)
    BY LenProperties
  <1>2. IsFiniteSet(1..Len(seq)) /\ Cardinality(1..Len(seq)) = Len(seq)
    BY <1>1, FS_Interval
  <1>3. seq \in Bijection(1..Len(seq), ToSet(seq))
    BY <1>1 DEF Once, ToSet, Bijection, Injection, Surjection, IsInjective
  <1>4. ExistsBijection(1..Len(seq), ToSet(seq))
    BY <1>3, Zenon DEF ExistsBijection
  <1> QED
    BY <1>2, <1>4, FS_Bijection

----------------------------------------------------------------------------
(* What an action assigns to a record and to a post. *)

LEMMA RecordFields ==
  ASSUME NEW r \in Record
  PROVE  /\ r.observer \in Observers \cup {Null} /\ r.name \in Names \cup {Null}
         /\ r.object \in Objects \cup {Null} /\ r.callback \in BOOLEAN
         /\ r.retainCount \in Nat
  BY DEF Record

LEMMA RetainedRecord ==
  ASSUME NEW r \in Record
  PROVE  /\ Retained(r) \in Record
         /\ Retained(r).observer = r.observer /\ Retained(r).name = r.name
         /\ Retained(r).object = r.object /\ Retained(r).callback = r.callback
         /\ Retained(r).retainCount = r.retainCount + 1
  BY DEF Record, Retained

LEMMA ReleasedRecord ==
  ASSUME NEW r \in Record, r.retainCount > 0
  PROVE  LET s == [r EXCEPT !.retainCount = @ - 1]
         IN /\ s \in Record
            /\ s.observer = r.observer /\ s.name = r.name
            /\ s.object = r.object /\ s.callback = r.callback
            /\ s.retainCount = r.retainCount - 1
  BY DEF Record

LEMMA UnlinkedRecord ==
  ASSUME NEW r \in Record, r.retainCount > 0
  PROVE  /\ Unlinked(r) \in Record
         /\ Unlinked(r).observer = r.observer /\ Unlinked(r).name = r.name
         /\ Unlinked(r).object = r.object /\ Unlinked(r).callback = FALSE
         /\ Unlinked(r).retainCount = r.retainCount - 1
  <1> DEFINE q == [r EXCEPT !.callback = FALSE]
  <1>1. /\ q \in Record /\ q.retainCount = r.retainCount
        /\ q.observer = r.observer /\ q.name = r.name /\ q.object = r.object
        /\ q.callback = FALSE
    BY DEF Record
  <1>2. Unlinked(r) = [q EXCEPT !.retainCount = r.retainCount - 1]
    BY Zenon DEF Unlinked
  <1>3. r.retainCount - 1 \in Nat
    BY RecordFields
  <1> HIDE DEF q
  <1> QED
    BY <1>1, <1>2, <1>3 DEF Record

\* A post lets the record at hand go: pc "next", and the rest of what it matched.
Past(f) == [f EXCEPT !.pc = "next", !.matched = Rest(@)]

LEMMA PastFrame ==
  ASSUME NEW f \in Frame, f.matched # <<>>
  PROVE  /\ Past(f) \in Frame /\ Past(f).pc = "next"
         /\ Past(f).matched = Tail(f.matched)
         /\ Past(f).expected = f.expected /\ Past(f).called = f.called
  <1> DEFINE q == [f EXCEPT !.pc = "next"]
  <1>1. /\ q \in Frame /\ q.pc = "next" /\ q.matched = f.matched
        /\ q.expected = f.expected /\ q.called = f.called
    BY DEF Frame
  <1>2. Past(f) = [q EXCEPT !.matched = Tail(f.matched)]
    BY Zenon DEF Past, Rest
  <1>3. f.matched \in Seq(Cells)
    BY DEF Frame
  <1>4. Tail(f.matched) \in Seq(Cells)
    BY <1>3
  <1> HIDE DEF q
  <1> QED
    BY <1>1, <1>2, <1>4 DEF Frame

\* A post whose callback is called.
CalledNow(f, pc, c) == [f EXCEPT !.pc = pc, !.called = Append(@, c)]

LEMMA CalledFrame ==
  ASSUME NEW f \in Frame, NEW pc \in {"callback", "null"}, NEW c \in Cells
  PROVE  /\ CalledNow(f, pc, c) \in Frame /\ CalledNow(f, pc, c).pc = pc
         /\ CalledNow(f, pc, c).matched = f.matched
         /\ CalledNow(f, pc, c).expected = f.expected
         /\ CalledNow(f, pc, c).called = Append(f.called, c)
  <1> DEFINE q == [f EXCEPT !.pc = pc]
  <1>1. /\ q \in Frame /\ q.pc = pc /\ q.matched = f.matched
        /\ q.expected = f.expected /\ q.called = f.called
    BY DEF Frame
  <1>2. CalledNow(f, pc, c) = [q EXCEPT !.called = Append(f.called, c)]
    BY Zenon DEF CalledNow
  <1>3. f.called \in Seq(Cells)
    BY DEF Frame
  <1>4. Append(f.called, c) \in Seq(Cells)
    BY <1>3
  <1> HIDE DEF q
  <1> QED
    BY <1>1, <1>2, <1>4 DEF Frame

LEMMA UnlockedFrame ==
  ASSUME NEW f \in Frame
  PROVE  LET g == [f EXCEPT !.pc = "unlocked"]
         IN /\ g \in Frame /\ g.pc = "unlocked" /\ g.matched = f.matched
            /\ g.expected = f.expected /\ g.called = f.called
  BY DEF Frame

PostsTyped == posts \in [Threads -> Seq(Frame)]

\* The frame of a post in progress.
LEMMA FrameOfPost ==
  ASSUME PostsTyped, NEW t \in Threads
  PROVE  /\ posts[t] \in Seq(Frame) /\ Len(posts[t]) \in Nat
         /\ DOMAIN posts[t] = 1..Len(posts[t])
         /\ \A d \in 1..Len(posts[t]) : posts[t][d] \in Frame
         /\ posts[t] # <<>> => /\ Len(posts[t]) \in 1..Len(posts[t])
                               /\ Top(t) = posts[t][Len(posts[t])] /\ Top(t) \in Frame
  BY DEF PostsTyped, Top

\* The innermost post of t is assigned...
LEMMA SetTopEffect ==
  ASSUME PostsTyped, NEW t \in Threads, posts[t] # <<>>, NEW f \in Frame, SetTop(t, f)
  PROVE  /\ PostsTyped' /\ posts'[t] # <<>>
         /\ \A u \in Threads : Len(posts'[u]) = Len(posts[u])
         /\ \A u \in Threads, d \in Nat : u # t \/ d # Len(posts[t]) =>
              posts'[u][d] = posts[u][d]
         /\ posts'[t][Len(posts[t])] = f
         /\ \A u \in Threads : u # t => posts'[u] = posts[u]
  <1> DEFINE n == Len(posts[t])
             p == [posts[t] EXCEPT ![n] = f]
  <1>1. posts' = [posts EXCEPT ![t] = p]
    BY Zenon DEF SetTop
  <1>2. posts[t] \in Seq(Frame) /\ n \in Nat /\ n \in 1..n
    BY FrameOfPost
  <1>3. /\ p \in Seq(Frame) /\ Len(p) = n /\ p[n] = f
        /\ \A d \in Nat : d # n => p[d] = posts[t][d]
    BY <1>2
  <1>4. p # <<>>
    BY <1>2, <1>3
  <1>5. \A u \in Threads : posts'[u] = IF u = t THEN p ELSE posts[u]
    BY <1>1 DEF PostsTyped
  <1> HIDE DEF p
  <1>6. PostsTyped'
    BY <1>1, <1>3 DEF PostsTyped
  <1> QED
    BY <1>3, <1>4, <1>5, <1>6

\* ...begins...
LEMMA PushEffect ==
  ASSUME PostsTyped, NEW t \in Threads, NEW f \in Frame,
         posts' = [posts EXCEPT ![t] = Append(@, f)]
  PROVE  /\ PostsTyped' /\ posts'[t] # <<>>
         /\ Len(posts'[t]) = Len(posts[t]) + 1
         /\ posts'[t][Len(posts[t]) + 1] = f
         /\ \A d \in 1..Len(posts[t]) : posts'[t][d] = posts[t][d]
         /\ \A u \in Threads : u # t => posts'[u] = posts[u]
  <1> DEFINE p == Append(posts[t], f)
  <1>1. posts' = [posts EXCEPT ![t] = p]
    BY Zenon
  <1>2. posts[t] \in Seq(Frame) /\ Len(posts[t]) \in Nat
    BY FrameOfPost
  <1>3. /\ p \in Seq(Frame) /\ Len(p) = Len(posts[t]) + 1 /\ p[Len(posts[t]) + 1] = f
        /\ \A d \in 1..Len(posts[t]) : p[d] = posts[t][d]
    BY <1>2
  <1>4. p # <<>>
    <2>1. Len(p) # 0 /\ Len(<<>>) = 0
      BY <1>2, <1>3
    <2> QED
      BY <2>1
  <1>5. \A u \in Threads : posts'[u] = IF u = t THEN p ELSE posts[u]
    BY <1>1 DEF PostsTyped
  <1> HIDE DEF p
  <1>6. PostsTyped'
    BY <1>1, <1>3 DEF PostsTyped
  <1> QED
    BY <1>3, <1>4, <1>5, <1>6

\* ...and ends.
LEMMA PopEffect ==
  ASSUME PostsTyped, NEW t \in Threads, posts[t] # <<>>,
         posts' = [posts EXCEPT ![t] = Front(@)]
  PROVE  /\ PostsTyped' /\ Len(posts'[t]) = Len(posts[t]) - 1
         /\ \A d \in 1..(Len(posts[t]) - 1) : posts'[t][d] = posts[t][d]
         /\ \A u \in Threads : u # t => posts'[u] = posts[u]
  <1> DEFINE n == Len(posts[t])
             p == SubSeq(posts[t], 1, n - 1)
  <1>1. posts' = [posts EXCEPT ![t] = p]
    BY Zenon DEF Front
  <1>2. posts[t] \in Seq(Frame) /\ n \in Nat /\ n \in 1..n
    BY FrameOfPost
  <1>3. /\ p \in Seq(Frame) /\ Len(p) = n - 1
        /\ \A d \in 1..(n - 1) : p[d] = posts[t][d]
    BY <1>2
  <1>5. \A u \in Threads : posts'[u] = IF u = t THEN p ELSE posts[u]
    BY <1>1 DEF PostsTyped
  <1> HIDE DEF p
  <1>6. PostsTyped'
    BY <1>1, <1>3 DEF PostsTyped
  <1> QED
    BY <1>3, <1>5, <1>6

----------------------------------------------------------------------------
(* The frames of posts: what a post has still to call is the rest of what   *)
(* it has matched, and only the innermost is not in a callback.             *)

FrameOK(f) ==
  /\ f.pc # "next" => f.matched # <<>>
  /\ Once(f.matched)
  /\ Len(f.matched) <= Len(f.expected)
  /\ \A i \in 1..Len(f.matched) :
       f.matched[i] = f.expected[Len(f.expected) - Len(f.matched) + i]
  /\ ToSet(f.called) \subseteq ToSet(f.expected)

FramesOK ==
  \A t \in Threads :
    /\ Len(posts[t]) <= MaxDepth
    /\ \A d \in 1..Len(posts[t]) :
         FrameOK(posts[t][d]) /\ (d < Len(posts[t]) => posts[t][d].pc = "callback")

LEMMA FramesOKUnchanged ==
  ASSUME FramesOK, UNCHANGED posts
  PROVE  FramesOK'
  BY DEF FramesOK

LEMMA FramesOKSetTop ==
  ASSUME PostsTyped, FramesOK, NEW t \in Threads, posts[t] # <<>>,
         NEW f \in Frame, FrameOK(f), SetTop(t, f)
  PROVE  FramesOK'
  <1>1. /\ \A u \in Threads : Len(posts'[u]) = Len(posts[u])
        /\ \A u \in Threads, d \in Nat : u # t \/ d # Len(posts[t]) =>
             posts'[u][d] = posts[u][d]
        /\ posts'[t][Len(posts[t])] = f
    BY SetTopEffect
  <1>2. \A u \in Threads : Len(posts[u]) \in Nat
    BY FrameOfPost
  <1>3. ASSUME NEW u \in Threads, NEW d \in 1..Len(posts'[u])
        PROVE  FrameOK(posts'[u][d]) /\ (d < Len(posts'[u]) => posts'[u][d].pc = "callback")
    <2>1. d \in Nat /\ d \in 1..Len(posts[u]) /\ Len(posts'[u]) = Len(posts[u])
      BY <1>1, <1>2
    <2>2. CASE u # t \/ d # Len(posts[t])
      <3>1. posts'[u][d] = posts[u][d]
        BY <1>1, <2>1, <2>2
      <3> QED
        BY <3>1, <2>1 DEF FramesOK
    <2>3. CASE u = t /\ d = Len(posts[t])
      BY <1>1, <2>1, <2>3
    <2> QED
      BY <2>2, <2>3
  <1>4. \A u \in Threads : Len(posts'[u]) <= MaxDepth
    BY <1>1 DEF FramesOK
  <1> QED
    BY <1>3, <1>4 DEF FramesOK

LEMMA FramesOKPush ==
  ASSUME PostsTyped, FramesOK, NEW t \in Threads, NEW f \in Frame, FrameOK(f),
         InClientCode(t), Len(posts[t]) < MaxDepth,
         posts' = [posts EXCEPT ![t] = Append(@, f)]
  PROVE  FramesOK'
  <1>1. /\ Len(posts'[t]) = Len(posts[t]) + 1
        /\ posts'[t][Len(posts[t]) + 1] = f
        /\ \A d \in 1..Len(posts[t]) : posts'[t][d] = posts[t][d]
        /\ \A u \in Threads : u # t => posts'[u] = posts[u]
    BY PushEffect
  <1>2. Len(posts[t]) \in Nat
    BY FrameOfPost
  <1>3. posts[t] # <<>> => Top(t) = posts[t][Len(posts[t])] /\ Top(t).pc = "callback"
    BY FrameOfPost DEF InClientCode, At
  <1>4. \A d \in 1..Len(posts[t]) : posts[t][d].pc = "callback"
    BY <1>2, <1>3 DEF FramesOK
  <1>5. ASSUME NEW d \in 1..Len(posts'[t])
        PROVE  FrameOK(posts'[t][d]) /\ (d < Len(posts'[t]) => posts'[t][d].pc = "callback")
    <2>1. d \in 1..Len(posts[t]) \/ d = Len(posts[t]) + 1
      BY <1>1, <1>2
    <2>2. CASE d \in 1..Len(posts[t])
      BY <1>1, <1>4, <2>2 DEF FramesOK
    <2>3. CASE d = Len(posts[t]) + 1
      BY <1>1, <1>2, <2>3
    <2> QED
      BY <2>1, <2>2, <2>3
  <1>6. ASSUME NEW u \in Threads, u # t
        PROVE  /\ Len(posts'[u]) <= MaxDepth
               /\ \A d \in 1..Len(posts'[u]) :
                    FrameOK(posts'[u][d]) /\ (d < Len(posts'[u]) => posts'[u][d].pc = "callback")
    <2>1. posts'[u] = posts[u]
      BY <1>1, <1>6
    <2> QED
      BY <2>1 DEF FramesOK
  <1>7. Len(posts'[t]) <= MaxDepth
    BY <1>1, <1>2, CenterAssumption
  <1> QED
    BY <1>5, <1>6, <1>7 DEF FramesOK

LEMMA FramesOKPop ==
  ASSUME PostsTyped, FramesOK, NEW t \in Threads, posts[t] # <<>>,
         posts' = [posts EXCEPT ![t] = Front(@)]
  PROVE  FramesOK'
  <1>1. /\ Len(posts'[t]) = Len(posts[t]) - 1
        /\ \A d \in 1..(Len(posts[t]) - 1) : posts'[t][d] = posts[t][d]
        /\ \A u \in Threads : u # t => posts'[u] = posts[u]
    BY PopEffect
  <1>2. Len(posts[t]) \in Nat
    BY FrameOfPost
  <1>5. ASSUME NEW d \in 1..Len(posts'[t])
        PROVE  FrameOK(posts'[t][d]) /\ (d < Len(posts'[t]) => posts'[t][d].pc = "callback")
    <2>1. d \in 1..Len(posts[t]) /\ d < Len(posts[t]) /\ posts'[t][d] = posts[t][d]
      BY <1>1, <1>2
    <2> QED
      BY <2>1 DEF FramesOK
  <1>6. ASSUME NEW u \in Threads, u # t
        PROVE  /\ Len(posts'[u]) <= MaxDepth
               /\ \A d \in 1..Len(posts'[u]) :
                    FrameOK(posts'[u][d]) /\ (d < Len(posts'[u]) => posts'[u][d].pc = "callback")
    <2>1. posts'[u] = posts[u]
      BY <1>1, <1>6
    <2> QED
      BY <2>1 DEF FramesOK
  <1>7. Len(posts'[t]) <= MaxDepth
    BY <1>1, <1>2, CenterAssumption DEF FramesOK
  <1> QED
    BY <1>5, <1>6, <1>7 DEF FramesOK

\* The record at hand is the first of what is left to call.
LEMMA AtHand ==
  ASSUME NEW f \in Frame, FrameOK(f), f.matched # <<>>
  PROVE  /\ Head(f.matched) \in Cells /\ Head(f.matched) \in ToSet(f.matched)
         /\ f.matched \in Seq(Cells) /\ Len(f.matched) \in Nat \ {0}
         /\ Head(f.matched) = f.expected[Len(f.expected) - Len(f.matched) + 1]
         /\ f.expected \in Seq(Cells) /\ Len(f.expected) \in Nat
         /\ Len(f.expected) - Len(f.matched) + 1 \in 1..Len(f.expected)
         /\ Head(f.matched) \in ToSet(f.expected)
  <1>1. f.matched \in Seq(Cells) /\ f.expected \in Seq(Cells)
    BY DEF Frame
  <1>2. Len(f.matched) \in Nat \ {0} /\ Len(f.expected) \in Nat
    BY <1>1, EmptySeq
  <1>3. Head(f.matched) = f.matched[1] /\ 1 \in 1..Len(f.matched)
    BY <1>1, <1>2
  <1>4. /\ Len(f.matched) <= Len(f.expected)
        /\ f.matched[1] = f.expected[Len(f.expected) - Len(f.matched) + 1]
    BY <1>3 DEF FrameOK
  <1>5. Len(f.expected) - Len(f.matched) + 1 \in 1..Len(f.expected)
    <2>1. \A m, e \in Nat : m # 0 /\ m <= e => e - m + 1 \in 1..e
      OBVIOUS
    <2> QED
      BY <1>2, <1>4, <2>1
  <1>6. f.matched[1] \in Cells /\ f.matched[1] \in ToSet(f.matched)
    BY <1>1, <1>3, ElementOfSeq, MembersOfSeq
  <1>7. f.expected[Len(f.expected) - Len(f.matched) + 1] \in ToSet(f.expected)
    BY <1>1, <1>5, MembersOfSeq
  <1> QED
    BY <1>1, <1>2, <1>3, <1>4, <1>5, <1>6, <1>7

LEMMA PastFrameOK ==
  ASSUME NEW f \in Frame, FrameOK(f), f.matched # <<>>
  PROVE  FrameOK(Past(f))
  <1> DEFINE m == f.matched
             r == Past(f).matched
             e == f.expected
  <1>1. /\ Past(f).pc = "next" /\ r = Tail(m) /\ Past(f).expected = e
        /\ Past(f).called = f.called
    BY PastFrame
  <1>2. m \in Seq(Cells) /\ Len(m) \in Nat \ {0} /\ Len(e) \in Nat
    BY AtHand
  <1>3. /\ Once(m) /\ Len(m) <= Len(e)
        /\ \A i \in 1..Len(m) : m[i] = e[Len(e) - Len(m) + i]
        /\ ToSet(f.called) \subseteq ToSet(e)
    BY DEF FrameOK
  <1>4. /\ r \in Seq(Cells) /\ Len(r) = Len(m) - 1
        /\ \A i \in 1..Len(r) : r[i] = m[i + 1] /\ i + 1 \in 1..Len(m)
    BY <1>1, <1>2
  <1> HIDE DEF m, r, e
  <1>5. Once(r)
    BY <1>2, <1>3, <1>4 DEF Once
  <1>6. \A i \in 1..Len(r) : r[i] = e[Len(e) - Len(r) + i]
    <2> TAKE i \in 1..Len(r)
    <2>1. r[i] = e[Len(e) - Len(m) + (i + 1)]
      BY <1>3, <1>4
    <2>2. Len(e) - Len(m) + (i + 1) = Len(e) - Len(r) + i
      BY <1>2, <1>4
    <2> QED
      BY <2>1, <2>2
  <1>7. Len(r) <= Len(e)
    BY <1>2, <1>3, <1>4
  <1> QED
    BY <1>1, <1>3, <1>5, <1>6, <1>7 DEF FrameOK, r, e

\* The members of the rest are those of the whole but the first.
LEMMA MembersOfRest ==
  ASSUME NEW m \in Seq(Cells), m # <<>>, Once(m)
  PROVE  ToSet(Tail(m)) = ToSet(m) \ {Head(m)}
  <1>1. Len(m) \in Nat \ {0}
    BY EmptySeq
  <1>2. /\ Tail(m) \in Seq(Cells) /\ Len(Tail(m)) = Len(m) - 1 /\ Head(m) = m[1]
        /\ \A i \in 1..(Len(m) - 1) : Tail(m)[i] = m[i + 1]
    BY <1>1
  <1>3. ToSet(m) = {m[i] : i \in 1..Len(m)}
    BY MembersOfSeq
  <1>4. ToSet(Tail(m)) = {Tail(m)[i] : i \in 1..(Len(m) - 1)}
    BY <1>2, MembersOfSeq
  <1>5. ASSUME NEW x \in ToSet(Tail(m)) PROVE x \in ToSet(m) \ {Head(m)}
    <2>1. PICK i \in 1..(Len(m) - 1) : x = m[i + 1]
      BY <1>2, <1>4
    <2>2. i + 1 \in 1..Len(m) /\ 1 \in 1..Len(m) /\ i + 1 # 1
      BY <1>1
    <2>3. m[i + 1] # m[1]
      BY <2>2 DEF Once
    <2> QED
      BY <1>2, <1>3, <2>1, <2>2, <2>3
  <1>6. ASSUME NEW x \in ToSet(m) \ {Head(m)} PROVE x \in ToSet(Tail(m))
    <2>1. PICK i \in 1..Len(m) : x = m[i]
      BY <1>3
    <2>2. i # 1
      BY <1>2, <2>1
    <2>3. i - 1 \in 1..(Len(m) - 1) /\ (i - 1) + 1 = i
      BY <1>1, <2>2
    <2>4. Tail(m)[i - 1] = x
      BY <1>2, <2>1, <2>3
    <2> QED
      BY <1>4, <2>3, <2>4
  <1> QED
    BY <1>5, <1>6

----------------------------------------------------------------------------
(* What each action does. *)

\* No record changes what it is of, and none is called back anew.
SameRecords ==
  \A c \in Cells :
    /\ cell'[c].observer = cell[c].observer
    /\ cell'[c].name = cell[c].name /\ cell'[c].object = cell[c].object
    /\ cell'[c].callback => cell[c].callback

\* The records of the list are all different and in use, and whoever may be
\* called is in it.
ListOK ==
  /\ Once(list)
  /\ \A c \in ToSet(list) : cell[c].observer # Null
  /\ \A c \in Cells : cell[c].callback => c \in ToSet(list)

CellsTyped == cell \in [Cells -> Record]

LEMMA ReleaseEffect ==
  ASSUME CellsTyped, PostsTyped, FramesOK, Sound, NEW t \in Threads,
         posts[t] # <<>>, Top(t).matched # <<>>, Release(t, Head(Top(t).matched))
  PROVE  LET c == Head(Top(t).matched)
         IN /\ c \in Cells /\ CellsTyped' /\ SameRecords
            /\ \A e \in Cells : cell'[e].callback = cell[e].callback
            /\ \A e \in Cells : cell'[e].retainCount =
                 IF e = c THEN cell[c].retainCount - 1 ELSE cell[e].retainCount
            /\ Top(t) \in Frame /\ FrameOK(Top(t))
            /\ Past(Top(t)) \in Frame /\ SetTop(t, Past(Top(t))) /\ FramesOK'
  <1> DEFINE f == Top(t)
             c == Head(f.matched)
             r == [cell[c] EXCEPT !.retainCount = @ - 1]
  <1>1. /\ f \in Frame /\ f = posts[t][Len(posts[t])]
        /\ Len(posts[t]) \in 1..Len(posts[t]) /\ Len(posts[t]) \in DOMAIN posts[t]
    BY FrameOfPost
  <1>2. FrameOK(f)
    BY <1>1 DEF FramesOK
  <1>3. c \in Cells /\ c \in ToSet(f.matched)
    BY <1>1, <1>2, AtHand
  <1>4. cell[c].retainCount > 0
    BY <1>1, <1>3 DEF Sound
  <1>5. cell[c] \in Record /\ \A e \in Cells : cell[e] \in Record
    BY <1>3 DEF CellsTyped
  <1>6. /\ r \in Record
        /\ r.observer = cell[c].observer /\ r.name = cell[c].name
        /\ r.object = cell[c].object /\ r.callback = cell[c].callback
        /\ r.retainCount = cell[c].retainCount - 1
    BY <1>4, <1>5, ReleasedRecord
  <1>7. cell' = [cell EXCEPT ![c] = r]
    BY Zenon DEF Release
  <1>8. SetTop(t, Past(f))
    BY Zenon DEF Release, Past
  <1>9. Past(f) \in Frame /\ FrameOK(Past(f))
    BY <1>1, <1>2, PastFrame, PastFrameOK
  <1>10. FramesOK'
    BY <1>8, <1>9, FramesOKSetTop
  <1> HIDE DEF f, c, r
  <1>11. \A e \in Cells : cell'[e] = IF e = c THEN r ELSE cell[e]
    BY <1>7 DEF CellsTyped
  <1>12. CellsTyped'
    BY <1>6, <1>7 DEF CellsTyped
  <1>13. SameRecords /\ \A e \in Cells : cell'[e].callback = cell[e].callback
    BY <1>6, <1>11 DEF SameRecords
  <1>14. \A e \in Cells : cell'[e].retainCount =
           IF e = c THEN cell[c].retainCount - 1 ELSE cell[e].retainCount
    BY <1>6, <1>11
  <1> QED
    BY <1>1, <1>2, <1>3, <1>8, <1>9, <1>10, <1>12, <1>13, <1>14 DEF f, c

LEMMA DeliverEffect ==
  ASSUME PostsTyped, FramesOK, NEW t \in Threads, Deliver(t)
  PROVE  /\ posts[t] # <<>> /\ Top(t).matched # <<>> /\ Top(t) \in Frame /\ FrameOK(Top(t))
         /\ LET f == [Top(t) EXCEPT !.pc = "unlocked"]
            IN /\ f \in Frame /\ f.pc = "unlocked" /\ f.matched = Top(t).matched
               /\ f.expected = Top(t).expected /\ f.called = Top(t).called
               /\ SetTop(t, f)
         /\ FramesOK'
  <1> DEFINE f == [Top(t) EXCEPT !.pc = "unlocked"]
  <1>1. posts[t] # <<>> /\ Top(t).matched # <<>> /\ SetTop(t, f)
    BY Zenon DEF Deliver, At
  <1>2. Top(t) \in Frame /\ FrameOK(Top(t))
    BY <1>1, FrameOfPost DEF FramesOK
  <1>3. /\ f \in Frame /\ f.pc = "unlocked" /\ f.matched = Top(t).matched
        /\ f.expected = Top(t).expected /\ f.called = Top(t).called
    BY <1>2, UnlockedFrame
  <1> HIDE DEF f
  <1>4. FrameOK(f)
    BY <1>1, <1>2, <1>3 DEF FrameOK
  <1>5. FramesOK'
    BY <1>1, <1>3, <1>4, FramesOKSetTop
  <1> QED
    BY <1>1, <1>2, <1>3, <1>5 DEF f

LEMMA CallBackEffect ==
  ASSUME PostsTyped, FramesOK, NEW t \in Threads, CallBack(t)
  PROVE  /\ posts[t] # <<>> /\ Top(t).pc = "unlocked" /\ Top(t).matched # <<>>
         /\ Top(t) \in Frame /\ FrameOK(Top(t)) /\ Head(Top(t).matched) \in Cells
         /\ \E pc \in {"callback", "null"} :
              LET f == CalledNow(Top(t), pc, Head(Top(t).matched))
              IN /\ f \in Frame /\ f.pc = pc /\ f.matched = Top(t).matched
                 /\ f.expected = Top(t).expected
                 /\ f.called = Append(Top(t).called, Head(Top(t).matched))
                 /\ SetTop(t, f)
         /\ FramesOK'
  <1> DEFINE c == Head(Top(t).matched)
             pc == IF cell[c].callback THEN "callback" ELSE "null"
             f == CalledNow(Top(t), pc, c)
  <1>1. posts[t] # <<>> /\ Top(t).pc = "unlocked" /\ SetTop(t, f)
    BY Zenon DEF CallBack, At, CalledNow
  <1>2. Top(t) \in Frame /\ FrameOK(Top(t))
    BY <1>1, FrameOfPost DEF FramesOK
  <1>3. Top(t).matched # <<>>
    BY <1>1, <1>2 DEF FrameOK
  <1>4. c \in Cells /\ c \in ToSet(Top(t).expected)
    BY <1>2, <1>3, AtHand
  <1>5. pc \in {"callback", "null"}
    OBVIOUS
  <1> HIDE DEF c, pc
  <1>6. /\ f \in Frame /\ f.pc = pc /\ f.matched = Top(t).matched
        /\ f.expected = Top(t).expected /\ f.called = Append(Top(t).called, c)
    BY <1>2, <1>4, <1>5, CalledFrame
  <1>7. Top(t).called \in Seq(Cells)
    BY <1>2 DEF Frame
  <1>8. ToSet(f.called) = ToSet(Top(t).called) \cup {c}
    BY <1>4, <1>6, <1>7, MembersOfAppend
  <1> HIDE DEF f
  <1>9. FrameOK(f)
    BY <1>2, <1>3, <1>4, <1>6, <1>8 DEF FrameOK
  <1>10. FramesOK'
    BY <1>1, <1>6, <1>9, FramesOKSetTop
  <1> QED
    BY <1>1, <1>2, <1>3, <1>4, <1>5, <1>6, <1>10 DEF c, f

LEMMA PostEffect ==
  ASSUME CellsTyped, PostsTyped, FramesOK, ListOK, list \in Seq(Cells),
         NEW t \in Threads, NEW s, Post(t, s)
  PROVE  \E m \in Seq(Cells) :
           LET f == [matched |-> m, pc |-> "next", expected |-> m, called |-> <<>>]
           IN /\ InClientCode(t) /\ Len(posts[t]) < MaxDepth
              /\ ToSet(m) \subseteq ToSet(list) /\ Once(m)
              /\ f \in Frame /\ posts' = [posts EXCEPT ![t] = Append(@, f)] /\ FramesOK'
              /\ CellsTyped' /\ SameRecords
              /\ \A e \in Cells : cell'[e].callback = cell[e].callback
              /\ \A e \in Cells : cell'[e].retainCount =
                   IF e \in ToSet(m) THEN cell[e].retainCount + 1 ELSE cell[e].retainCount
              /\ lock' = t /\ UNCHANGED <<list, observersCount, table>>
  <1> DEFINE m == Within(list, {c \in Cells : Matches(c, s)})
             f == [matched |-> m, pc |-> "next", expected |-> m, called |-> <<>>]
  <1>1. /\ InClientCode(t) /\ Len(posts[t]) < MaxDepth
        /\ cell' = [c \in Cells |-> IF c \in ToSet(m) THEN Retained(cell[c]) ELSE cell[c]]
        /\ posts' = [posts EXCEPT ![t] = Append(@, f)]
        /\ lock' = t /\ UNCHANGED <<list, observersCount, table>>
    BY Zenon DEF Post
  <1>2. m \in Seq(Cells) /\ ToSet(m) \subseteq ToSet(list) /\ Once(m)
    BY WithinMembers, WithinOnce DEF ListOK
  <1> HIDE DEF m
  <1>3. <<>> \in Seq(Cells) /\ f \in Frame
    BY <1>2 DEF Frame
  <1>4. FrameOK(f)
    BY <1>2, NoMembers, LenProperties DEF FrameOK
  <1>5. FramesOK'
    BY <1>1, <1>3, <1>4, FramesOKPush
  <1>6. \A e \in Cells :
          /\ cell'[e] \in Record
          /\ cell'[e].observer = cell[e].observer /\ cell'[e].name = cell[e].name
          /\ cell'[e].object = cell[e].object /\ cell'[e].callback = cell[e].callback
          /\ cell'[e].retainCount =
               IF e \in ToSet(m) THEN cell[e].retainCount + 1 ELSE cell[e].retainCount
    <2> TAKE e \in Cells
    <2>1. cell'[e] = IF e \in ToSet(m) THEN Retained(cell[e]) ELSE cell[e]
      BY <1>1
    <2>2. cell[e] \in Record
      BY DEF CellsTyped
    <2> QED
      BY <2>1, <2>2, RetainedRecord
  <1>7. CellsTyped' /\ SameRecords
    <2>1. DOMAIN cell' = Cells /\ cell' = [e \in Cells |-> cell'[e]]
      BY <1>1
    <2> QED
      BY <2>1, <1>6 DEF CellsTyped, SameRecords
  <1> QED
    BY <1>1, <1>2, <1>3, <1>5, <1>6, <1>7

LEMMA AddObserverEffect ==
  ASSUME CellsTyped, ListOK, list \in Seq(Cells), NEW t \in Threads, NEW c \in Cells,
         NEW o \in Observers, NEW s \in Added, AddObserver(t, c, o, s)
  PROVE  /\ cell[c].observer = Null /\ cell[c].callback = FALSE /\ cell[c].retainCount = 0
         /\ CellsTyped' /\ \A e \in Cells : e # c => cell'[e] = cell[e]
         /\ cell'[c].observer = o /\ cell'[c].name = s[1] /\ cell'[c].object = s[2]
         /\ cell'[c].callback = TRUE /\ cell'[c].retainCount = 1
         /\ c \notin ToSet(list) /\ list' \in Seq(Cells)
         /\ ToSet(list') = ToSet(list) \cup {c} /\ Len(list') = Len(list) + 1
         /\ ListOK'
         /\ observersCount' = observersCount + 1
         /\ AddNotification(s[1], s[2]) /\ UNCHANGED <<lock, posts>>
  <1> DEFINE r == [observer |-> o, name |-> s[1], object |-> s[2], callback |-> TRUE,
                   retainCount |-> 1]
  <1>1. /\ cell[c] = Free /\ cell' = [cell EXCEPT ![c] = r] /\ list' = Append(list, c)
        /\ observersCount' = observersCount + 1
        /\ AddNotification(s[1], s[2]) /\ UNCHANGED <<lock, posts>>
    BY Zenon DEF AddObserver
  <1>2. cell[c].observer = Null /\ cell[c].callback = FALSE /\ cell[c].retainCount = 0
    BY <1>1 DEF Free
  <1>3. s[1] \in Names /\ s[2] \in Objects
    BY DEF Names, Objects
  <1>4. /\ r \in Record /\ r.observer = o /\ r.name = s[1] /\ r.object = s[2]
        /\ r.callback = TRUE /\ r.retainCount = 1
    BY <1>3 DEF Record
  <1> HIDE DEF r
  <1>5. \A e \in Cells : cell'[e] = IF e = c THEN r ELSE cell[e]
    BY <1>1 DEF CellsTyped
  <1>6. CellsTyped'
    BY <1>1, <1>4 DEF CellsTyped
  <1>7. c \notin ToSet(list)
    BY <1>2 DEF ListOK
  <1>8. ToSet(list') = ToSet(list) \cup {c}
    BY <1>1, MembersOfAppend
  <1>9. list' \in Seq(Cells) /\ Len(list') = Len(list) + 1
    BY <1>1
  <1>10. Once(list')
    <2>1. \A i \in 1..Len(list) : list[i] \in ToSet(list)
      BY MembersOfSeq
    <2>2. \A i \in 1..Len(list) : list[i] # c
      BY <1>7, <2>1
    <2>3. /\ Len(list) \in Nat /\ Len(list') = Len(list) + 1
          /\ \A i \in 1..Len(list) : list'[i] = list[i]
          /\ list'[Len(list) + 1] = c
      BY <1>1, LenProperties
    <2>4. \A i, j \in 1..Len(list) : list[i] = list[j] => i = j
      BY DEF ListOK, Once
    <2> QED
      BY <2>2, <2>3, <2>4 DEF Once
  <1>11. ListOK'
    <2>1. o # Null
      BY CenterAssumption
    <2>2. \A e \in ToSet(list') : cell'[e].observer # Null
      <3>1. ToSet(list) \subseteq Cells
        BY MembersOfSeq
      <3> QED
        BY <1>4, <1>5, <1>8, <2>1, <3>1 DEF ListOK
    <2>3. \A e \in Cells : cell'[e].callback => e \in ToSet(list')
      BY <1>5, <1>8 DEF ListOK
    <2> QED
      BY <1>10, <2>2, <2>3 DEF ListOK
  <1> QED
    BY <1>1, <1>2, <1>4, <1>5, <1>6, <1>7, <1>8, <1>9, <1>11

\* Of what is unlinked, every record loses the list's reference, and its callback.
Unlinking(gone) ==
  \A e \in Cells :
    /\ cell'[e] \in Record
    /\ cell'[e].observer = cell[e].observer
    /\ cell'[e].name = cell[e].name /\ cell'[e].object = cell[e].object
    /\ cell'[e].callback = (e \notin gone /\ cell[e].callback)
    /\ cell'[e].retainCount =
         IF e \in gone THEN cell[e].retainCount - 1 ELSE cell[e].retainCount

LEMMA UnlinkingEffect ==
  ASSUME CellsTyped, Sound, NEW gone, gone \subseteq ToSet(list),
         cell' = [c \in Cells |-> IF c \in gone THEN Unlinked(cell[c]) ELSE cell[c]]
  PROVE  Unlinking(gone) /\ CellsTyped' /\ SameRecords
  <1>1. ASSUME NEW e \in Cells
        PROVE  /\ cell'[e] \in Record
               /\ cell'[e].observer = cell[e].observer
               /\ cell'[e].name = cell[e].name /\ cell'[e].object = cell[e].object
               /\ cell'[e].callback = (e \notin gone /\ cell[e].callback)
               /\ cell'[e].retainCount =
                    IF e \in gone THEN cell[e].retainCount - 1 ELSE cell[e].retainCount
    <2>1. cell[e] \in Record /\ cell[e].callback \in BOOLEAN
      BY RecordFields DEF CellsTyped
    <2>2. CASE e \in gone
      <3>1. cell'[e] = Unlinked(cell[e])
        BY <2>2
      <3>2. cell[e].retainCount > 0
        BY <2>2 DEF Sound
      <3> QED
        BY <2>1, <2>2, <3>1, <3>2, UnlinkedRecord
    <2>3. CASE e \notin gone
      <3>1. cell'[e] = cell[e]
        BY <2>3
      <3> QED
        BY <2>1, <2>3, <3>1
    <2> QED
      BY <2>2, <2>3
  <1>2. DOMAIN cell' = Cells /\ cell' = [e \in Cells |-> cell'[e]]
    OBVIOUS
  <1> QED
    BY <1>1, <1>2 DEF CellsTyped, SameRecords, Unlinking

\* The object that CFNotificationCenterRemoveObserver looks for.
ObjectOf(s) == IF Kind = "darwin" THEN Null ELSE s[2]

LEMMA RemoveObserverEffect ==
  ASSUME CellsTyped, ListOK, list \in Seq(Cells), Sound, NEW t \in Threads,
         NEW o \in Observers, NEW s \in Removed, RemoveObserver(t, o, s)
  PROVE  LET gone == {c \in ToSet(list) : IsRemovedBy(c, o, s[1], ObjectOf(s))}
         IN /\ s[1] # Null \/ (s[2] # Null /\ Kind # "darwin")
            /\ IsFiniteSet(gone) /\ Cardinality(gone) \in Nat
            /\ Unlinking(gone) /\ CellsTyped' /\ SameRecords
            /\ list' \in Seq(Cells) /\ ToSet(list') = ToSet(list) \ gone
            /\ Len(list') = Len(list) - Cardinality(gone)
            /\ ListOK'
            /\ observersCount' = observersCount - Cardinality(gone)
            /\ listening' = AfterRemoval(s[1], ObjectOf(s), Cardinality(gone))
            /\ UNCHANGED <<lock, posts, failed>>
  <1> DEFINE gone == {c \in ToSet(list) : IsRemovedBy(c, o, s[1], ObjectOf(s))}
  <1>1. /\ s[1] # Null \/ (s[2] # Null /\ Kind # "darwin")
        /\ list' = Within(list, Cells \ gone)
        /\ cell' = [c \in Cells |-> IF c \in gone THEN Unlinked(cell[c]) ELSE cell[c]]
        /\ observersCount' = observersCount - Cardinality(gone)
        /\ listening' = AfterRemoval(s[1], ObjectOf(s), Cardinality(gone))
        /\ UNCHANGED <<lock, posts, failed>>
    BY Zenon DEF RemoveObserver, ObjectOf, CountAfter, TakenOff
  <1>2. gone \subseteq ToSet(list)
    OBVIOUS
  <1> HIDE DEF gone
  <1>3. /\ list' \in Seq(Cells) /\ ToSet(list') = ToSet(list) \cap (Cells \ gone)
        /\ Once(list')
    BY <1>1, WithinMembers, WithinOnce DEF ListOK
  <1>4. ToSet(list) \subseteq Cells
    BY MembersOfSeq
  <1>5. ToSet(list') = ToSet(list) \ gone
    BY <1>3, <1>4
  <1>6. Unlinking(gone) /\ CellsTyped' /\ SameRecords
    BY <1>1, <1>2, UnlinkingEffect
  <1>7. /\ IsFiniteSet(ToSet(list)) /\ Cardinality(ToSet(list)) = Len(list)
        /\ Cardinality(ToSet(list')) = Len(list')
    BY <1>3, LenOfOnce DEF ListOK
  <1>8. /\ IsFiniteSet(gone) /\ Cardinality(gone) \in Nat
        /\ Cardinality(ToSet(list) \ gone) = Cardinality(ToSet(list)) - Cardinality(gone)
    <2>1. IsFiniteSet(gone)
      BY <1>2, <1>7, FS_Subset
    <2>2. ToSet(list) \cap gone = gone
      BY <1>2
    <2>3. Cardinality(ToSet(list) \ gone)
            = Cardinality(ToSet(list)) - Cardinality(ToSet(list) \cap gone)
      BY <1>7, FS_Difference, Zenon
    <2>4. Cardinality(gone) \in Nat
      BY <2>1, FS_CardinalityType, Zenon
    <2> QED
      BY <2>1, <2>2, <2>3, <2>4
  <1>9. ListOK'
    BY <1>3, <1>4, <1>5, <1>6 DEF ListOK, Unlinking
  <1> QED
    BY <1>1, <1>3, <1>5, <1>6, <1>7, <1>8, <1>9 DEF gone

LEMMA RemoveEveryObserverEffect ==
  ASSUME CellsTyped, ListOK, list \in Seq(Cells), Sound, NEW t \in Threads,
         NEW o \in Observers, RemoveEveryObserver(t, o)
  PROVE  /\ <<Null, Null>> \in Removed
         /\ CellsTyped' /\ SameRecords /\ ListOK'
         /\ observersCount' = observersCount - Len(list)
         /\ UNCHANGED <<list, lock, table, posts>>
  <1>1. /\ <<Null, Null>> \in Removed
        /\ cell' = [c \in Cells |-> IF c \in ToSet(list) THEN Unlinked(cell[c]) ELSE cell[c]]
        /\ observersCount' = observersCount - Len(list)
        /\ UNCHANGED <<list, lock, table, posts>>
    BY DEF RemoveEveryObserver
  <1>2. Unlinking(ToSet(list)) /\ CellsTyped' /\ SameRecords
    BY <1>1, UnlinkingEffect
  <1>3. ToSet(list) \subseteq Cells
    BY MembersOfSeq
  <1>4. ListOK'
    BY <1>1, <1>2, <1>3 DEF ListOK, Unlinking
  <1> QED
    BY <1>1, <1>2, <1>4

----------------------------------------------------------------------------
(* Every variable has its type. *)

LEMMA AfterRemovalType ==
  ASSUME listening \in [Keys -> Nat], NEW name, NEW object, NEW n \in Nat
  PROVE  AfterRemoval(name, object, n) \in [Keys -> Nat]
  <1> DEFINE k == Key(name, object)
             m == IF listening[k] > n THEN listening[k] - n ELSE 0
  <1>1. AfterRemoval(name, object, n) = IF Kind = "local" THEN listening
                                        ELSE [listening EXCEPT ![k] = m]
    BY Zenon DEF AfterRemoval
  <1>2. k \in Keys => m \in Nat
    OBVIOUS
  <1> HIDE DEF k, m
  <1> QED
    BY <1>1, <1>2

LEMMA AddNotificationType ==
  ASSUME listening \in [Keys -> Nat], failed \subseteq Keys,
         NEW s \in Added, AddNotification(s[1], s[2])
  PROVE  listening' \in [Keys -> Nat] /\ failed' \subseteq Keys
  <1>1. Key(s[1], s[2]) \in Keys
    <2>1. s[1] \in Names /\ s[2] \in Objects
      BY DEF Names, Objects
    <2>2. \A n \in Names \cup {Null}, x \in Objects \cup {Null} : Key(n, x) \in Keys
      BY DEF Keys
    <2> QED
      BY <2>1, <2>2
  <1> DEFINE k == Key(s[1], s[2])
  <1>2. \/ UNCHANGED table
        \/ listening' = [listening EXCEPT ![k] = listening[k] + 1] /\ UNCHANGED failed
        \/ failed' = failed \cup {k} /\ UNCHANGED listening
    BY Zenon DEF AddNotification
  <1> HIDE DEF k
  <1> QED
    BY <1>1, <1>2 DEF table, k

CenterInv == TypeOK /\ FramesOK /\ ListOK

LEMMA CenterInvParts ==
  ASSUME CenterInv
  PROVE  CellsTyped /\ PostsTyped /\ list \in Seq(Cells)
  BY DEF CenterInv, TypeOK, CellsTyped, PostsTyped

\* A list that stays, with the same records.
LEMMA ListOKSame ==
  ASSUME ListOK, SameRecords, list' = list, list \in Seq(Cells),
         \A c \in Cells : cell'[c].callback = cell[c].callback
  PROVE  ListOK'
  <1>1. ToSet(list) \subseteq Cells
    BY MembersOfSeq
  <1> QED
    BY <1>1 DEF ListOK, SameRecords

LEMMA CenterInit ==
  ASSUME Init
  PROVE  CenterInv
  <1>1. Free \in Record
    BY DEF Free, Record
  <1>2. <<>> \in Seq(Cells) /\ <<>> \in Seq(Frame) /\ Len(<<>>) = 0
    OBVIOUS
  <1>3. TypeOK
    BY <1>1, <1>2 DEF Init, TypeOK
  <1>4. FramesOK
    BY <1>2, CenterAssumption DEF Init, FramesOK
  <1>5. ListOK
    BY NoMembers DEF Init, ListOK, Free, Once
  <1> QED
    BY <1>3, <1>4, <1>5 DEF CenterInv

LEMMA AddObserverStep ==
  ASSUME CenterInv, NEW t \in Threads, NEW c \in Cells,
         NEW o \in Observers, NEW s \in Added, AddObserver(t, c, o, s)
  PROVE  CenterInv'
  <1>1. CellsTyped /\ PostsTyped /\ list \in Seq(Cells) /\ ListOK /\ FramesOK
    BY CenterInvParts DEF CenterInv
  <1>2. /\ CellsTyped' /\ list' \in Seq(Cells) /\ ListOK'
        /\ observersCount' = observersCount + 1
        /\ AddNotification(s[1], s[2]) /\ UNCHANGED <<lock, posts>>
    BY <1>1, AddObserverEffect
  <1>3. listening' \in [Keys -> Nat] /\ failed' \subseteq Keys
    BY <1>2, AddNotificationType DEF CenterInv, TypeOK
  <1>4. TypeOK'
    BY <1>2, <1>3 DEF CenterInv, TypeOK, CellsTyped
  <1>5. FramesOK'
    BY <1>1, <1>2, FramesOKUnchanged
  <1> QED
    BY <1>2, <1>4, <1>5 DEF CenterInv

LEMMA RemoveObserverStep ==
  ASSUME CenterInv, Sound, NEW t \in Threads,
         NEW o \in Observers, NEW s \in Removed, RemoveObserver(t, o, s)
  PROVE  CenterInv'
  <1>1. CellsTyped /\ PostsTyped /\ list \in Seq(Cells) /\ ListOK /\ FramesOK
    BY CenterInvParts DEF CenterInv
  <1>2. PICK n \in Nat :
          /\ CellsTyped' /\ list' \in Seq(Cells) /\ ListOK'
          /\ observersCount' = observersCount - n
          /\ listening' = AfterRemoval(s[1], ObjectOf(s), n)
          /\ UNCHANGED <<lock, posts, failed>>
    BY <1>1, RemoveObserverEffect
  <1>3. listening' \in [Keys -> Nat]
    BY <1>2, AfterRemovalType DEF CenterInv, TypeOK
  <1>4. TypeOK'
    BY <1>2, <1>3 DEF CenterInv, TypeOK, CellsTyped
  <1>5. FramesOK'
    BY <1>1, <1>2, FramesOKUnchanged
  <1> QED
    BY <1>2, <1>4, <1>5 DEF CenterInv

LEMMA RemoveEveryObserverStep ==
  ASSUME CenterInv, Sound, NEW t \in Threads, NEW o \in Observers, RemoveEveryObserver(t, o)
  PROVE  CenterInv'
  <1>1. CellsTyped /\ PostsTyped /\ list \in Seq(Cells) /\ ListOK /\ FramesOK
    BY CenterInvParts DEF CenterInv
  <1>2. /\ CellsTyped' /\ ListOK'
        /\ observersCount' = observersCount - Len(list)
        /\ UNCHANGED <<list, lock, table, posts>>
    BY <1>1, RemoveEveryObserverEffect
  <1>3. Len(list) \in Nat
    BY <1>1, LenProperties
  <1>4. TypeOK'
    BY <1>2, <1>3 DEF CenterInv, TypeOK, CellsTyped, table
  <1>5. FramesOK'
    BY <1>1, <1>2, FramesOKUnchanged
  <1> QED
    BY <1>2, <1>4, <1>5 DEF CenterInv

LEMMA PostStep ==
  ASSUME CenterInv, NEW t \in Threads, NEW s \in Posted, Post(t, s)
  PROVE  CenterInv'
  <1>1. CellsTyped /\ PostsTyped /\ list \in Seq(Cells) /\ ListOK /\ FramesOK
    BY CenterInvParts DEF CenterInv
  <1>2. PICK f \in Frame :
          /\ posts' = [posts EXCEPT ![t] = Append(@, f)] /\ FramesOK'
          /\ CellsTyped' /\ SameRecords
          /\ \A e \in Cells : cell'[e].callback = cell[e].callback
          /\ lock' = t /\ UNCHANGED <<list, observersCount, table>>
    <2>1. PICK m \in Seq(Cells) :
            LET f == [matched |-> m, pc |-> "next", expected |-> m, called |-> <<>>]
            IN /\ f \in Frame /\ posts' = [posts EXCEPT ![t] = Append(@, f)] /\ FramesOK'
               /\ CellsTyped' /\ SameRecords
               /\ \A e \in Cells : cell'[e].callback = cell[e].callback
               /\ lock' = t /\ UNCHANGED <<list, observersCount, table>>
      <3> HIDE DEF CellsTyped, PostsTyped, FramesOK, ListOK, SameRecords
      <3> QED
        BY <1>1, PostEffect, Zenon
    <2> QED
      BY <2>1, Zenon
  <1>3. PostsTyped'
    BY <1>1, <1>2, PushEffect
  <1>4. ListOK'
    BY <1>1, <1>2, ListOKSame
  <1>5. TypeOK'
    BY <1>2, <1>3 DEF CenterInv, TypeOK, CellsTyped, PostsTyped, table
  <1> QED
    BY <1>2, <1>4, <1>5 DEF CenterInv

LEMMA ReleaseStep ==
  ASSUME CenterInv, Sound, NEW t \in Threads, posts[t] # <<>>, Top(t).matched # <<>>,
         Release(t, Head(Top(t).matched)), lock' \in {lock, t},
         UNCHANGED <<list, observersCount, table>>
  PROVE  CenterInv'
  <1>1. CellsTyped /\ PostsTyped /\ list \in Seq(Cells) /\ ListOK /\ FramesOK
    BY CenterInvParts DEF CenterInv
  <1>2. /\ CellsTyped' /\ SameRecords
        /\ \A e \in Cells : cell'[e].callback = cell[e].callback
        /\ Past(Top(t)) \in Frame /\ SetTop(t, Past(Top(t))) /\ FramesOK'
    BY <1>1, ReleaseEffect, Zenon
  <1>3. PostsTyped'
    BY <1>1, <1>2, SetTopEffect
  <1>4. ListOK'
    BY <1>1, <1>2, ListOKSame
  <1>5. TypeOK'
    BY <1>2, <1>3 DEF CenterInv, TypeOK, CellsTyped, PostsTyped, table
  <1> QED
    BY <1>2, <1>4, <1>5 DEF CenterInv

LEMMA SkipOrReturn ==
  ASSUME CenterInv, NEW t \in Threads, SkipRemoved(t) \/ CallbackReturns(t)
  PROVE  /\ posts[t] # <<>> /\ Top(t).matched # <<>>
         /\ Release(t, Head(Top(t).matched)) /\ lock' \in {lock, t}
         /\ UNCHANGED <<list, observersCount, table>>
  <1>1. CASE SkipRemoved(t)
    BY <1>1 DEF SkipRemoved, At
  <1>2. CASE CallbackReturns(t)
    <2>1. posts[t] # <<>> /\ Top(t).pc = "callback"
      BY <1>2 DEF CallbackReturns, At
    <2>2. Top(t).matched # <<>>
      BY <2>1, CenterInvParts, FrameOfPost DEF CenterInv, FramesOK, FrameOK
    <2> QED
      BY <1>2, <2>1, <2>2 DEF CallbackReturns
  <1> QED
    BY <1>1, <1>2

\* The steps that leave the records as they are.
LEMMA OwnStep ==
  ASSUME CenterInv, NEW t \in Threads, Deliver(t) \/ CallBack(t) \/ PostDone(t)
  PROVE  CenterInv'
  <1>1. CellsTyped /\ PostsTyped /\ list \in Seq(Cells) /\ ListOK /\ FramesOK
    BY CenterInvParts DEF CenterInv
  <1>2. UNCHANGED <<cell, list, observersCount, table>> /\ lock' \in {lock, NoLock}
    BY DEF Deliver, CallBack, PostDone
  <1>3. PostsTyped' /\ FramesOK'
    <2>1. CASE Deliver(t)
      BY <1>1, <2>1, DeliverEffect, SetTopEffect
    <2>2. CASE CallBack(t)
      BY <1>1, <2>2, CallBackEffect, SetTopEffect
    <2>3. CASE PostDone(t)
      BY <1>1, <2>3, PopEffect, FramesOKPop DEF PostDone, At
    <2> QED
      BY <2>1, <2>2, <2>3
  <1>4. ListOK'
    BY <1>1, <1>2 DEF ListOK
  <1>5. TypeOK'
    BY <1>2, <1>3 DEF CenterInv, TypeOK, PostsTyped, table
  <1> QED
    BY <1>3, <1>4, <1>5 DEF CenterInv

LEMMA CenterStep ==
  ASSUME CenterInv, [Next]_vars
  PROVE  CenterInv'
  <1>1. CASE UNCHANGED vars
    BY <1>1 DEF CenterInv, TypeOK, FramesOK, ListOK, vars, table
  <1>2. ASSUME Sound, NEW t \in Threads, Client(t) PROVE CenterInv'
    BY <1>2, AddObserverStep, RemoveObserverStep, RemoveEveryObserverStep, PostStep
       DEF Client
  <1>3. ASSUME Sound, NEW t \in Threads, Step(t) PROVE CenterInv'
    <2>1. CASE SkipRemoved(t) \/ CallbackReturns(t)
      BY <1>3, <2>1, SkipOrReturn, ReleaseStep
    <2>2. CASE Deliver(t) \/ CallBack(t) \/ PostDone(t)
      BY <2>2, OwnStep
    <2> QED
      BY <1>3, <2>1, <2>2 DEF Step
  <1> QED
    BY <1>1, <1>2, <1>3 DEF Next

\* Every reachable state is typed: what is counted never goes below zero, and
\* a post in progress is at one of its steps (CFNotificationCenter.c).
THEOREM CenterTypeCorrect == Spec => []TypeOK
  <1>1. Spec => []CenterInv
    BY CenterInit, CenterStep, PTL DEF Spec
  <1>2. CenterInv => TypeOK
    BY DEF CenterInv
  <1> QED
    BY <1>1, <1>2, PTL

----------------------------------------------------------------------------
(* The references to a record, where nobody asks for the removal of every   *)
(* observer (which leaves the list as it is, and what is counted wrong).    *)

NoneRemovesEveryone == <<Null, Null>> \notin Removed

\* A post in progress, among those of ps, that refers to c.
InPost(ps, c, t, d) == d <= Len(ps[t]) /\ c \in ToSet(ps[t][d].matched)
HeldIn(ps, c) == {p \in Threads \X (1..MaxDepth) : InPost(ps, c, p[1], p[2])}

LEMMA HeldIsHeldIn ==
  ASSUME NEW c
  PROVE  Held(c) = HeldIn(posts, c)
  BY DEF Held, HeldIn, InPost

LEMMA HeldIsFinite ==
  ASSUME NEW ps, NEW c
  PROVE  IsFiniteSet(HeldIn(ps, c)) /\ Cardinality(HeldIn(ps, c)) \in Nat
  <1>1. IsFiniteSet(1..MaxDepth) /\ IsFiniteSet(Threads)
    BY CenterAssumption, FS_Interval
  <1>2. IsFiniteSet(Threads \X (1..MaxDepth))
    BY <1>1, FS_Product
  <1>3. HeldIn(ps, c) \subseteq Threads \X (1..MaxDepth)
    BY DEF HeldIn
  <1> QED
    BY <1>2, <1>3, FS_Subset, FS_CardinalityType

LEMMA HeldAlike ==
  ASSUME NEW ps, NEW qs, NEW c,
         \A t \in Threads, d \in 1..MaxDepth : InPost(qs, c, t, d) <=> InPost(ps, c, t, d)
  PROVE  HeldIn(qs, c) = HeldIn(ps, c)
  <1>1. \A p \in Threads \X (1..MaxDepth) : p[1] \in Threads /\ p[2] \in 1..MaxDepth
    OBVIOUS
  <1> QED
    BY <1>1 DEF HeldIn

\* One post refers to c no more, or anew.
LEMMA HeldButOne ==
  ASSUME NEW ps, NEW qs, NEW c, NEW u \in Threads, NEW n \in 1..MaxDepth,
         InPost(ps, c, u, n), ~InPost(qs, c, u, n),
         \A t \in Threads, d \in 1..MaxDepth :
           t # u \/ d # n => (InPost(qs, c, t, d) <=> InPost(ps, c, t, d))
  PROVE  /\ Cardinality(HeldIn(qs, c)) = Cardinality(HeldIn(ps, c)) - 1
         /\ Cardinality(HeldIn(ps, c)) = Cardinality(HeldIn(qs, c)) + 1
  <1> DEFINE x == <<u, n>>
  <1>1. \A p \in Threads \X (1..MaxDepth) :
          /\ p[1] \in Threads /\ p[2] \in 1..MaxDepth
          /\ p # x => p[1] # u \/ p[2] # n
    OBVIOUS
  <1>2. x \in Threads \X (1..MaxDepth) /\ x[1] = u /\ x[2] = n
    OBVIOUS
  <1> HIDE DEF x
  <1>3. x \in HeldIn(ps, c)
    BY <1>2 DEF HeldIn
  <1>4. ASSUME NEW p \in Threads \X (1..MaxDepth)
        PROVE  InPost(qs, c, p[1], p[2]) <=> InPost(ps, c, p[1], p[2]) /\ p # x
    <2>1. CASE p = x
      BY <1>2, <2>1
    <2>2. CASE p # x
      BY <1>1, <2>2
    <2> QED
      BY <2>1, <2>2
  <1>5. HeldIn(qs, c) = HeldIn(ps, c) \ {x}
    BY <1>4 DEF HeldIn
  <1>6. /\ Cardinality(HeldIn(ps, c) \ {x}) = Cardinality(HeldIn(ps, c)) - 1
        /\ Cardinality(HeldIn(ps, c)) \in Nat
    BY <1>3, HeldIsFinite, FS_RemoveElement
  <1> QED
    BY <1>5, <1>6

\* The same posts refer to a record where all that changes is which step a post is at.
LEMMA HeldSetTop ==
  ASSUME PostsTyped, NEW t \in Threads, posts[t] # <<>>, NEW f \in Frame,
         f.matched = Top(t).matched, SetTop(t, f), NEW c
  PROVE  HeldIn(posts', c) = HeldIn(posts, c)
  <1>1. /\ \A u \in Threads : Len(posts'[u]) = Len(posts[u])
        /\ \A u \in Threads, d \in Nat : u # t \/ d # Len(posts[t]) =>
             posts'[u][d] = posts[u][d]
        /\ posts'[t][Len(posts[t])] = f
    BY SetTopEffect
  <1>2. f.matched = posts[t][Len(posts[t])].matched
    BY FrameOfPost
  <1>3. ASSUME NEW u \in Threads, NEW d \in 1..MaxDepth
        PROVE  InPost(posts', c, u, d) <=> InPost(posts, c, u, d)
    <2>1. d \in Nat
      BY CenterAssumption
    <2>2. CASE u # t \/ d # Len(posts[t])
      BY <1>1, <2>1, <2>2 DEF InPost
    <2>3. CASE u = t /\ d = Len(posts[t])
      BY <1>1, <1>2, <2>3 DEF InPost
    <2> QED
      BY <2>2, <2>3
  <1> QED
    BY <1>3, HeldAlike

LEMMA HeldPast ==
  ASSUME PostsTyped, FramesOK, NEW t \in Threads, posts[t] # <<>>, Top(t).matched # <<>>,
         SetTop(t, Past(Top(t))), NEW c \in Cells
  PROVE  Cardinality(HeldIn(posts', c)) =
           IF c = Head(Top(t).matched) THEN Cardinality(HeldIn(posts, c)) - 1
           ELSE Cardinality(HeldIn(posts, c))
  <1> DEFINE f == Top(t)
             g == Past(f)
             n == Len(posts[t])
  <1>1. f \in Frame /\ f = posts[t][n] /\ n \in 1..n /\ n \in Nat
    BY FrameOfPost
  <1>2. FrameOK(f) /\ n <= MaxDepth
    BY <1>1 DEF FramesOK
  <1>3. g \in Frame /\ g.matched = Tail(f.matched)
    BY <1>1, PastFrame
  <1>4. /\ \A u \in Threads : Len(posts'[u]) = Len(posts[u])
        /\ \A u \in Threads, d \in Nat : u # t \/ d # n => posts'[u][d] = posts[u][d]
        /\ posts'[t][n] = g
    BY <1>3, SetTopEffect
  <1>5. /\ Head(f.matched) \in ToSet(f.matched)
        /\ ToSet(g.matched) = ToSet(f.matched) \ {Head(f.matched)}
    <2>1. f.matched \in Seq(Cells) /\ Once(f.matched)
      BY <1>1, <1>2 DEF Frame, FrameOK
    <2>2. ToSet(Tail(f.matched)) = ToSet(f.matched) \ {Head(f.matched)}
      BY <2>1, MembersOfRest
    <2> QED
      BY <1>1, <1>2, <1>3, <2>2, AtHand
  <1>6. n \in 1..MaxDepth
    BY <1>1, <1>2, CenterAssumption
  <1> HIDE DEF f, g, n
  <1>7. ASSUME NEW u \in Threads, NEW d \in 1..MaxDepth, u # t \/ d # n
        PROVE  InPost(posts', c, u, d) <=> InPost(posts, c, u, d)
    <2>1. d \in Nat
      BY CenterAssumption
    <2> QED
      BY <1>4, <1>7, <2>1 DEF InPost
  <1>8. /\ InPost(posts, c, t, n) <=> c \in ToSet(f.matched)
        /\ InPost(posts', c, t, n) <=> c \in ToSet(f.matched) \ {Head(f.matched)}
    BY <1>1, <1>4, <1>5 DEF InPost, n
  <1>9. CASE c = Head(f.matched)
    <2>1. InPost(posts, c, t, n) /\ ~InPost(posts', c, t, n)
      BY <1>5, <1>8, <1>9
    <2> QED
      BY <1>6, <1>7, <1>9, <2>1, HeldButOne DEF f
  <1>10. CASE c # Head(f.matched)
    <2>1. InPost(posts', c, t, n) <=> InPost(posts, c, t, n)
      BY <1>8, <1>10
    <2>2. \A u \in Threads, d \in 1..MaxDepth : InPost(posts', c, u, d) <=> InPost(posts, c, u, d)
      BY <1>7, <2>1
    <2>3. HeldIn(posts', c) = HeldIn(posts, c)
      BY <2>2, HeldAlike
    <2> QED
      BY <1>10, <2>3 DEF f
  <1> QED
    BY <1>9, <1>10

LEMMA HeldPush ==
  ASSUME PostsTyped, NEW t \in Threads, NEW f \in Frame, Len(posts[t]) < MaxDepth,
         posts' = [posts EXCEPT ![t] = Append(@, f)], NEW c \in Cells
  PROVE  Cardinality(HeldIn(posts', c)) =
           IF c \in ToSet(f.matched) THEN Cardinality(HeldIn(posts, c)) + 1
           ELSE Cardinality(HeldIn(posts, c))
  <1> DEFINE n == Len(posts[t]) + 1
  <1>1. Len(posts[t]) \in Nat
    BY FrameOfPost
  <1>2. n \in 1..MaxDepth
    BY <1>1, CenterAssumption
  <1>3. /\ Len(posts'[t]) = n /\ posts'[t][n] = f
        /\ \A d \in 1..Len(posts[t]) : posts'[t][d] = posts[t][d]
        /\ \A u \in Threads : u # t => posts'[u] = posts[u]
    BY PushEffect
  <1>4. ASSUME NEW u \in Threads, NEW d \in 1..MaxDepth, u # t \/ d # n
        PROVE  InPost(posts', c, u, d) <=> InPost(posts, c, u, d)
    <2>1. CASE u # t
      BY <1>3, <2>1 DEF InPost
    <2>2. CASE u = t
      <3>1. d # n /\ d \in Nat /\ d >= 1
        BY <1>4, <2>2, CenterAssumption
      <3>2. CASE d <= Len(posts[t])
        <4>1. d \in 1..Len(posts[t]) /\ d <= n
          BY <1>1, <3>1, <3>2
        <4> QED
          BY <1>3, <2>2, <4>1 DEF InPost
      <3>3. CASE ~(d <= Len(posts[t]))
        <4>1. ~(d <= n)
          BY <1>1, <3>1, <3>3
        <4> QED
          BY <1>3, <2>2, <3>3, <4>1 DEF InPost
      <3> QED
        BY <3>2, <3>3
    <2> QED
      BY <2>1, <2>2
  <1>5. ~InPost(posts, c, t, n)
    BY <1>1 DEF InPost
  <1>6. InPost(posts', c, t, n) <=> c \in ToSet(f.matched)
    BY <1>1, <1>3 DEF InPost
  <1> HIDE DEF n
  <1>7. CASE c \in ToSet(f.matched)
    <2> DEFINE more == posts'
    <2>0. /\ InPost(more, c, t, n) /\ ~InPost(posts, c, t, n)
          /\ \A u \in Threads, d \in 1..MaxDepth :
               u # t \/ d # n => (InPost(posts, c, u, d) <=> InPost(more, c, u, d))
      BY <1>4, <1>5, <1>6, <1>7
    <2>1. Cardinality(HeldIn(more, c)) = Cardinality(HeldIn(posts, c)) + 1
      <3> HIDE DEF more
      <3> QED
        BY <1>2, <2>0, HeldButOne
    <2> QED
      BY <1>7, <2>1
  <1>8. CASE c \notin ToSet(f.matched)
    <2>1. \A u \in Threads, d \in 1..MaxDepth : InPost(posts', c, u, d) <=> InPost(posts, c, u, d)
      BY <1>4, <1>5, <1>6, <1>8
    <2>2. HeldIn(posts', c) = HeldIn(posts, c)
      BY <2>1, HeldAlike
    <2> QED
      BY <1>8, <2>2
  <1> QED
    BY <1>7, <1>8

LEMMA HeldPop ==
  ASSUME PostsTyped, NEW t \in Threads, posts[t] # <<>>, Top(t).matched = <<>>,
         posts' = [posts EXCEPT ![t] = Front(@)], NEW c
  PROVE  HeldIn(posts', c) = HeldIn(posts, c)
  <1> DEFINE n == Len(posts[t])
  <1>1. n \in 1..n /\ n \in Nat /\ Top(t) = posts[t][n]
    BY FrameOfPost
  <1>2. /\ Len(posts'[t]) = n - 1
        /\ \A d \in 1..(n - 1) : posts'[t][d] = posts[t][d]
        /\ \A u \in Threads : u # t => posts'[u] = posts[u]
    BY PopEffect
  <1>3. ~InPost(posts, c, t, n) /\ ~InPost(posts', c, t, n)
    <2>1. ToSet(posts[t][n].matched) = {}
      BY <1>1, NoMembers
    <2> QED
      BY <1>1, <1>2, <2>1 DEF InPost
  <1> HIDE DEF n
  <1>4. ASSUME NEW u \in Threads, NEW d \in 1..MaxDepth
        PROVE  InPost(posts', c, u, d) <=> InPost(posts, c, u, d)
    <2>1. CASE u # t
      BY <1>2, <2>1 DEF InPost
    <2>2. CASE u = t /\ d = n
      BY <1>3, <2>2
    <2>3. CASE u = t /\ d # n
      <3>1. d \in Nat /\ d >= 1
        BY CenterAssumption
      <3>2. CASE d <= n - 1
        <4>1. d \in 1..(n - 1) /\ d <= n
          BY <1>1, <3>1, <3>2
        <4> QED
          BY <1>2, <2>3, <4>1, <3>2 DEF InPost, n
      <3>3. CASE ~(d <= n - 1)
        <4>1. ~(d <= n)
          BY <1>1, <2>3, <3>1, <3>3
        <4> QED
          BY <1>2, <2>3, <3>3, <4>1 DEF InPost, n
      <3> QED
        BY <3>2, <3>3
    <2> QED
      BY <2>1, <2>2, <2>3
  <1> QED
    BY <1>4, HeldAlike

\* The invariant: what is counted, for each record and for the list.
CountsInv == RetainCountsAreExact /\ MatchesFitAllocation

Listed(c, l) == IF c \in ToSet(l) THEN 1 ELSE 0

LEMMA CountsAre ==
  RetainCountsAreExact <=>
    \A c \in Cells : cell[c].retainCount = Cardinality(HeldIn(posts, c)) + Listed(c, list)
  BY HeldIsHeldIn DEF RetainCountsAreExact, Listed

LEMMA CountsAreThen ==
  (\A c \in Cells : cell'[c].retainCount = Cardinality(HeldIn(posts', c)) + Listed(c, list'))
    => RetainCountsAreExact'
  BY DEF RetainCountsAreExact, Held, HeldIn, InPost, Listed

LEMMA AddObserverCounts ==
  ASSUME CenterInv, CountsInv, NEW t \in Threads, NEW c \in Cells,
         NEW o \in Observers, NEW s \in Added, AddObserver(t, c, o, s)
  PROVE  CountsInv'
  <1>1. CellsTyped /\ PostsTyped /\ list \in Seq(Cells) /\ ListOK /\ FramesOK
    BY CenterInvParts DEF CenterInv
  <1>2. /\ cell[c].retainCount = 0 /\ \A e \in Cells : e # c => cell'[e] = cell[e]
        /\ cell'[c].retainCount = 1 /\ c \notin ToSet(list)
        /\ ToSet(list') = ToSet(list) \cup {c} /\ Len(list') = Len(list) + 1
        /\ observersCount' = observersCount + 1 /\ posts' = posts
    BY <1>1, AddObserverEffect
  <1>3. ASSUME NEW e \in Cells
        PROVE  cell'[e].retainCount = Cardinality(HeldIn(posts', e)) + Listed(e, list')
    <2>1. /\ cell[e].retainCount = Cardinality(HeldIn(posts, e)) + Listed(e, list)
          /\ Cardinality(HeldIn(posts, e)) \in Nat
      BY CountsAre, HeldIsFinite DEF CountsInv
    <2>2. CASE e = c
      <3>1. Listed(e, list) = 0 /\ Listed(e, list') = 1
        BY <1>2, <2>2 DEF Listed
      <3> QED
        BY <1>2, <2>1, <2>2, <3>1
    <2>3. CASE e # c
      <3>1. Listed(e, list') = Listed(e, list)
        BY <1>2, <2>3 DEF Listed
      <3> QED
        BY <1>2, <2>1, <2>3, <3>1
    <2> QED
      BY <2>2, <2>3
  <1>4. RetainCountsAreExact'
    BY <1>3, CountsAreThen
  <1>5. MatchesFitAllocation'
    BY <1>2 DEF CountsInv, MatchesFitAllocation
  <1> QED
    BY <1>4, <1>5 DEF CountsInv

LEMMA RemoveObserverCounts ==
  ASSUME CenterInv, CountsInv, Sound, NEW t \in Threads,
         NEW o \in Observers, NEW s \in Removed, RemoveObserver(t, o, s)
  PROVE  CountsInv'
  <1>1. CellsTyped /\ PostsTyped /\ list \in Seq(Cells) /\ ListOK /\ FramesOK
    BY CenterInvParts DEF CenterInv
  <1>2. PICK gone \in SUBSET ToSet(list) :
          /\ Unlinking(gone) /\ ToSet(list') = ToSet(list) \ gone
          /\ Len(list') = Len(list) - Cardinality(gone)
          /\ observersCount' = observersCount - Cardinality(gone)
          /\ posts' = posts
    <2> DEFINE gone == {c \in ToSet(list) : IsRemovedBy(c, o, s[1], ObjectOf(s))}
    <2>1. /\ Unlinking(gone) /\ ToSet(list') = ToSet(list) \ gone
          /\ Len(list') = Len(list) - Cardinality(gone)
          /\ observersCount' = observersCount - Cardinality(gone)
          /\ posts' = posts
      BY <1>1, RemoveObserverEffect, Zenon
    <2>2. gone \in SUBSET ToSet(list)
      OBVIOUS
    <2> QED
      BY <2>1, <2>2, Zenon
  <1>3. ASSUME NEW e \in Cells
        PROVE  cell'[e].retainCount = Cardinality(HeldIn(posts', e)) + Listed(e, list')
    <2>1. /\ cell[e].retainCount = Cardinality(HeldIn(posts, e)) + Listed(e, list)
          /\ Cardinality(HeldIn(posts, e)) \in Nat
      BY CountsAre, HeldIsFinite DEF CountsInv
    <2>2. CASE e \in gone
      <3>1. Listed(e, list) = 1 /\ Listed(e, list') = 0
        BY <1>2, <2>2 DEF Listed
      <3>2. cell'[e].retainCount = cell[e].retainCount - 1
        BY <1>2, <2>2 DEF Unlinking
      <3> QED
        BY <1>2, <2>1, <3>1, <3>2
    <2>3. CASE e \notin gone
      <3>1. Listed(e, list') = Listed(e, list)
        BY <1>2, <2>3 DEF Listed
      <3>2. cell'[e].retainCount = cell[e].retainCount
        BY <1>2, <2>3 DEF Unlinking
      <3> QED
        BY <1>2, <2>1, <3>1, <3>2
    <2> QED
      BY <2>2, <2>3
  <1>4. RetainCountsAreExact'
    BY <1>3, CountsAreThen
  <1>5. MatchesFitAllocation'
    BY <1>2 DEF CountsInv, MatchesFitAllocation
  <1> QED
    BY <1>4, <1>5 DEF CountsInv

LEMMA PostCounts ==
  ASSUME CenterInv, CountsInv, NEW t \in Threads, NEW s \in Posted, Post(t, s)
  PROVE  CountsInv'
  <1>1. CellsTyped /\ PostsTyped /\ list \in Seq(Cells) /\ ListOK /\ FramesOK
    BY CenterInvParts DEF CenterInv
  <1>2. PICK f \in Frame :
          /\ posts' = [posts EXCEPT ![t] = Append(@, f)] /\ Len(posts[t]) < MaxDepth
          /\ \A e \in Cells : cell'[e].retainCount =
               IF e \in ToSet(f.matched) THEN cell[e].retainCount + 1 ELSE cell[e].retainCount
          /\ UNCHANGED <<list, observersCount>>
    <2>1. PICK m \in Seq(Cells) :
            LET f == [matched |-> m, pc |-> "next", expected |-> m, called |-> <<>>]
            IN /\ f \in Frame /\ posts' = [posts EXCEPT ![t] = Append(@, f)]
               /\ Len(posts[t]) < MaxDepth
               /\ \A e \in Cells : cell'[e].retainCount =
                    IF e \in ToSet(m) THEN cell[e].retainCount + 1 ELSE cell[e].retainCount
               /\ UNCHANGED <<list, observersCount, table>>
      BY <1>1, PostEffect, Zenon
    <2> DEFINE f == [matched |-> m, pc |-> "next", expected |-> m, called |-> <<>>]
    <2>2. f.matched = m
      OBVIOUS
    <2>3. /\ f \in Frame /\ posts' = [posts EXCEPT ![t] = Append(@, f)]
          /\ Len(posts[t]) < MaxDepth
          /\ \A e \in Cells : cell'[e].retainCount =
               IF e \in ToSet(m) THEN cell[e].retainCount + 1 ELSE cell[e].retainCount
          /\ UNCHANGED <<list, observersCount, table>>
      BY <2>1, Zenon
    <2> HIDE DEF f
    <2> QED
      BY <2>2, <2>3
  <1>3. ASSUME NEW e \in Cells
        PROVE  cell'[e].retainCount = Cardinality(HeldIn(posts', e)) + Listed(e, list')
    <2>1. /\ cell[e].retainCount = Cardinality(HeldIn(posts, e)) + Listed(e, list)
          /\ Cardinality(HeldIn(posts, e)) \in Nat /\ Listed(e, list) \in Nat
      BY CountsAre, HeldIsFinite DEF CountsInv, Listed
    <2>2. Listed(e, list') = Listed(e, list)
      BY <1>2
    <2>3. Cardinality(HeldIn(posts', e)) =
            IF e \in ToSet(f.matched) THEN Cardinality(HeldIn(posts, e)) + 1
            ELSE Cardinality(HeldIn(posts, e))
      BY <1>1, <1>2, HeldPush
    <2> QED
      BY <1>2, <2>1, <2>2, <2>3
  <1>4. RetainCountsAreExact'
    BY <1>3, CountsAreThen
  <1>5. MatchesFitAllocation'
    BY <1>2 DEF CountsInv, MatchesFitAllocation
  <1> QED
    BY <1>4, <1>5 DEF CountsInv

LEMMA ReleaseCounts ==
  ASSUME CenterInv, CountsInv, Sound, NEW t \in Threads,
         SkipRemoved(t) \/ CallbackReturns(t)
  PROVE  CountsInv'
  <1>1. CellsTyped /\ PostsTyped /\ list \in Seq(Cells) /\ ListOK /\ FramesOK
    BY CenterInvParts DEF CenterInv
  <1>2. /\ posts[t] # <<>> /\ Top(t).matched # <<>>
        /\ Release(t, Head(Top(t).matched))
        /\ UNCHANGED <<list, observersCount, table>>
    BY SkipOrReturn
  <1> DEFINE c == Head(Top(t).matched)
  <1>3. /\ SetTop(t, Past(Top(t)))
        /\ \A e \in Cells : cell'[e].retainCount =
             IF e = c THEN cell[c].retainCount - 1 ELSE cell[e].retainCount
    BY <1>1, <1>2, ReleaseEffect, Zenon
  <1>4. \A e \in Cells : Cardinality(HeldIn(posts', e)) =
          IF e = c THEN Cardinality(HeldIn(posts, e)) - 1 ELSE Cardinality(HeldIn(posts, e))
    BY <1>1, <1>2, <1>3, HeldPast
  <1> HIDE DEF c
  <1>5. ASSUME NEW e \in Cells
        PROVE  cell'[e].retainCount = Cardinality(HeldIn(posts', e)) + Listed(e, list')
    <2>1. /\ cell[e].retainCount = Cardinality(HeldIn(posts, e)) + Listed(e, list)
          /\ Cardinality(HeldIn(posts, e)) \in Nat /\ Listed(e, list) \in Nat
      BY CountsAre, HeldIsFinite DEF CountsInv, Listed
    <2>2. Listed(e, list') = Listed(e, list)
      BY <1>2
    <2>3. CASE e = c
      BY <1>3, <1>4, <2>1, <2>2, <2>3
    <2>4. CASE e # c
      BY <1>3, <1>4, <2>1, <2>2, <2>4
    <2> QED
      BY <2>3, <2>4
  <1>6. RetainCountsAreExact'
    BY <1>5, CountsAreThen
  <1>7. MatchesFitAllocation'
    BY <1>2 DEF CountsInv, MatchesFitAllocation
  <1> QED
    BY <1>6, <1>7 DEF CountsInv

LEMMA OwnCounts ==
  ASSUME CenterInv, CountsInv, NEW t \in Threads, Deliver(t) \/ CallBack(t) \/ PostDone(t)
  PROVE  CountsInv'
  <1>1. CellsTyped /\ PostsTyped /\ list \in Seq(Cells) /\ ListOK /\ FramesOK
    BY CenterInvParts DEF CenterInv
  <1>2. UNCHANGED <<cell, list, observersCount, table>>
    BY DEF Deliver, CallBack, PostDone
  <1>3. ASSUME NEW c \in Cells PROVE HeldIn(posts', c) = HeldIn(posts, c)
    <2>1. CASE Deliver(t)
      <3> DEFINE f == [Top(t) EXCEPT !.pc = "unlocked"]
      <3>1. posts[t] # <<>> /\ f \in Frame /\ f.matched = Top(t).matched /\ SetTop(t, f)
        BY <1>1, <2>1, DeliverEffect, Zenon
      <3> HIDE DEF f
      <3> QED
        BY <1>1, <3>1, HeldSetTop
    <2>2. CASE CallBack(t)
      <3>1. PICK pc \in {"callback", "null"} :
              LET f == CalledNow(Top(t), pc, Head(Top(t).matched))
              IN f \in Frame /\ f.matched = Top(t).matched /\ SetTop(t, f)
        BY <1>1, <2>2, CallBackEffect, Zenon
      <3>2. posts[t] # <<>>
        BY <1>1, <2>2, CallBackEffect, Zenon
      <3> QED
        BY <1>1, <3>1, <3>2, HeldSetTop
    <2>3. CASE PostDone(t)
      BY <1>1, <2>3, HeldPop DEF PostDone, At
    <2> QED
      BY <2>1, <2>2, <2>3
  <1>4. RetainCountsAreExact'
    BY <1>2, <1>3, CountsAre, CountsAreThen DEF CountsInv
  <1>5. MatchesFitAllocation'
    BY <1>2 DEF CountsInv, MatchesFitAllocation
  <1> QED
    BY <1>4, <1>5 DEF CountsInv

LEMMA CountsInit ==
  ASSUME Init
  PROVE  CountsInv
  <1>1. \A c \in Cells : HeldIn(posts, c) = {}
    BY DEF Init, HeldIn, InPost
  <1>2. Cardinality({}) = 0
    BY FS_EmptySet
  <1>3. \A c \in Cells : cell[c].retainCount = 0 /\ Listed(c, list) = 0
    BY NoMembers DEF Init, Free, Listed
  <1>4. RetainCountsAreExact
    BY <1>1, <1>2, <1>3, CountsAre
  <1> QED
    BY <1>4 DEF Init, CountsInv, MatchesFitAllocation

LEMMA CountsStep ==
  ASSUME NoneRemovesEveryone, CenterInv, CountsInv, [Next]_vars
  PROVE  CountsInv'
  <1>1. CASE UNCHANGED vars
    <2>1. RetainCountsAreExact'
      BY <1>1, CountsAre, CountsAreThen DEF CountsInv, vars
    <2> QED
      BY <1>1, <2>1 DEF CountsInv, MatchesFitAllocation, vars
  <1>2. ASSUME Sound, NEW t \in Threads, Client(t) PROVE CountsInv'
    <2>1. ASSUME NEW o \in Observers, RemoveEveryObserver(t, o) PROVE FALSE
      BY <2>1 DEF RemoveEveryObserver, NoneRemovesEveryone
    <2> QED
      BY <1>2, <2>1, AddObserverCounts, RemoveObserverCounts, PostCounts DEF Client
  <1>3. ASSUME Sound, NEW t \in Threads, Step(t) PROVE CountsInv'
    BY <1>3, ReleaseCounts, OwnCounts DEF Step
  <1> QED
    BY <1>1, <1>2, <1>3 DEF Next

\* The retain count of a record is the number of the places that refer to it, the
\* list and the posts in progress on all threads, so that it is freed when the
\* last one lets it go (CFNotificationCenter.c, __CFObserverRelease).
THEOREM RetainCountsCorrect ==
  ASSUME NoneRemovesEveryone
  PROVE  Spec => []RetainCountsAreExact
  <1>1. Spec => [](CenterInv /\ CountsInv)
    <2>1. Init => CenterInv /\ CountsInv
      BY CenterInit, CountsInit
    <2>2. (CenterInv /\ CountsInv) /\ [Next]_vars => (CenterInv /\ CountsInv)'
      BY CenterStep, CountsStep
    <2> QED
      BY <2>1, <2>2, PTL DEF Spec
  <1>2. CenterInv /\ CountsInv => RetainCountsAreExact
    BY DEF CountsInv
  <1> QED
    BY <1>1, <1>2, PTL

\* What a post matches fits the memory it has allocated for as many observers as
\* are counted (CFNotificationCenter.c, __CFInvokeCallBacks).
THEOREM MatchesFit ==
  ASSUME NoneRemovesEveryone
  PROVE  Spec => []MatchesFitAllocation
  <1>1. Spec => [](CenterInv /\ CountsInv)
    <2>1. Init => CenterInv /\ CountsInv
      BY CenterInit, CountsInit
    <2>2. (CenterInv /\ CountsInv) /\ [Next]_vars => (CenterInv /\ CountsInv)'
      BY CenterStep, CountsStep
    <2> QED
      BY <2>1, <2>2, PTL DEF Spec
  <1>2. CenterInv /\ CountsInv => MatchesFitAllocation
    BY DEF CountsInv
  <1> QED
    BY <1>1, <1>2, PTL

----------------------------------------------------------------------------
(* A post reaches the observers it is for.                                  *)

\* How many of what it has matched a post is through with, the one it calls
\* included.
Passed(f) ==
  Len(f.expected) - Len(f.matched) + (IF f.pc \in {"callback", "null"} THEN 1 ELSE 0)

\* Of those, what it has called are the ones that may still be called.
Reached(f, live) == Kept(f.expected, live)[Passed(f)] = Within(f.called, live)

\* The records that a post has matched are in use.
InUse(f, cells) == \A c \in ToSet(f.expected) : cells[c].observer # Null

ReachInv ==
  \A t \in Threads : \A d \in 1..Len(posts[t]) :
    Reached(posts[t][d], Live) /\ InUse(posts[t][d], cell)

\* When fewer records are live, or others than those of the post.
LEMMA ReachedByFewer ==
  ASSUME NEW f \in Frame, FrameOK(f), NEW L, NEW M, Reached(f, L),
         \A c \in ToSet(f.expected) : c \in M => c \in L
  PROVE  Reached(f, M)
  <1> DEFINE e == f.expected
             k == Passed(f)
             Q == Both(L, M)
  <1>q. Q = L \cap M
    BY DEF Both
  <1> HIDE DEF Q
  <1>1. /\ f.expected \in Seq(Cells) /\ f.called \in Seq(Cells) /\ f.matched \in Seq(Cells)
        /\ ToSet(f.called) \subseteq ToSet(f.expected)
    BY DEF Frame, FrameOK
  <1>2. k \in 0..Len(e)
    <2>1. Len(e) \in Nat /\ Len(f.matched) \in Nat /\ Len(f.matched) <= Len(e)
      BY <1>1, LenProperties DEF FrameOK
    <2>2. f.pc \in {"callback", "null"} => Len(f.matched) # 0
      <3>1. f.pc \in {"callback", "null"} => f.matched # <<>>
        BY DEF FrameOK
      <3> QED
        BY <1>1, <3>1, EmptySeq
    <2>3. \A a, b \in Nat : b <= a => a - b + 0 \in 0..a /\ (b # 0 => a - b + 1 \in 0..a)
      OBVIOUS
    <2>4. CASE f.pc \in {"callback", "null"}
      <3>1. k = Len(e) - Len(f.matched) + 1
        BY <2>4 DEF Passed
      <3> QED
        BY <2>1, <2>2, <2>3, <2>4, <3>1
    <2>5. CASE f.pc \notin {"callback", "null"}
      <3>1. k = Len(e) - Len(f.matched) + 0
        BY <2>5 DEF Passed
      <3> QED
        BY <2>1, <2>3, <3>1
    <2> QED
      BY <2>4, <2>5
  <1>t. \A s \in Seq(Cells) : \A i \in 0..Len(s) :
          Within(Kept(s, L)[i], M) = Kept(s, Q)[i]
    <2> TAKE s \in Seq(Cells)
    <2> TAKE i \in 0..Len(s)
    <2>1. \A j \in 0..Len(s) : Within(Kept(s, L)[j], M) = Kept(s, Q)[j]
      BY KeptTwice DEF Q
    <2> QED
      BY <2>1
  <1>3. Within(Kept(e, L)[k], M) = Kept(e, Q)[k]
    BY <1>1, <1>2, <1>t, Zenon
  <1>4. Within(Within(f.called, L), M) = Within(f.called, Q)
    <2>1. Len(f.called) \in 0..Len(f.called)
      BY <1>1, LenProperties
    <2>2. Within(Kept(f.called, L)[Len(f.called)], M) = Kept(f.called, Q)[Len(f.called)]
      BY <1>1, <2>1, <1>t, Zenon
    <2> QED
      BY <2>2 DEF Within
  <1>5. Kept(e, L)[k] = Within(f.called, L)
    BY DEF Reached
  <1>6. Kept(e, Q)[k] = Within(f.called, Q)
    BY <1>3, <1>4, <1>5
  <1>7. Kept(e, Q)[k] = Kept(e, M)[k]
    <2>1. \A j \in 1..Len(e) : e[j] \in Q <=> e[j] \in M
      BY <1>1, <1>q, MembersOfSeq
    <2> QED
      BY <1>1, <1>2, <2>1, KeptSame
  <1>8. Within(f.called, Q) = Within(f.called, M)
    <2>1. \A j \in 1..Len(f.called) : f.called[j] \in Q <=> f.called[j] \in M
      BY <1>1, <1>q, MembersOfSeq
    <2>2. Len(f.called) \in 0..Len(f.called)
      BY <1>1, LenProperties
    <2>3. Kept(f.called, Q)[Len(f.called)] = Kept(f.called, M)[Len(f.called)]
      BY <1>1, <2>1, <2>2, KeptSame
    <2> QED
      BY <2>3 DEF Within
  <1> QED
    BY <1>6, <1>7, <1>8 DEF Reached

\* What is through with one more record: the one at hand, skipped...
LEMMA ReachedSkip ==
  ASSUME NEW f \in Frame, FrameOK(f), f.matched # <<>>, NEW L, Reached(f, L),
         f.pc = "next" => Head(f.matched) \notin L,
         f.pc \in {"next", "callback"}
  PROVE  Reached(Past(f), L)
  <1> DEFINE e == f.expected
             k == Len(e) - Len(f.matched)
             c == Head(f.matched)
  <1>1. /\ Past(f).pc = "next" /\ Past(f).matched = Tail(f.matched)
        /\ Past(f).expected = e /\ Past(f).called = f.called
    BY PastFrame
  <1>2. /\ f.matched \in Seq(Cells) /\ Len(f.matched) \in Nat \ {0}
        /\ c = e[k + 1] /\ e \in Seq(Cells) /\ Len(e) \in Nat /\ k + 1 \in 1..Len(e)
    BY AtHand
  <1>3. Len(Past(f).matched) = Len(f.matched) - 1
    BY <1>1, <1>2
  <1>4. k \in Nat /\ (k + 1) - 1 = k /\ Passed(Past(f)) = k + 1
    <2>1. Passed(Past(f)) = Len(e) - (Len(f.matched) - 1) + 0
      BY <1>1, <1>3 DEF Passed
    <2>2. \A a, b \in Nat : b # 0 /\ a - b + 1 \in 1..a =>
            a - b \in Nat /\ (a - b + 1) - 1 = a - b /\ a - (b - 1) + 0 = a - b + 1
      OBVIOUS
    <2> QED
      BY <1>2, <2>1, <2>2
  <1>5. CASE f.pc = "callback"
    <2>1. Passed(f) = k + 1
      BY <1>5 DEF Passed
    <2> QED
      BY <1>1, <1>4, <2>1 DEF Reached
  <1>6. CASE f.pc = "next"
    <2>1. Passed(f) = k
      BY <1>4, <1>6 DEF Passed
    <2>2. Kept(e, L)[k + 1] = Kept(e, L)[k]
      <3>1. e[k + 1] \notin L
        BY <1>2, <1>6
      <3> HIDE DEF e, k
      <3>2. Kept(e, L)[k + 1] = IF e[k + 1] \in L THEN Append(Kept(e, L)[(k + 1) - 1], e[k + 1])
                                ELSE Kept(e, L)[(k + 1) - 1]
        BY <1>2, KeptDefined
      <3> QED
        BY <1>4, <3>1, <3>2
    <2> QED
      BY <1>1, <1>4, <2>1, <2>2 DEF Reached
  <1> QED
    BY <1>5, <1>6

\* ...or called.
LEMMA ReachedCall ==
  ASSUME NEW f \in Frame, FrameOK(f), f.matched # <<>>, NEW L, Reached(f, L),
         f.pc = "unlocked", NEW g \in Frame, g.pc \in {"callback", "null"},
         g.matched = f.matched, g.expected = f.expected,
         g.called = Append(f.called, Head(f.matched))
  PROVE  Reached(g, L)
  <1> DEFINE e == f.expected
             k == Len(e) - Len(f.matched)
             c == Head(f.matched)
  <1>1. /\ c = e[k + 1] /\ e \in Seq(Cells) /\ Len(e) \in Nat /\ k + 1 \in 1..Len(e)
        /\ c \in Cells /\ Len(f.matched) \in Nat
    BY AtHand
  <1>2. k \in Nat /\ (k + 1) - 1 = k /\ Passed(f) = k /\ Passed(g) = k + 1
    BY <1>1 DEF Passed
  <1>3. Kept(e, L)[k] = Within(f.called, L)
    BY <1>2 DEF Reached
  <1>4. f.called \in Seq(Cells)
    BY DEF Frame
  <1>w. \A s \in Seq(Cells), x \in Cells :
          /\ x \in L => Within(Append(s, x), L) = Append(Within(s, L), x)
          /\ x \notin L => Within(Append(s, x), L) = Within(s, L)
    BY WithinAppendIn, WithinAppendOut
  <1>5. g.called = Append(f.called, c)
    OBVIOUS
  <1> HIDE DEF e, k, c
  <1>6. Kept(e, L)[k + 1] = IF e[k + 1] \in L THEN Append(Kept(e, L)[(k + 1) - 1], e[k + 1])
                            ELSE Kept(e, L)[(k + 1) - 1]
    BY <1>1, KeptDefined
  <1>7. Kept(e, L)[k + 1] = Within(g.called, L)
    <2>1. CASE c \in L
      <3>1. Within(g.called, L) = Append(Within(f.called, L), c)
        BY <1>1, <1>4, <1>5, <2>1, <1>w, Zenon
      <3>2. Kept(e, L)[k + 1] = Append(Kept(e, L)[k], c)
        BY <1>1, <1>2, <1>6, <2>1
      <3> QED
        BY <1>3, <3>1, <3>2
    <2>2. CASE c \notin L
      <3>1. Within(g.called, L) = Within(f.called, L)
        BY <1>1, <1>4, <1>5, <2>2, <1>w, Zenon
      <3>2. Kept(e, L)[k + 1] = Kept(e, L)[k]
        BY <1>1, <1>2, <1>6, <2>2
      <3> QED
        BY <1>3, <3>1, <3>2
    <2> QED
      BY <2>1, <2>2
  <1> QED
    BY <1>2, <1>7 DEF Reached, e

\* No record comes back to life: those that are live have been, or were not in use.
NoneRevived ==
  \A c \in Cells : cell[c].observer # Null =>
    cell'[c].observer # Null /\ (cell'[c].callback => cell[c].callback)

LEMMA ReachKept ==
  ASSUME CenterInv, ReachInv, NoneRevived, NEW t \in Threads, NEW d \in 1..Len(posts[t])
  PROVE  Reached(posts[t][d], Live') /\ InUse(posts[t][d], cell')
  <1> DEFINE f == posts[t][d]
  <1>1. f \in Frame /\ FrameOK(f)
    BY CenterInvParts, FrameOfPost DEF CenterInv, FramesOK
  <1>2. Reached(f, Live) /\ InUse(f, cell)
    BY DEF ReachInv
  <1> HIDE DEF f
  <1>3. ToSet(f.expected) \subseteq Cells
    BY <1>1, MembersOfSeq DEF Frame
  <1>4. InUse(f, cell')
    BY <1>2, <1>3 DEF InUse, NoneRevived
  <1>5. \A c \in ToSet(f.expected) : c \in Live' => c \in Live
    BY <1>2, <1>3 DEF InUse, NoneRevived, Live
  <1>6. Reached(f, Live')
    <2> DEFINE L == Live
               M == Live'
    <2>1. Reached(f, L) /\ \A c \in ToSet(f.expected) : c \in M => c \in L
      BY <1>2, <1>5
    <2> HIDE DEF L, M
    <2>2. Reached(f, M)
      BY <1>1, <2>1, ReachedByFewer
    <2> QED
      BY <2>2 DEF M
  <1> QED
    BY <1>4, <1>6 DEF f

LEMMA SameRecordsRevive ==
  ASSUME SameRecords
  PROVE  NoneRevived
  BY DEF SameRecords, NoneRevived

LEMMA ReachSetTop ==
  ASSUME CenterInv, ReachInv, NoneRevived, NEW t \in Threads, posts[t] # <<>>,
         NEW f \in Frame, SetTop(t, f), Reached(f, Live'), InUse(f, cell')
  PROVE  ReachInv'
  <1>1. PostsTyped
    BY CenterInvParts
  <1>2. /\ \A u \in Threads : Len(posts'[u]) = Len(posts[u])
        /\ \A u \in Threads, d \in Nat : u # t \/ d # Len(posts[t]) =>
             posts'[u][d] = posts[u][d]
        /\ posts'[t][Len(posts[t])] = f
    BY <1>1, SetTopEffect
  <1>3. ASSUME NEW u \in Threads, NEW d \in 1..Len(posts'[u])
        PROVE  Reached(posts'[u][d], Live') /\ InUse(posts'[u][d], cell')
    <2>1. Len(posts[u]) \in Nat
      BY <1>1, FrameOfPost
    <2>2. d \in 1..Len(posts[u]) /\ d \in Nat
      BY <1>2, <2>1
    <2>3. CASE u # t \/ d # Len(posts[t])
      <3>1. posts'[u][d] = posts[u][d]
        BY <1>2, <2>2, <2>3
      <3>2. Reached(posts[u][d], Live') /\ InUse(posts[u][d], cell')
        BY <2>2, ReachKept
      <3> QED
        BY <3>1, <3>2
    <2>4. CASE u = t /\ d = Len(posts[t])
      BY <1>2, <2>4
    <2> QED
      BY <2>3, <2>4
  <1> QED
    BY <1>3 DEF ReachInv

LEMMA ReachSamePosts ==
  ASSUME CenterInv, ReachInv, NoneRevived, posts' = posts
  PROVE  ReachInv'
  <1>1. \A t \in Threads : \A d \in 1..Len(posts[t]) :
          Reached(posts[t][d], Live') /\ InUse(posts[t][d], cell')
    BY ReachKept
  <1> QED
    BY <1>1 DEF ReachInv

LEMMA ReachPost ==
  ASSUME CenterInv, ReachInv, NEW t \in Threads, NEW s \in Posted, Post(t, s)
  PROVE  ReachInv'
  <1>1. CellsTyped /\ PostsTyped /\ list \in Seq(Cells) /\ ListOK /\ FramesOK
    BY CenterInvParts DEF CenterInv
  <1>2. PICK m \in Seq(Cells) :
          LET f == [matched |-> m, pc |-> "next", expected |-> m, called |-> <<>>]
          IN /\ f \in Frame /\ posts' = [posts EXCEPT ![t] = Append(@, f)]
             /\ ToSet(m) \subseteq ToSet(list) /\ SameRecords
    BY <1>1, PostEffect, Zenon
  <1> DEFINE f == [matched |-> m, pc |-> "next", expected |-> m, called |-> <<>>]
  <1>3. /\ f \in Frame /\ posts' = [posts EXCEPT ![t] = Append(@, f)]
        /\ ToSet(m) \subseteq ToSet(list) /\ SameRecords
    BY <1>2, Zenon
  <1>4. f.matched = m /\ f.expected = m /\ f.called = <<>> /\ f.pc = "next"
    OBVIOUS
  <1> HIDE DEF f
  <1>5. Reached(f, Live')
    <2>1. Passed(f) = 0
      <3>1. Len(m) \in Nat
        BY LenProperties
      <3> QED
        BY <1>4, <3>1 DEF Passed
    <2> DEFINE M == Live'
    <2>2. Kept(m, M)[0] = <<>>
      BY KeptDefined
    <2>3. <<>> \in Seq(Cells) /\ Len(<<>>) = 0
      OBVIOUS
    <2>4. Kept(<<>>, M)[0] = <<>>
      <3>1. ASSUME NEW seq \in Seq(Cells) PROVE Kept(seq, M)[0] = <<>>
        BY KeptDefined, Zenon
      <3> QED
        BY <2>3, <3>1, Zenon
    <2> HIDE DEF M
    <2>5. Reached(f, M)
      BY <1>4, <2>1, <2>2, <2>3, <2>4 DEF Reached, Within
    <2> QED
      BY <2>5 DEF M
  <1>6. InUse(f, cell')
    <2>1. ToSet(list) \subseteq Cells
      BY <1>1, MembersOfSeq
    <2> QED
      BY <1>1, <1>3, <1>4, <2>1 DEF InUse, ListOK, SameRecords
  <1>7. NoneRevived
    BY <1>3, SameRecordsRevive
  <1>8. /\ Len(posts'[t]) = Len(posts[t]) + 1
        /\ posts'[t][Len(posts[t]) + 1] = f
        /\ \A d \in 1..Len(posts[t]) : posts'[t][d] = posts[t][d]
        /\ \A u \in Threads : u # t => posts'[u] = posts[u]
    BY <1>1, <1>3, PushEffect
  <1>9. ASSUME NEW u \in Threads, NEW d \in 1..Len(posts'[u])
        PROVE  Reached(posts'[u][d], Live') /\ InUse(posts'[u][d], cell')
    <2>1. Len(posts[t]) \in Nat
      BY <1>1, FrameOfPost
    <2>2. CASE u = t /\ d = Len(posts[t]) + 1
      BY <1>5, <1>6, <1>8, <2>2
    <2>3. CASE u # t \/ d # Len(posts[t]) + 1
      <3>1. d \in 1..Len(posts[u]) /\ posts'[u][d] = posts[u][d]
        BY <1>8, <2>1, <2>3
      <3>2. Reached(posts[u][d], Live') /\ InUse(posts[u][d], cell')
        BY <1>7, <3>1, ReachKept
      <3> QED
        BY <3>1, <3>2
    <2> QED
      BY <2>2, <2>3
  <1> QED
    BY <1>9 DEF ReachInv

LEMMA ReachPop ==
  ASSUME CenterInv, ReachInv, NEW t \in Threads, PostDone(t)
  PROVE  ReachInv'
  <1>1. PostsTyped /\ posts[t] # <<>> /\ posts' = [posts EXCEPT ![t] = Front(@)] /\ cell' = cell
    BY CenterInvParts DEF PostDone, At
  <1>2. /\ Len(posts'[t]) = Len(posts[t]) - 1
        /\ \A d \in 1..(Len(posts[t]) - 1) : posts'[t][d] = posts[t][d]
        /\ \A u \in Threads : u # t => posts'[u] = posts[u]
    BY <1>1, PopEffect
  <1>3. NoneRevived
    BY <1>1 DEF NoneRevived
  <1>4. ASSUME NEW u \in Threads, NEW d \in 1..Len(posts'[u])
        PROVE  Reached(posts'[u][d], Live') /\ InUse(posts'[u][d], cell')
    <2>1. Len(posts[t]) \in Nat
      BY <1>1, FrameOfPost
    <2>2. d \in 1..Len(posts[u]) /\ posts'[u][d] = posts[u][d]
      BY <1>2, <2>1
    <2>3. Reached(posts[u][d], Live') /\ InUse(posts[u][d], cell')
      BY <1>3, <2>2, ReachKept
    <2> QED
      BY <2>2, <2>3
  <1> QED
    BY <1>4 DEF ReachInv

\* A post goes on to its next record.
LEMMA ReachRelease ==
  ASSUME CenterInv, ReachInv, Sound, NEW t \in Threads,
         SkipRemoved(t) \/ CallbackReturns(t)
  PROVE  ReachInv'
  <1>1. CellsTyped /\ PostsTyped /\ list \in Seq(Cells) /\ ListOK /\ FramesOK
    BY CenterInvParts DEF CenterInv
  <1>2. /\ posts[t] # <<>> /\ Top(t).matched # <<>>
        /\ Release(t, Head(Top(t).matched))
    BY SkipOrReturn
  <1> DEFINE f == Top(t)
             n == Len(posts[t])
  <1>3. /\ f \in Frame /\ FrameOK(f) /\ Past(f) \in Frame /\ SetTop(t, Past(f))
        /\ SameRecords
    BY <1>1, <1>2, ReleaseEffect, Zenon
  <1>4. /\ f.pc = "next" => Head(f.matched) \notin Live
        /\ f.pc \in {"next", "callback"}
    BY DEF SkipRemoved, CallbackReturns, At, Live
  <1>5. f = posts[t][n] /\ n \in 1..n
    BY <1>1, <1>2, FrameOfPost
  <1>6. NoneRevived
    BY <1>3, SameRecordsRevive
  <1>7. Reached(f, Live') /\ InUse(f, cell')
    BY <1>5, <1>6, ReachKept
  <1>8. Head(f.matched) \in Cells /\ Head(f.matched) \in ToSet(f.expected)
    BY <1>2, <1>3, AtHand
  <1>9. InUse(f, cell)
    BY <1>5 DEF ReachInv
  <1> HIDE DEF f, n
  <1>10. f.pc = "next" => Head(f.matched) \notin Live'
    BY <1>4, <1>6, <1>8, <1>9 DEF Live, NoneRevived, InUse
  <1>11. Reached(Past(f), Live')
    <2> DEFINE M == Live'
    <2>1. Reached(f, M) /\ (f.pc = "next" => Head(f.matched) \notin M)
      BY <1>7, <1>10
    <2>2. f.matched # <<>>
      BY <1>2 DEF f
    <2> HIDE DEF M
    <2>3. Reached(Past(f), M)
      BY <1>3, <1>4, <2>1, <2>2, ReachedSkip
    <2> QED
      BY <2>3 DEF M
  <1>12. InUse(Past(f), cell')
    <2>1. Past(f).expected = f.expected
      BY <1>2, <1>3, PastFrame DEF f
    <2> QED
      BY <1>7, <2>1 DEF InUse
  <1> QED
    BY <1>2, <1>3, <1>6, <1>11, <1>12, ReachSetTop

LEMMA ReachOwn ==
  ASSUME CenterInv, ReachInv, NEW t \in Threads, Deliver(t) \/ CallBack(t)
  PROVE  ReachInv'
  <1>1. CellsTyped /\ PostsTyped /\ list \in Seq(Cells) /\ ListOK /\ FramesOK
    BY CenterInvParts DEF CenterInv
  <1>2. cell' = cell
    BY DEF Deliver, CallBack
  <1>3. NoneRevived /\ Live' = Live
    BY <1>2 DEF NoneRevived, Live
  <1>4. CASE Deliver(t)
    <2> DEFINE f == [Top(t) EXCEPT !.pc = "unlocked"]
    <2>1. /\ posts[t] # <<>> /\ f \in Frame /\ f.matched = Top(t).matched /\ SetTop(t, f)
          /\ f.pc = "unlocked" /\ f.expected = Top(t).expected /\ f.called = Top(t).called
      BY <1>1, <1>4, DeliverEffect, Zenon
    <2>2. Top(t).pc = "next"
      BY <1>4 DEF Deliver, At
    <2>3. Reached(Top(t), Live) /\ InUse(Top(t), cell)
      BY <1>1, <2>1, FrameOfPost DEF ReachInv
    <2> HIDE DEF f
    <2>4. Passed(f) = Passed(Top(t))
      BY <2>1, <2>2 DEF Passed
    <2>5. Reached(f, Live) /\ InUse(f, cell)
      BY <2>1, <2>3, <2>4 DEF Reached, InUse
    <2> QED
      BY <1>2, <1>3, <2>1, <2>5, ReachSetTop
  <1>5. CASE CallBack(t)
    <2>1. /\ posts[t] # <<>> /\ Top(t).pc = "unlocked" /\ Top(t).matched # <<>>
          /\ Top(t) \in Frame /\ FrameOK(Top(t))
      BY <1>1, <1>5, CallBackEffect, Zenon
    <2>2. PICK pc \in {"callback", "null"} :
            LET f == CalledNow(Top(t), pc, Head(Top(t).matched))
            IN /\ f \in Frame /\ f.pc = pc /\ f.matched = Top(t).matched
               /\ f.expected = Top(t).expected
               /\ f.called = Append(Top(t).called, Head(Top(t).matched))
               /\ SetTop(t, f)
      BY <1>1, <1>5, CallBackEffect, Zenon
    <2> DEFINE f == CalledNow(Top(t), pc, Head(Top(t).matched))
    <2>3. /\ f \in Frame /\ f.pc \in {"callback", "null"} /\ f.matched = Top(t).matched
          /\ f.expected = Top(t).expected
          /\ f.called = Append(Top(t).called, Head(Top(t).matched)) /\ SetTop(t, f)
      BY <2>2, Zenon
    <2>4. Reached(Top(t), Live) /\ InUse(Top(t), cell)
      BY <1>1, <2>1, FrameOfPost DEF ReachInv
    <2> HIDE DEF f
    <2>5. Reached(f, Live)
      BY <2>1, <2>3, <2>4, ReachedCall
    <2>6. InUse(f, cell)
      BY <2>3, <2>4 DEF InUse
    <2> QED
      BY <1>2, <1>3, <2>1, <2>3, <2>5, <2>6, ReachSetTop
  <1> QED
    BY <1>4, <1>5

LEMMA ReachClient ==
  ASSUME CenterInv, ReachInv, Sound, NEW t \in Threads, Client(t)
  PROVE  ReachInv'
  <1>1. CellsTyped /\ PostsTyped /\ list \in Seq(Cells) /\ ListOK /\ FramesOK
    BY CenterInvParts DEF CenterInv
  <1>2. ASSUME NEW c \in Cells, NEW o \in Observers, NEW s \in Added, AddObserver(t, c, o, s)
        PROVE  ReachInv'
    <2>1. /\ cell[c].observer = Null /\ \A e \in Cells : e # c => cell'[e] = cell[e]
          /\ posts' = posts
      BY <1>1, <1>2, AddObserverEffect
    <2>2. NoneRevived
      BY <2>1 DEF NoneRevived
    <2> QED
      BY <2>1, <2>2, ReachSamePosts
  <1>3. ASSUME NEW o \in Observers, NEW s \in Removed, RemoveObserver(t, o, s)
        PROVE  ReachInv'
    <2>1. SameRecords /\ posts' = posts
      BY <1>1, <1>3, RemoveObserverEffect, Zenon
    <2> QED
      BY <2>1, SameRecordsRevive, ReachSamePosts
  <1>4. ASSUME NEW o \in Observers, RemoveEveryObserver(t, o)
        PROVE  ReachInv'
    <2>1. SameRecords /\ posts' = posts
      BY <1>1, <1>4, RemoveEveryObserverEffect
    <2> QED
      BY <2>1, SameRecordsRevive, ReachSamePosts
  <1> QED
    BY <1>2, <1>3, <1>4, ReachPost DEF Client

LEMMA ReachStep ==
  ASSUME CenterInv, ReachInv, [Next]_vars
  PROVE  ReachInv'
  <1>1. CASE UNCHANGED vars
    <2>1. posts' = posts /\ cell' = cell
      BY <1>1 DEF vars
    <2>2. NoneRevived
      BY <2>1 DEF NoneRevived
    <2> QED
      BY <2>1, <2>2, ReachSamePosts
  <1>2. ASSUME Sound, NEW t \in Threads, Step(t) PROVE ReachInv'
    BY <1>2, ReachRelease, ReachOwn, ReachPop DEF Step
  <1> QED
    BY <1>1, <1>2, ReachClient DEF Next

\* However callbacks and other threads change the list, a post calls, once and in
\* the order of the list, every observer it has matched that is still there
\* (CFNotificationCenter.c, __CFInvokeCallBacks).
THEOREM PostsReach == Spec => []PostReachesAll
  <1>1. Spec => [](CenterInv /\ ReachInv)
    <2>1. Init => CenterInv /\ ReachInv
      <3>1. Init => ReachInv
        BY DEF Init, ReachInv
      <3> QED
        BY <3>1, CenterInit
    <2>2. (CenterInv /\ ReachInv) /\ [Next]_vars => (CenterInv /\ ReachInv)'
      BY CenterStep, ReachStep
    <2> QED
      BY <2>1, <2>2, PTL DEF Spec
  <1>2. CenterInv /\ ReachInv => PostReachesAll
    <2> SUFFICES ASSUME CenterInv, ReachInv, NEW t \in Threads,
                        At(t, "next"), Top(t).matched = <<>>
                 PROVE  Within(Top(t).expected, Live) = Within(Top(t).called, Live)
      BY DEF PostReachesAll
    <2>1. posts[t] # <<>> /\ Top(t).pc = "next"
      BY DEF At
    <2>2. Reached(Top(t), Live) /\ Top(t) \in Frame
      BY <2>1, CenterInvParts, FrameOfPost DEF ReachInv
    <2>3. Passed(Top(t)) = Len(Top(t).expected)
      <3>1. Len(Top(t).expected) \in Nat
        BY <2>2, LenProperties DEF Frame
      <3>2. Len(Top(t).matched) = 0
        OBVIOUS
      <3> QED
        BY <2>1, <3>1, <3>2 DEF Passed
    <2> QED
      BY <2>2, <2>3 DEF Reached, Within
  <1> QED
    BY <1>1, <1>2, PTL

\* What a center counts and calls is right, whatever its callbacks and other
\* threads do, unless every observer is removed at once.
THEOREM CentersCorrect ==
  ASSUME NoneRemovesEveryone
  PROVE  Spec => []CentersCountAndReach
  <1>1. TypeOK /\ RetainCountsAreExact /\ MatchesFitAllocation /\ PostReachesAll
          => CentersCountAndReach
    BY DEF CentersCountAndReach
  <1>2. Spec => []RetainCountsAreExact
    BY RetainCountsCorrect
  <1>3. Spec => []MatchesFitAllocation
    BY MatchesFit
  <1> QED
    BY <1>1, <1>2, <1>3, CenterTypeCorrect, PostsReach, PTL

----------------------------------------------------------------------------
(* A center used by one thread: between the unlock of a post and the call   *)
(* nobody removes the observer it is about to call.                         *)

OneThread == \A t, u \in Threads : t = u

Innermost(ps, t) == ps[t][Len(ps[t])]

\* The invariant: whoever is about to be called may be.
UnlockedOK ==
  \A t \in Threads :
    (posts[t] # <<>> /\ Innermost(posts, t).pc = "unlocked") =>
      cell[Head(Innermost(posts, t).matched)].callback

LEMMA InnermostSet ==
  ASSUME PostsTyped, NEW t \in Threads, posts[t] # <<>>, NEW f \in Frame, SetTop(t, f)
  PROVE  Innermost(posts', t) = f
  <1>1. posts'[t][Len(posts[t])] = f /\ Len(posts'[t]) = Len(posts[t])
    BY SetTopEffect
  <1> QED
    BY <1>1 DEF Innermost

\* Client code and the release of an observer leave no post unlocked.
LEMMA NotUnlockedAfter ==
  ASSUME CenterInv, Sound, NEW t \in Threads,
         Client(t) \/ SkipRemoved(t) \/ CallBack(t) \/ CallbackReturns(t) \/ PostDone(t)
  PROVE  posts'[t] = <<>> \/ Innermost(posts', t).pc # "unlocked"
  <1>1. CellsTyped /\ PostsTyped /\ list \in Seq(Cells) /\ ListOK /\ FramesOK
    BY CenterInvParts DEF CenterInv
  <1>2. CASE InClientCode(t) /\ posts' = posts
    <2>1. posts[t] = <<>> \/ Top(t).pc = "callback"
      BY <1>2 DEF InClientCode, At
    <2> QED
      BY <1>2, <2>1 DEF Top, Innermost
  <1>3. ASSUME NEW s \in Posted, Post(t, s)
        PROVE  Innermost(posts', t).pc # "unlocked"
    <2>1. PICK m \in Seq(Cells) :
            LET f == [matched |-> m, pc |-> "next", expected |-> m, called |-> <<>>]
            IN f \in Frame /\ posts' = [posts EXCEPT ![t] = Append(@, f)]
      <3> HIDE DEF CellsTyped, PostsTyped, FramesOK, ListOK
      <3> QED
        BY <1>1, <1>3, PostEffect, Zenon
    <2> DEFINE f == [matched |-> m, pc |-> "next", expected |-> m, called |-> <<>>]
    <2>2. f \in Frame /\ posts' = [posts EXCEPT ![t] = Append(@, f)] /\ f.pc = "next"
      BY <2>1
    <2> HIDE DEF f
    <2>3. Len(posts'[t]) = Len(posts[t]) + 1 /\ posts'[t][Len(posts[t]) + 1] = f
      BY <1>1, <2>2, PushEffect
    <2> QED
      BY <2>2, <2>3 DEF Innermost
  <1>4. CASE SkipRemoved(t) \/ CallbackReturns(t)
    <2>1. /\ posts[t] # <<>> /\ Top(t).matched # <<>>
          /\ Release(t, Head(Top(t).matched))
      BY <1>4, SkipOrReturn
    <2>2. Top(t) \in Frame /\ Past(Top(t)) \in Frame /\ SetTop(t, Past(Top(t)))
      BY <1>1, <2>1, ReleaseEffect, Zenon
    <2>3. Past(Top(t)).pc = "next"
      BY <2>2 DEF Past, Frame
    <2> QED
      BY <1>1, <2>1, <2>2, <2>3, InnermostSet
  <1>5. CASE CallBack(t)
    <2>1. posts[t] # <<>>
      BY <1>1, <1>5, CallBackEffect, Zenon
    <2>2. PICK pc \in {"callback", "null"} :
            LET f == CalledNow(Top(t), pc, Head(Top(t).matched))
            IN f \in Frame /\ f.pc = pc /\ SetTop(t, f)
      BY <1>1, <1>5, CallBackEffect, Zenon
    <2> DEFINE f == CalledNow(Top(t), pc, Head(Top(t).matched))
    <2>3. f \in Frame /\ f.pc # "unlocked" /\ SetTop(t, f)
      BY <2>2
    <2> HIDE DEF f
    <2> QED
      BY <1>1, <2>1, <2>3, InnermostSet
  <1>6. CASE PostDone(t)
    <2>1. posts[t] # <<>> /\ posts' = [posts EXCEPT ![t] = Front(@)]
      BY <1>6 DEF PostDone, At
    <2>2. /\ Len(posts'[t]) = Len(posts[t]) - 1 /\ PostsTyped'
          /\ \A d \in 1..(Len(posts[t]) - 1) : posts'[t][d] = posts[t][d]
      BY <1>1, <2>1, PopEffect
    <2>3. CASE posts'[t] # <<>>
      <3> DEFINE n == Len(posts[t])
      <3>1. n \in Nat /\ Len(posts'[t]) \in Nat \ {0}
        <4>1. posts'[t] \in Seq(Frame)
          BY <2>2 DEF PostsTyped
        <4> QED
          BY <1>1, <2>3, <4>1, FrameOfPost, EmptySeq
      <3>2. n - 1 \in 1..(n - 1) /\ n - 1 \in 1..n /\ n - 1 < n
        <4>1. \A i, j \in Nat : i # 0 /\ i = j - 1 => i \in 1..i /\ i \in 1..j /\ i < j
          OBVIOUS
        <4>2. Len(posts'[t]) = n - 1
          BY <2>2
        <4> HIDE DEF n
        <4> QED
          BY <3>1, <4>1, <4>2, Zenon
      <3>3. posts[t][n - 1].pc = "callback"
        BY <1>1, <3>2 DEF FramesOK
      <3>4. Innermost(posts', t) = posts[t][n - 1]
        BY <2>2, <3>2 DEF Innermost
      <3> QED
        BY <3>3, <3>4
    <2> QED
      BY <2>3
  <1> QED
    BY <1>2, <1>3, <1>4, <1>5, <1>6
       DEF Client, AddObserver, RemoveObserver, RemoveEveryObserver

LEMMA UnlockedStep ==
  ASSUME CenterInv, UnlockedOK, OneThread, [Next]_vars
  PROVE  UnlockedOK'
  <1>1. CASE UNCHANGED vars
    BY <1>1 DEF UnlockedOK, vars
  <1>2. ASSUME Sound, NEW t \in Threads, Client(t) \/ Step(t)
        PROVE  UnlockedOK'
    <2>1. \A u \in Threads : u = t
      BY DEF OneThread
    <2>2. CASE Deliver(t)
      <3>1. PostsTyped /\ FramesOK
        BY CenterInvParts DEF CenterInv
      <3> DEFINE f == [Top(t) EXCEPT !.pc = "unlocked"]
      <3>2. posts[t] # <<>> /\ f \in Frame /\ f.matched = Top(t).matched /\ SetTop(t, f)
        BY <2>2, <3>1, DeliverEffect, Zenon
      <3>3. cell' = cell /\ cell[Head(Top(t).matched)].callback
        BY <2>2 DEF Deliver
      <3> HIDE DEF f
      <3>4. Innermost(posts', t) = f
        BY <3>1, <3>2, InnermostSet
      <3>5. cell'[Head(Innermost(posts', t).matched)].callback
        BY <3>2, <3>3, <3>4
      <3> QED
        BY <2>1, <3>5 DEF UnlockedOK
    <2>3. CASE ~Deliver(t)
      <3>1. posts'[t] = <<>> \/ Innermost(posts', t).pc # "unlocked"
        BY <1>2, <2>3, NotUnlockedAfter DEF Step
      <3> QED
        BY <2>1, <3>1 DEF UnlockedOK
    <2> QED
      BY <2>2, <2>3
  <1> QED
    BY <1>1, <1>2 DEF Next

\* "callback is set to NULL when unlinking" (CFNotificationCenter.c,
\* __CFInvokeCallBacks): where one thread uses the center, an observer removed
\* from it is not called, not even through NULL.  With two threads it may be.
THEOREM RemovedIsNotCalledByOneThread ==
  ASSUME OneThread
  PROVE  Spec => RemovedIsNotCalled
  <1>1. Spec => [](CenterInv /\ UnlockedOK)
    <2>1. Init => CenterInv /\ UnlockedOK
      <3>1. Init => UnlockedOK
        BY DEF Init, UnlockedOK
      <3> QED
        BY <3>1, CenterInit
    <2>2. (CenterInv /\ UnlockedOK) /\ [Next]_vars => (CenterInv /\ UnlockedOK)'
      BY CenterStep, UnlockedStep
    <2> QED
      BY <2>1, <2>2, PTL DEF Spec
  <1>2. CenterInv /\ UnlockedOK => PresentIsCalled
    <2> SUFFICES ASSUME CenterInv, UnlockedOK, NEW t \in Threads, CallBack(t)
                 PROVE  LET c == Head(Top(t).matched) IN c \in ToSet(list) /\ cell[c].callback
      BY DEF PresentIsCalled
    <2>1. PostsTyped /\ ListOK /\ FramesOK
      BY CenterInvParts DEF CenterInv
    <2>2. /\ posts[t] # <<>> /\ Top(t).pc = "unlocked" /\ Head(Top(t).matched) \in Cells
      BY <2>1, CallBackEffect, Zenon
    <2>3. cell[Head(Top(t).matched)].callback
      BY <2>2 DEF UnlockedOK, Innermost, Top
    <2> QED
      BY <2>1, <2>2, <2>3 DEF ListOK
  <1>3. CenterInv /\ UnlockedOK => [PresentIsCalled]_vars
    BY <1>2
  <1> QED
    BY <1>1, <1>3, PTL DEF RemovedIsNotCalled

----------------------------------------------------------------------------
(* What is listened for, where a distributed center's observers are removed  *)
(* by a name and an object (a removal by one of them takes other signatures  *)
(* off the table than it was asked for).                                     *)

WholeSignatures ==
  Kind = "distributed" =>
    \A s \in Removed : s = <<Null, Null>> \/ (s[1] # Null /\ s[2] # Null)

Asking(cells, l, k) == {c \in ToSet(l) : Key(cells[c].name, cells[c].object) = k}

\* The count of one notification, if registering for it has failed or not.
Counted(count, asking, hasFailed) ==
  count <= Cardinality(asking) /\ (~hasFailed => count = Cardinality(asking))

LEMMA TableIs ==
  TableCountsObservers <=>
    (Kind # "local" => \A k \in Keys :
       Counted(listening[k], Asking(cell, list, k), k \in failed))
  BY DEF TableCountsObservers, Counted, ObserversFor, Asking

LEMMA TableIsThen ==
  (Kind # "local" => \A k \in Keys :
     Counted(listening'[k], Asking(cell', list', k), k \in failed'))
    => TableCountsObservers'
  BY DEF TableCountsObservers, Counted, ObserversFor, Asking

LEMMA AskingIsFinite ==
  ASSUME list \in Seq(Cells), NEW k
  PROVE  /\ Asking(cell, list, k) \subseteq Cells
         /\ IsFiniteSet(Asking(cell, list, k)) /\ Cardinality(Asking(cell, list, k)) \in Nat
  <1>1. Asking(cell, list, k) \subseteq Cells
    BY MembersOfSeq DEF Asking
  <1> HIDE DEF Asking
  <1>2. IsFiniteSet(Asking(cell, list, k))
    BY <1>1, CenterAssumption, FS_Subset
  <1> QED
    BY <1>1, <1>2, FS_CardinalityType, Zenon

\* Neither the list nor what its records are of changes.
LEMMA TableKept ==
  ASSUME list \in Seq(Cells), TableCountsObservers, SameRecords,
         list' = list, UNCHANGED table
  PROVE  TableCountsObservers'
  <1>1. ToSet(list) \subseteq Cells
    BY MembersOfSeq
  <1>2. \A k \in Keys : Asking(cell', list', k) = Asking(cell, list, k)
    BY <1>1 DEF Asking, SameRecords
  <1>3. Kind # "local" => \A k \in Keys :
          Counted(listening[k], Asking(cell, list, k), k \in failed)
    BY TableIs
  <1>4. listening' = listening /\ failed' = failed
    BY DEF table
  <1> QED
    BY <1>2, <1>3, <1>4, TableIsThen

LEMMA AddObserverTable ==
  ASSUME CenterInv, TableCountsObservers, NEW t \in Threads, NEW c \in Cells,
         NEW o \in Observers, NEW s \in Added, AddObserver(t, c, o, s)
  PROVE  TableCountsObservers'
  <1>1. /\ CellsTyped /\ list \in Seq(Cells) /\ ListOK
        /\ listening \in [Keys -> Nat] /\ failed \subseteq Keys
    BY CenterInvParts DEF CenterInv, TypeOK
  <1>2. /\ \A e \in Cells : e # c => cell'[e] = cell[e]
        /\ cell'[c].name = s[1] /\ cell'[c].object = s[2]
        /\ c \notin ToSet(list) /\ ToSet(list') = ToSet(list) \cup {c}
    <2>1. CellsTyped /\ ListOK /\ list \in Seq(Cells)
      BY <1>1
    <2>2. \A e \in Cells : e # c => cell'[e] = cell[e]
      BY <2>1, AddObserverEffect
    <2>3. c \notin ToSet(list) /\ ToSet(list') = ToSet(list) \cup {c}
      BY <2>1, AddObserverEffect
    <2>4. cell'[c].name = s[1] /\ cell'[c].object = s[2]
      BY <2>1 DEF AddObserver, CellsTyped
    <2> QED
      BY <2>2, <2>3, <2>4
  <1>3. ToSet(list) \subseteq Cells
    BY <1>1, MembersOfSeq
  <1> DEFINE key == Key(s[1], s[2])
  <1>4. \/ Kind = "local"
        \/ listening' = [listening EXCEPT ![key] = listening[key] + 1] /\ failed' = failed
        \/ /\ failed' = failed \cup {key} /\ listening' = listening /\ listening[key] = 0
    BY Zenon DEF AddObserver, AddNotification
  <1>5. c \notin Asking(cell, list, key)
    BY <1>2 DEF Asking
  <1>6. Asking(cell', list', key) = Asking(cell, list, key) \cup {c}
    BY <1>2, <1>3 DEF Asking
  <1>7. \A k \in Keys : k # key => Asking(cell', list', k) = Asking(cell, list, k)
    BY <1>2, <1>3 DEF Asking
  <1> HIDE DEF key
  <1>8. \A k \in Keys : /\ IsFiniteSet(Asking(cell, list, k))
                        /\ Cardinality(Asking(cell, list, k)) \in Nat
    BY <1>1, AskingIsFinite
  <1>9. /\ IsFiniteSet(Asking(cell, list, key)) /\ Cardinality(Asking(cell, list, key)) \in Nat
    BY <1>1, AskingIsFinite
  <1>10. Cardinality(Asking(cell', list', key)) = Cardinality(Asking(cell, list, key)) + 1
    BY <1>5, <1>6, <1>9, FS_AddElement
  <1>11. ASSUME Kind # "local", NEW k \in Keys
         PROVE  Counted(listening'[k], Asking(cell', list', k), k \in failed')
    <2>1. /\ listening[k] \in Nat
          /\ listening[k] <= Cardinality(Asking(cell, list, k))
          /\ k \notin failed => listening[k] = Cardinality(Asking(cell, list, k))
      BY <1>1, <1>11, TableIs DEF Counted
    <2>2. CASE k = key
      <3>1. CASE listening'[k] = listening[k] + 1 /\ failed' = failed
        BY <1>9, <1>10, <2>1, <2>2, <3>1 DEF Counted
      <3>2. CASE failed' = failed \cup {k} /\ listening'[k] = 0
        BY <1>9, <1>10, <2>2, <3>2 DEF Counted
      <3> QED
        BY <1>1, <1>4, <1>11, <2>2, <3>1, <3>2
    <2>3. CASE k # key
      <3>1. listening'[k] = listening[k] /\ (k \in failed' <=> k \in failed)
        BY <1>1, <1>4, <1>11, <2>3
      <3>2. Asking(cell', list', k) = Asking(cell, list, k)
        BY <1>7, <2>3
      <3> QED
        BY <2>1, <3>1, <3>2 DEF Counted
    <2> QED
      BY <2>2, <2>3
  <1> QED
    BY <1>11, TableIsThen

\* Whoever is removed has the signature asked for.
LEMMA GoneHasTheKey ==
  ASSUME CenterInv, WholeSignatures, Kind # "local", NEW o, NEW s \in Removed,
         s[1] # Null \/ (s[2] # Null /\ Kind # "darwin"),
         NEW c \in ToSet(list), IsRemovedBy(c, o, s[1], ObjectOf(s))
  PROVE  Key(cell[c].name, cell[c].object) = Key(s[1], ObjectOf(s))
  <1>1. CASE Kind = "darwin"
    <2>1. s[1] # Null /\ s[1] = cell[c].name
      BY <1>1 DEF IsRemovedBy
    <2> QED
      BY <1>1, <2>1 DEF Key
  <1>2. CASE Kind = "distributed"
    <2>1. s # <<Null, Null>>
      <3>1. <<Null, Null>>[1] = Null /\ <<Null, Null>>[2] = Null
        OBVIOUS
      <3> QED
        BY <3>1
    <2>2. s[1] # Null /\ s[2] # Null
      BY <1>2, <2>1 DEF WholeSignatures
    <2>3. s[1] = cell[c].name /\ s[2] = cell[c].object /\ ObjectOf(s) = s[2]
      BY <1>2, <2>2 DEF IsRemovedBy, ObjectOf
    <2> QED
      BY <2>3
  <1> QED
    BY <1>1, <1>2, CenterAssumption

LEMMA RemoveObserverTable ==
  ASSUME CenterInv, TableCountsObservers, WholeSignatures, Sound, NEW t \in Threads,
         NEW o \in Observers, NEW s \in Removed, RemoveObserver(t, o, s)
  PROVE  TableCountsObservers'
  <1>1. /\ CellsTyped /\ list \in Seq(Cells) /\ ListOK
        /\ listening \in [Keys -> Nat] /\ failed \subseteq Keys
    BY CenterInvParts DEF CenterInv, TypeOK
  <1> DEFINE gone == {c \in ToSet(list) : IsRemovedBy(c, o, s[1], ObjectOf(s))}
             key == Key(s[1], ObjectOf(s))
  <1>2. /\ s[1] # Null \/ (s[2] # Null /\ Kind # "darwin")
        /\ IsFiniteSet(gone) /\ Cardinality(gone) \in Nat
        /\ SameRecords /\ ToSet(list') = ToSet(list) \ gone
        /\ listening' = AfterRemoval(s[1], ObjectOf(s), Cardinality(gone))
        /\ failed' = failed
    <2> HIDE DEF CellsTyped, ListOK, SameRecords
    <2> QED
      BY <1>1, RemoveObserverEffect, Zenon
  <1>3. ToSet(list) \subseteq Cells
    BY <1>1, MembersOfSeq
  <1> SUFFICES ASSUME Kind # "local"
               PROVE  TableCountsObservers'
    BY DEF TableCountsObservers
  <1>4. gone \subseteq Asking(cell, list, key)
    BY <1>2, GoneHasTheKey DEF Asking
  <1>5. gone \subseteq ToSet(list)
    OBVIOUS
  <1> DEFINE n == Cardinality(gone)
  <1>6. listening' = [listening EXCEPT ![key] = IF @ > n THEN @ - n ELSE 0]
    BY <1>2, Zenon DEF AfterRemoval
  <1> HIDE DEF gone, key
  <1>7. \A k \in Keys : Asking(cell', list', k) = Asking(cell, list, k) \ gone
    BY <1>2, <1>3 DEF Asking, SameRecords
  <1>8. \A k \in Keys : k # key => Asking(cell', list', k) = Asking(cell, list, k)
    <2>1. \A k \in Keys : k # key => \A c \in gone : c \notin Asking(cell, list, k)
      BY <1>4 DEF Asking
    <2> QED
      BY <1>7, <2>1
  <1>9. ASSUME NEW k \in Keys
        PROVE  Counted(listening'[k], Asking(cell', list', k), k \in failed')
    <2>1. /\ listening[k] \in Nat
          /\ listening[k] <= Cardinality(Asking(cell, list, k))
          /\ k \notin failed => listening[k] = Cardinality(Asking(cell, list, k))
      BY <1>1, TableIs DEF Counted
    <2>2. IsFiniteSet(Asking(cell, list, k)) /\ Cardinality(Asking(cell, list, k)) \in Nat
      BY <1>1, AskingIsFinite
    <2>3. CASE k = key
      <3> DEFINE asking == Asking(cell, list, k)
      <3>1. Asking(cell', list', k) = asking \ gone
        BY <1>7
      <3>2. asking \cap gone = gone /\ gone \in SUBSET asking
        BY <1>4, <2>3
      <3>3. Cardinality(asking \ gone) = Cardinality(asking) - Cardinality(asking \cap gone)
        <4> HIDE DEF asking
        <4> QED
          BY <2>2, FS_Difference, Zenon DEF asking
      <3>4. Cardinality(gone) <= Cardinality(asking)
        BY <2>2, <3>2, FS_Subset
      <3>5. listening'[k] = IF listening[k] > n THEN listening[k] - n ELSE 0
        BY <1>1, <1>6, <2>3
      <3> HIDE DEF asking
      <3>6. \A a, b, i \in Nat : i <= b /\ a <= b =>
              /\ (IF i > a THEN i - a ELSE 0) <= b - a
              /\ i = b => (IF i > a THEN i - a ELSE 0) = b - a
        OBVIOUS
      <3>7. /\ listening'[k] <= Cardinality(asking) - n
            /\ k \notin failed => listening'[k] = Cardinality(asking) - n
        BY <1>2, <2>1, <2>2, <3>4, <3>5, <3>6 DEF asking
      <3> QED
        BY <1>2, <3>1, <3>2, <3>3, <3>7 DEF Counted
    <2>4. CASE k # key
      <3>1. listening'[k] = listening[k]
        BY <1>1, <1>6, <2>4
      <3>2. Asking(cell', list', k) = Asking(cell, list, k)
        BY <1>8, <2>4
      <3> QED
        BY <1>2, <2>1, <3>1, <3>2 DEF Counted
    <2> QED
      BY <2>3, <2>4
  <1> QED
    BY <1>9, TableIsThen

LEMMA TableStep ==
  ASSUME CenterInv, TableCountsObservers, WholeSignatures, [Next]_vars
  PROVE  TableCountsObservers'
  <1>1. /\ CellsTyped /\ PostsTyped /\ list \in Seq(Cells) /\ ListOK /\ FramesOK
    BY CenterInvParts DEF CenterInv
  <1>2. CASE UNCHANGED vars
    <2>1. SameRecords /\ list' = list /\ UNCHANGED table
      BY <1>2 DEF vars, SameRecords
    <2> QED
      BY <1>1, <2>1, TableKept
  <1>3. ASSUME Sound, NEW t \in Threads, NEW o \in Observers, RemoveEveryObserver(t, o)
        PROVE  TableCountsObservers'
    <2>1. SameRecords /\ list' = list /\ UNCHANGED table
      BY <1>1, <1>3, RemoveEveryObserverEffect
    <2> QED
      BY <1>1, <2>1, TableKept
  <1>4. ASSUME NEW t \in Threads, NEW s \in Posted, Post(t, s)
        PROVE  TableCountsObservers'
    <2>1. PICK m \in Seq(Cells) : SameRecords /\ UNCHANGED <<list, observersCount, table>>
      <3> HIDE DEF CellsTyped, PostsTyped, FramesOK, ListOK, SameRecords
      <3> QED
        BY <1>1, <1>4, PostEffect, Zenon
    <2> QED
      BY <1>1, <2>1, TableKept
  <1>5. ASSUME Sound, NEW t \in Threads, Step(t)
        PROVE  TableCountsObservers'
    <2>1. SameRecords /\ UNCHANGED <<list, table>>
      <3>1. CASE SkipRemoved(t) \/ CallbackReturns(t)
        BY <1>1, <1>5, <3>1, SkipOrReturn, ReleaseEffect
      <3>2. CASE Deliver(t) \/ CallBack(t) \/ PostDone(t)
        BY <3>2 DEF Deliver, CallBack, PostDone, SameRecords
      <3> QED
        BY <1>5, <3>1, <3>2 DEF Step
    <2> QED
      BY <1>1, <2>1, TableKept
  <1> QED
    BY <1>2, <1>3, <1>4, <1>5, AddObserverTable, RemoveObserverTable DEF Next, Client

\* "When the first notification with a unique signature is added (or the last is
\* removed) we make a call to the ddistnoted daemon" (CFNotificationCenter.c):
\* nothing is listened for that no observer asks for, and unless registering has
\* failed the table counts the observers of each signature.
THEOREM TableCounts ==
  ASSUME WholeSignatures
  PROVE  Spec => []TableCountsObservers
  <1>1. Init => CenterInv /\ TableCountsObservers
    <2> SUFFICES ASSUME Init PROVE TableCountsObservers
      BY CenterInit
    <2>1. ToSet(list) = {}
      BY NoMembers DEF Init
    <2>2. \A k \in Keys : ObserversFor(k) = {}
      BY <2>1 DEF ObserversFor
    <2>3. \A k \in Keys : listening[k] = 0
      BY DEF Init
    <2> QED
      BY <2>2, <2>3, FS_EmptySet DEF TableCountsObservers
  <1>2. (CenterInv /\ TableCountsObservers) /\ [Next]_vars
          => (CenterInv /\ TableCountsObservers)'
    BY CenterStep, TableStep
  <1> QED
    BY <1>1, <1>2, PTL DEF Spec
=============================================================================
