------------------------ MODULE MessageRequestProofs ------------------------
(* Requests and their replies, for every number of threads, of requests that *)
(* are within each other and of conversations: while a request waits its run *)
(* loop hears the reply port, no key stays behind, and a reply that was      *)
(* handled in time is returned.  The argument rests on conversations having  *)
(* numbers of their own, which they have until the counter wraps.            *)
EXTENDS MessageRequest, SequenceTheorems, TLAPS

-----------------------------------------------------------------------------
(* Stacks: what replacing the first, adding before it and dropping it does.  *)

LEMMA FirstReplaced ==
  ASSUME NEW T, NEW s \in Seq(T), s # <<>>, NEW x \in T
  PROVE  /\ <<x>> \o Tail(s) \in Seq(T) /\ Len(<<x>> \o Tail(s)) = Len(s)
         /\ (<<x>> \o Tail(s))[1] = x
         /\ \A i \in 1..Len(s) : i > 1 => (<<x>> \o Tail(s))[i] = s[i]
PROOF
<1>1. Tail(s) \in Seq(T) /\ Len(Tail(s)) = Len(s) - 1 /\ Len(s) \in Nat \ {0}
  BY EmptySeq
<1>2. <<x>> \in Seq(T) /\ Len(<<x>>) = 1 /\ <<x>>[1] = x OBVIOUS
<1>3. \A i \in 1..Len(Tail(s)) : Tail(s)[i] = s[i + 1] OBVIOUS
<1> DEFINE q == Tail(s)
           p == <<x>>
<1>4. p \o q \in Seq(T) /\ Len(p \o q) = Len(s)
  <2> HIDE DEF p, q
  <2> QED BY <1>1, <1>2 DEF p, q
<1>5. (p \o q)[1] = x
  BY <1>1, <1>2, ConcatProperties
<1>6. \A i \in 1..Len(s) : i > 1 => (p \o q)[i] = q[i - 1]
  BY <1>1, <1>2, ConcatProperties
<1> QED BY <1>1, <1>3, <1>4, <1>5, <1>6

LEMMA FirstAdded ==
  ASSUME NEW T, NEW s \in Seq(T), NEW x \in T
  PROVE  /\ <<x>> \o s \in Seq(T) /\ Len(<<x>> \o s) = Len(s) + 1
         /\ (<<x>> \o s)[1] = x
         /\ \A i \in 1..(Len(s) + 1) : i > 1 => (<<x>> \o s)[i] = s[i - 1]
PROOF
<1>1. <<x>> \in Seq(T) /\ Len(<<x>>) = 1 /\ <<x>>[1] = x OBVIOUS
<1> QED BY <1>1, ConcatProperties

LEMMA FirstDropped ==
  ASSUME NEW T, NEW s \in Seq(T), s # <<>>
  PROVE  /\ Tail(s) \in Seq(T) /\ Len(Tail(s)) = Len(s) - 1 /\ Len(s) \in Nat \ {0}
         /\ \A i \in 1..(Len(s) - 1) : Tail(s)[i] = s[i + 1]
PROOF
  BY EmptySeq

-----------------------------------------------------------------------------
(* The invariant. *)

Places(t) == 1..Len(requests[t])

\* While the port is valid a thread hears it that is in a request, and it is
\* the outermost request that will take the source out again.
OutermostRegisters ==
  valid => \A t \in Threads :
    /\ t \in hears <=> requests[t] # <<>>
    /\ \A i \in Places(t) : requests[t][i].registered <=> i = Len(requests[t])

\* The requests that others are within are running the loop.
OuterRun == \A t \in Threads : \A i \in Places(t) : i > 1 => requests[t][i].pc = "run"

\* A number that has been given is the negative of one that was counted; the
\* counter wraps at most once, and is at an end then.
Given(id, counter) == id < 0 /\ (counter >= 0 => -counter <= id)
NumbersAreGiven ==
  /\ \A t \in Threads : \A i \in Places(t) : Given(requests[t][i].id, conv)
  /\ \A id \in timely : Given(id, conv)

\* No two requests have one number.
OneNumberEach ==
  \A t, u \in Threads : \A i \in Places(t), j \in Places(u) :
    requests[t][i].id = requests[u][j].id => t = u /\ i = j

KeysHaveRequests ==
  \A id \in Ids : replies[id] # "none" =>
    id \in orphans \/ \E t \in Threads : \E i \in Places(t) : requests[t][i].id = id

\* The reply of a request that has had it in time stays until it is looked at,
\* and the request has seen it when it decides.
TimelyIsKept ==
  \A t \in Threads : \A i \in Places(t) : requests[t][i].id \in timely =>
    /\ replies[requests[t][i].id] = "reply"
    /\ requests[t][i].pc \in {"decide", "finish"} => requests[t][i].got

Structure == OutermostRegisters /\ OuterRun /\ NumbersAreGiven /\ OneNumberEach /\ KeysHaveRequests
RequestInv == TypeOK /\ Structure /\ TimelyIsKept

-----------------------------------------------------------------------------
(* What the kinds of steps do to the stacks. *)

LEMMA FirstChanges ==
  ASSUME TypeOK, NEW t \in Threads, requests[t] # <<>>, NEW r \in Request, Become(t, r)
  PROVE  /\ requests' \in [Threads -> Seq(Request)]
         /\ \A u \in Threads : Len(requests'[u]) = Len(requests[u])
         /\ Len(requests[t]) \in Nat \ {0}
         /\ requests'[t][1] = r
         /\ \A u \in Threads : \A i \in Places(u) :
              u # t \/ i > 1 => requests'[u][i] = requests[u][i]
PROOF
<1>1. requests \in [Threads -> Seq(Request)] /\ requests[t] \in Seq(Request)
  BY DEF TypeOK
<1>2. requests' = [requests EXCEPT ![t] = <<r>> \o Tail(requests[t])]
  BY DEF Become
<1>3. Len(requests[t]) \in Nat \ {0}
  BY <1>1, EmptySeq
<1> DEFINE q == <<r>> \o Tail(requests[t])
<1>4. q \in Seq(Request) /\ Len(q) = Len(requests[t]) /\ q[1] = r
      /\ \A i \in 1..Len(requests[t]) : i > 1 => q[i] = requests[t][i]
  BY <1>1, FirstReplaced
<1>5. requests' = [requests EXCEPT ![t] = q]
  BY <1>2
<1> HIDE DEF q
<1> QED BY <1>1, <1>3, <1>4, <1>5 DEF Places

LEMMA FirstLeaves ==
  ASSUME TypeOK, NEW t \in Threads, requests[t] # <<>>,
         requests' = [requests EXCEPT ![t] = Tail(@)]
  PROVE  /\ requests' \in [Threads -> Seq(Request)]
         /\ Len(requests[t]) \in Nat \ {0} /\ Len(requests'[t]) = Len(requests[t]) - 1
         /\ \A u \in Threads \ {t} : requests'[u] = requests[u]
         /\ \A i \in 1..(Len(requests[t]) - 1) : requests'[t][i] = requests[t][i + 1]
PROOF
<1>1. requests \in [Threads -> Seq(Request)] /\ requests[t] \in Seq(Request)
  BY DEF TypeOK
<1> DEFINE q == Tail(requests[t])
<1>2. q \in Seq(Request) /\ Len(q) = Len(requests[t]) - 1 /\ Len(requests[t]) \in Nat \ {0}
      /\ \A i \in 1..(Len(requests[t]) - 1) : q[i] = requests[t][i + 1]
  BY <1>1, FirstDropped
<1>3. requests' = [requests EXCEPT ![t] = q]
  OBVIOUS
<1> HIDE DEF q
<1> QED BY <1>1, <1>2, <1>3

LEMMA FirstComes ==
  ASSUME TypeOK, NEW t \in Threads, NEW r \in Request,
         requests' = [requests EXCEPT ![t] = <<r>> \o @]
  PROVE  /\ requests' \in [Threads -> Seq(Request)]
         /\ Len(requests[t]) \in Nat /\ Len(requests'[t]) = Len(requests[t]) + 1
         /\ \A u \in Threads \ {t} : requests'[u] = requests[u]
         /\ requests'[t][1] = r
         /\ \A i \in Places(t)' : i > 1 => requests'[t][i] = requests[t][i - 1]
PROOF
<1>1. requests \in [Threads -> Seq(Request)] /\ requests[t] \in Seq(Request)
  BY DEF TypeOK
<1> DEFINE q == <<r>> \o requests[t]
<1>2. q \in Seq(Request) /\ Len(q) = Len(requests[t]) + 1 /\ q[1] = r
      /\ \A i \in 1..(Len(requests[t]) + 1) : i > 1 => q[i] = requests[t][i - 1]
  BY <1>1, FirstAdded
<1>3. requests' = [requests EXCEPT ![t] = q]
  OBVIOUS
<1>4. Len(requests[t]) \in Nat
  BY <1>1
<1> HIDE DEF q
<1>5. requests'[t] = q
  BY <1>1, <1>3
<1> QED BY <1>1, <1>2, <1>3, <1>4, <1>5 DEF Places

-----------------------------------------------------------------------------
(* A step after which the same requests are there, with the same numbers. *)

LEMMA SameRequestsKeepStructure ==
  ASSUME TypeOK, Structure, requests' \in [Threads -> Seq(Request)],
         \A u \in Threads : Len(requests'[u]) = Len(requests[u]),
         \A u \in Threads : \A i \in Places(u) :
           /\ requests'[u][i].id = requests[u][i].id
           /\ requests'[u][i].registered = requests[u][i].registered
           /\ i > 1 => requests'[u][i].pc = requests[u][i].pc,
         UNCHANGED <<conv, orphans>>, valid' => valid /\ hears' = hears,
         \A i \in Ids : replies'[i] # "none" => replies[i] # "none",
         \A id \in timely' : Given(id, conv)
  PROVE  Structure'
PROOF
<1>1. \A u \in Threads : Places(u)' = Places(u)
  BY DEF Places
<1>2. \A u \in Threads : requests'[u] # <<>> <=> requests[u] # <<>>
  <2> TAKE u \in Threads
  <2>1. requests[u] \in Seq(Request) /\ requests'[u] \in Seq(Request)
    BY DEF TypeOK
  <2> QED BY <2>1, EmptySeq
<1>3. OutermostRegisters'
  BY <1>1, <1>2 DEF Structure, OutermostRegisters
<1>4. OuterRun'
  BY <1>1 DEF Structure, OuterRun
<1>5. NumbersAreGiven'
  BY <1>1 DEF Structure, NumbersAreGiven
<1>6. OneNumberEach'
  BY <1>1 DEF Structure, OneNumberEach
<1>7. KeysHaveRequests'
  BY <1>1 DEF Structure, KeysHaveRequests
<1> QED BY <1>3, <1>4, <1>5, <1>6, <1>7 DEF Structure

(* The steps of the innermost request, but the last. *)

LEMMA WorkKeepsStructure ==
  ASSUME TypeOK, Structure, NEW t \in Threads, requests[t] # <<>>, NEW r \in Request,
         r.id = Top(t).id, r.registered = Top(t).registered,
         Become(t, r), UNCHANGED <<valid, conv, hears, orphans>>,
         \A i \in Ids : replies'[i] # "none" => replies[i] # "none",
         \A id \in timely' : Given(id, conv)
  PROVE  Structure'
PROOF
<1>1. /\ \A u \in Threads : Len(requests'[u]) = Len(requests[u])
      /\ Len(requests[t]) \in Nat \ {0}
      /\ requests'[t][1] = r
      /\ \A u \in Threads : \A i \in Places(u) :
           u # t \/ i > 1 => requests'[u][i] = requests[u][i]
      /\ requests' \in [Threads -> Seq(Request)]
  BY FirstChanges
<1>2. \A u \in Threads : \A i \in Places(u) : i \in Nat \ {0} /\ (i = 1 \/ i > 1)
  <2>1. \A u \in Threads : Len(requests[u]) \in Nat
    BY DEF TypeOK
  <2> QED BY <2>1 DEF Places
<1>3. \A u \in Threads : \A i \in Places(u) :
        /\ requests'[u][i].id = requests[u][i].id
        /\ requests'[u][i].registered = requests[u][i].registered
        /\ i > 1 => requests'[u][i].pc = requests[u][i].pc
  BY <1>1, <1>2 DEF Top
<1> QED BY <1>1, <1>3, SameRequestsKeepStructure

LEMMA WorkKeepsTimely ==
  ASSUME TypeOK, Structure, TimelyIsKept, NEW t \in Threads, requests[t] # <<>>, NEW r \in Request,
         r.id = Top(t).id, Become(t, r),
         \A id \in Ids : replies[id] = "reply" => replies'[id] = "reply",
         \A id \in timely' : id \in timely \/ (replies'[id] = "reply" /\ \E i \in Places(t) : requests[t][i].id = id),
         r.id \in timely' /\ r.pc \in {"decide", "finish"} => r.got
  PROVE  TimelyIsKept'
PROOF
<1>1. /\ \A u \in Threads : Len(requests'[u]) = Len(requests[u])
      /\ Len(requests[t]) \in Nat \ {0}
      /\ requests'[t][1] = r
      /\ \A u \in Threads : \A i \in Places(u) :
           u # t \/ i > 1 => requests'[u][i] = requests[u][i]
  BY FirstChanges
<1> SUFFICES ASSUME NEW u \in Threads, NEW i \in Places(u)', requests'[u][i].id \in timely'
    PROVE  /\ replies'[requests'[u][i].id] = "reply"
           /\ requests'[u][i].pc \in {"decide", "finish"} => requests'[u][i].got
  BY DEF TimelyIsKept
<1>2. i \in Places(u) /\ (i = 1 \/ i > 1)
  <2>1. Len(requests[u]) \in Nat
    BY DEF TypeOK
  <2> QED BY <1>1, <2>1 DEF Places
<1>3. requests'[u][i].id = requests[u][i].id /\ requests[u][i].id \in Ids
  <2>1. requests[u] \in Seq(Request)
    BY DEF TypeOK
  <2>2. requests[u][i] \in Request
    BY <1>2, <2>1 DEF Places
  <2>3. requests[u][i].id \in Ids
    BY <2>2 DEF Request
  <2> QED BY <1>1, <1>2, <2>3 DEF Top
<1>4. replies'[requests'[u][i].id] = "reply"
  BY <1>2, <1>3 DEF TimelyIsKept
<1>5. CASE u = t /\ i = 1
  BY <1>1, <1>4, <1>5
<1>6. CASE u # t \/ i > 1
  <2>1. requests'[u][i] = requests[u][i]
    BY <1>1, <1>2, <1>6
  <2>2. CASE requests[u][i].id \in timely
    BY <1>2, <1>4, <2>1, <2>2 DEF TimelyIsKept
  <2>3. CASE requests[u][i].id \notin timely
    <3>1. PICK j \in Places(t) : requests[t][j].id = requests[u][i].id
      BY <1>3, <2>3
    <3>2. u = t
      BY <1>2, <3>1 DEF Structure, OneNumberEach
    <3>3. requests[u][i].pc = "run"
      BY <1>2, <1>6, <3>2 DEF Structure, OuterRun
    <3> QED BY <1>4, <2>1, <3>3
  <2> QED BY <2>2, <2>3
<1> QED BY <1>2, <1>5, <1>6

(* The last step of a request. *)

LEMMA EndKeepsStructure ==
  ASSUME TypeOK, Structure, NEW t \in Threads, requests[t] # <<>>,
         requests' = [requests EXCEPT ![t] = Tail(@)], Unregister(t),
         UNCHANGED <<valid, conv, timely>>, orphans \subseteq orphans',
         \A i \in Ids : replies'[i] # "none" => replies[i] # "none",
         Top(t).id \in orphans' \/ replies'[Top(t).id] = "none"
  PROVE  Structure'
PROOF
<1>1. /\ requests' \in [Threads -> Seq(Request)]
      /\ Len(requests[t]) \in Nat \ {0} /\ Len(requests'[t]) = Len(requests[t]) - 1
      /\ \A u \in Threads \ {t} : requests'[u] = requests[u]
      /\ \A i \in 1..(Len(requests[t]) - 1) : requests'[t][i] = requests[t][i + 1]
  BY FirstLeaves
<1>2. \A u \in Threads \ {t} : Places(u)' = Places(u)
  BY <1>1 DEF Places
<1>3. \A i \in Places(t)' : i + 1 \in Places(t) /\ i + 1 > 1 /\ requests'[t][i] = requests[t][i + 1]
  BY <1>1 DEF Places
<1>12. Len(requests[t]) \in Int /\ Len(requests'[t]) = Len(requests[t]) - 1
  BY <1>1
<1>4. requests'[t] # <<>> <=> Len(requests[t]) # 1
  <2>1. requests'[t] \in Seq(Request)
    BY <1>1
  <2>2. requests'[t] # <<>> <=> Len(requests'[t]) # 0
    BY <2>1, EmptySeq
  <2> QED BY <1>12, <2>2
<1> DEFINE Before(w, k) == IF w = t THEN k + 1 ELSE k
<1>10. \A w \in Threads : \A k \in Places(w)' :
         /\ k \in Int /\ Before(w, k) \in Places(w) /\ (k > 1 => Before(w, k) > 1)
         /\ requests'[w][k] = requests[w][Before(w, k)]
  <2>1. \A w \in Threads : Len(requests'[w]) \in Nat
    BY <1>1
  <2>2. \A w \in Threads : \A k \in Places(w)' : k \in Int
    BY <2>1 DEF Places
  <2>3. ASSUME NEW w \in Threads, NEW k \in Places(w)', w = t
        PROVE  Before(w, k) \in Places(w) /\ Before(w, k) > 1 /\ requests'[w][k] = requests[w][Before(w, k)]
    BY <1>3, <2>3
  <2>4. ASSUME NEW w \in Threads, NEW k \in Places(w)', w # t
        PROVE  Before(w, k) = k /\ Before(w, k) \in Places(w) /\ requests'[w][k] = requests[w][Before(w, k)]
    BY <1>1, <1>2, <2>4
  <2> HIDE DEF Before
  <2> QED BY <2>2, <2>3, <2>4
<1>11. \A w \in Threads : \A k, l \in Places(w)' : Before(w, k) = Before(w, l) => k = l
  BY <1>10
<1> HIDE DEF Before
<1>5. OutermostRegisters'
  <2> SUFFICES ASSUME valid, NEW u \in Threads
      PROVE  /\ u \in hears' <=> requests'[u] # <<>>
             /\ \A i \in Places(u)' : requests'[u][i].registered <=> i = Len(requests'[u])
    BY DEF OutermostRegisters
  <2>1. CASE u # t
    <3>1. u \in hears' <=> u \in hears
      BY <2>1 DEF Unregister
    <3> QED BY <1>1, <1>2, <2>1, <3>1 DEF Structure, OutermostRegisters
  <2>2. CASE u = t
    <3>1. Top(t).registered <=> 1 = Len(requests[t])
      BY <1>1 DEF Structure, OutermostRegisters, Top, Places
    <3>2. t \in hears
      BY DEF Structure, OutermostRegisters
    <3>3. t \in hears' <=> Len(requests[t]) # 1
      BY <3>1, <3>2 DEF Unregister
    <3>4. \A i \in Places(t)' : requests'[t][i].registered <=> i + 1 = Len(requests[t])
      BY <1>3 DEF Structure, OutermostRegisters
    <3>5. \A i \in Places(t)' : i \in Nat
      BY <1>1 DEF Places
    <3>6. \A i \in Places(t)' : requests'[t][i].registered <=> i = Len(requests'[t])
      <4> TAKE i \in Places(t)'
      <4>1. i \in Nat /\ (requests'[t][i].registered <=> i + 1 = Len(requests[t]))
        BY <3>4, <3>5
      <4>2. i + 1 = Len(requests[t]) <=> i = Len(requests'[t])
        BY <1>12, <4>1
      <4> QED BY <4>1, <4>2
    <3>7. t \in hears' <=> requests'[t] # <<>>
      BY <1>4, <3>3
    <3> QED BY <2>2, <3>6, <3>7
  <2> QED BY <2>1, <2>2
<1>6. OuterRun'
  <2> SUFFICES ASSUME NEW u \in Threads, NEW i \in Places(u)', i > 1
      PROVE  requests'[u][i].pc = "run"
    BY DEF OuterRun
  <2>1. /\ Before(u, i) \in Places(u) /\ Before(u, i) > 1
        /\ requests'[u][i] = requests[u][Before(u, i)]
    BY <1>10
  <2>2. requests[u][Before(u, i)].pc = "run"
    BY <2>1 DEF Structure, OuterRun
  <2> QED BY <2>1, <2>2
<1>7. NumbersAreGiven'
  BY <1>10 DEF Structure, NumbersAreGiven
<1>8. OneNumberEach'
  <2> SUFFICES ASSUME NEW u \in Threads, NEW v \in Threads, NEW i \in Places(u)', NEW j \in Places(v)',
                      requests'[u][i].id = requests'[v][j].id
      PROVE  u = v /\ i = j
    BY DEF OneNumberEach
  <2>2. /\ Before(u, i) \in Places(u) /\ requests'[u][i] = requests[u][Before(u, i)]
        /\ Before(v, j) \in Places(v) /\ requests'[v][j] = requests[v][Before(v, j)]
    BY <1>10
  <2>3. requests[u][Before(u, i)].id = requests[v][Before(v, j)].id
    BY <2>2
  <2>1. u = v /\ Before(u, i) = Before(v, j)
    BY <2>2, <2>3 DEF Structure, OneNumberEach
  <2> QED BY <1>11, <2>1
<1>9. KeysHaveRequests'
  <2> SUFFICES ASSUME NEW id \in Ids, replies'[id] # "none", id \notin orphans'
      PROVE  \E u \in Threads : \E i \in Places(u)' : requests'[u][i].id = id
    BY DEF KeysHaveRequests
  <2>1. PICK u \in Threads : \E i \in Places(u) : requests[u][i].id = id
    BY DEF Structure, KeysHaveRequests
  <2>2. PICK i \in Places(u) : requests[u][i].id = id
    BY <2>1
  <2>3. CASE u # t
    BY <1>1, <1>2, <2>2, <2>3
  <2>4. CASE u = t
    <3>1. i # 1
      BY <2>2, <2>4 DEF Top
    <3>2. i - 1 \in Places(t)' /\ requests'[t][i - 1] = requests[t][i]
      BY <1>1, <2>4, <3>1 DEF Places
    <3> QED BY <2>2, <2>4, <3>2
  <2> QED BY <2>3, <2>4
<1> QED BY <1>5, <1>6, <1>7, <1>8, <1>9 DEF Structure

LEMMA EndKeepsTimely ==
  ASSUME TypeOK, Structure, TimelyIsKept, NEW t \in Threads, requests[t] # <<>>,
         requests' = [requests EXCEPT ![t] = Tail(@)], timely' = timely,
         \A id \in Ids : id # Top(t).id => replies'[id] = replies[id]
  PROVE  TimelyIsKept'
PROOF
<1>1. /\ Len(requests[t]) \in Nat \ {0} /\ Len(requests'[t]) = Len(requests[t]) - 1
      /\ \A u \in Threads \ {t} : requests'[u] = requests[u]
      /\ \A i \in 1..(Len(requests[t]) - 1) : requests'[t][i] = requests[t][i + 1]
  BY FirstLeaves
<1> SUFFICES ASSUME NEW u \in Threads, NEW i \in Places(u)', requests'[u][i].id \in timely
    PROVE  /\ replies'[requests'[u][i].id] = "reply"
           /\ requests'[u][i].pc \in {"decide", "finish"} => requests'[u][i].got
  BY DEF TimelyIsKept
<1>2. \E j \in Places(u) : requests'[u][i] = requests[u][j] /\ (u # t \/ j # 1)
  <2>1. CASE u # t
    BY <1>1, <2>1 DEF Places
  <2>2. CASE u = t
    <3>1. i \in 1..(Len(requests[t]) - 1)
      BY <1>1, <2>2 DEF Places
    <3>2. i + 1 \in Places(t) /\ i + 1 # 1
      BY <1>1, <3>1 DEF Places
    <3> QED BY <1>1, <2>2, <3>1, <3>2
  <2> QED BY <2>1, <2>2
<1>3. PICK j \in Places(u) : requests'[u][i] = requests[u][j] /\ (u # t \/ j # 1)
  BY <1>2
<1>4. requests[u][j].id \in Ids
  <2>1. requests[u] \in Seq(Request)
    BY DEF TypeOK
  <2>2. requests[u][j] \in Request
    BY <2>1 DEF Places
  <2> QED BY <2>2 DEF Request
<1>5. requests[u][j].id # Top(t).id
  <2>1. 1 \in Places(t)
    BY <1>1 DEF Places
  <2> QED BY <1>3, <2>1 DEF Structure, OneNumberEach, Top
<1> QED BY <1>3, <1>4, <1>5 DEF TimelyIsKept

(* A new request. *)

LEMMA NumberIsNew ==
  ASSUME RequestAssumption, NEW c \in Ids, c >= 0
  PROVE  /\ Wrap(c + 1) \in Ids /\ Negated(Wrap(c + 1)) = -(c + 1) /\ -(c + 1) \in Ids
         /\ Wrap(c + 1) >= 0 => Wrap(c + 1) = c + 1
PROOF
  BY DEF RequestAssumption, Ids, Wrap, Negated

LEMMA GivenLater ==
  ASSUME NEW c \in Int, c >= 0, NEW d \in Int, d >= 0 => d = c + 1
  PROVE  Given(-(c + 1), d) /\ \A id \in Int : Given(id, c) => Given(id, d)
PROOF
<1>1. CASE d >= 0
  BY <1>1 DEF Given
<1>2. CASE ~(d >= 0)
  BY <1>2 DEF Given
<1> QED BY <1>1, <1>2

LEMMA RequestComes ==
  ASSUME RequestAssumption, TypeOK, Structure, NEW t \in Threads, SendRequest(t)
  PROVE  \E r \in Request :
           /\ r.id = -(conv + 1) /\ (r.registered <=> t \notin hears) /\ r.pc = "send" /\ r.id \in Ids
           /\ requests' = [requests EXCEPT ![t] = <<r>> \o @]
           /\ requests'[t][1] = r
           /\ replies' = [replies EXCEPT ![r.id] = "null"]
           /\ conv' \in Ids /\ (conv' >= 0 => conv' = conv + 1) /\ conv >= 0 /\ conv \in Ids
PROOF
<1>1. conv \in Ids /\ conv >= 0
  BY DEF TypeOK, SendRequest, RequestAssumption
<1> DEFINE c == Wrap(conv + 1)
           r == [pc |-> "send", id |-> Negated(c), registered |-> Registers(t), due |-> FALSE,
                 got |-> FALSE, msg |-> 0]
<1>2. c \in Ids /\ Negated(c) = -(conv + 1) /\ Negated(c) \in Ids /\ (c >= 0 => c = conv + 1)
  BY <1>1, NumberIsNew
<1>3. conv' = c /\ replies' = [replies EXCEPT ![Negated(c)] = "null"]
      /\ requests' = [requests EXCEPT ![t] = <<r>> \o @]
  BY DEF SendRequest
<1>4. 0 \in Ids
  BY DEF Ids, RequestAssumption
<1>5. (Registers(t) <=> t \notin hears) /\ Registers(t) \in BOOLEAN
  BY DEF Registers
<1> HIDE DEF c
<1>6. r \in Request /\ r.id = Negated(c) /\ r.registered = Registers(t) /\ r.pc = "send"
  BY <1>2, <1>4, <1>5 DEF Request, Steps
<1> HIDE DEF r
<1>7. requests'[t][1] = r
  BY <1>3, <1>6, FirstComes
<1> QED BY <1>1, <1>2, <1>3, <1>5, <1>6, <1>7

LEMMA ComingKeepsStructure ==
  ASSUME RequestAssumption, TypeOK, Structure, NEW t \in Threads, SendRequest(t)
  PROVE  Structure'
PROOF
<1>1. PICK r \in Request :
        /\ r.id = -(conv + 1) /\ (r.registered <=> t \notin hears) /\ r.pc = "send" /\ r.id \in Ids
        /\ requests' = [requests EXCEPT ![t] = <<r>> \o @]
        /\ requests'[t][1] = r
        /\ replies' = [replies EXCEPT ![r.id] = "null"]
        /\ conv' \in Ids /\ (conv' >= 0 => conv' = conv + 1) /\ conv >= 0 /\ conv \in Ids
  BY RequestComes
<1>2. /\ requests' \in [Threads -> Seq(Request)]
      /\ Len(requests[t]) \in Nat /\ Len(requests'[t]) = Len(requests[t]) + 1
      /\ \A u \in Threads \ {t} : requests'[u] = requests[u]
      /\ \A i \in Places(t)' : i > 1 => requests'[t][i] = requests[t][i - 1]
  BY <1>1, FirstComes
<1>3. conv \in Int /\ conv' \in Int
  BY <1>1 DEF Ids, RequestAssumption
<1>4. valid /\ valid' = valid /\ hears' = hears \cup {t} /\ orphans' = orphans /\ timely' = timely
  BY DEF SendRequest
<1>5. requests[t] = <<>> \/ (requests[t] # <<>> /\ requests[t][1].pc = "run")
  <2>1. requests[t] = <<>> \/ At(t, "run")
    BY Zenon DEF SendRequest
  <2> QED BY <2>1 DEF At, Top
<1> DEFINE Old(w, k) == w # t \/ k # 1
           Before(w, k) == IF w = t THEN k - 1 ELSE k
<1>6. \A w \in Threads : \A k \in Places(w)' :
         /\ k \in Int
         /\ Old(w, k) => Before(w, k) \in Places(w) /\ requests'[w][k] = requests[w][Before(w, k)]
         /\ ~Old(w, k) => w = t /\ k = 1 /\ requests'[w][k] = r
  <2>1. \A w \in Threads : Len(requests'[w]) \in Nat
    BY <1>2
  <2>2. \A w \in Threads : \A k \in Places(w)' : k \in Int /\ k >= 1
    BY <2>1 DEF Places
  <2>3. ASSUME NEW w \in Threads, NEW k \in Places(w)', w = t, k # 1
        PROVE  Before(w, k) \in Places(w) /\ requests'[w][k] = requests[w][Before(w, k)]
    <3>1. k > 1 /\ k - 1 \in Places(t)
      BY <1>2, <2>2, <2>3 DEF Places
    <3> QED BY <1>2, <2>3, <3>1
  <2>4. ASSUME NEW w \in Threads, NEW k \in Places(w)', w # t
        PROVE  Before(w, k) \in Places(w) /\ requests'[w][k] = requests[w][Before(w, k)]
    BY <1>2, <2>4 DEF Places
  <2>5. ASSUME NEW w \in Threads, NEW k \in Places(w)', ~Old(w, k)
        PROVE  w = t /\ k = 1 /\ requests'[w][k] = r
    BY <1>1, <2>5
  <2> QED BY <2>2, <2>3, <2>4, <2>5
<1>7. \A w \in Threads : \A k, l \in Places(w)' : Before(w, k) = Before(w, l) => k = l
  BY <1>6
<1>8. \A w \in Threads : \A k \in Places(w) : requests[w][k].id \in Int /\ requests[w][k].id >= -conv
  <2>1. \A w \in Threads : requests[w] \in Seq(Request)
    BY DEF TypeOK
  <2>2. \A w \in Threads : \A k \in Places(w) : requests[w][k] \in Request
    BY <2>1 DEF Places
  <2>3. \A w \in Threads : \A k \in Places(w) : requests[w][k].id \in Ids
    BY <2>2 DEF Request
  <2>4. \A w \in Threads : \A k \in Places(w) : requests[w][k].id \in Int
    BY <2>3 DEF Ids, RequestAssumption
  <2> QED BY <1>1, <1>3, <2>4 DEF Structure, NumbersAreGiven, Given
<1>9. OutermostRegisters'
  <2> SUFFICES ASSUME NEW u \in Threads
      PROVE  /\ u \in hears' <=> requests'[u] # <<>>
             /\ \A i \in Places(u)' : requests'[u][i].registered <=> i = Len(requests'[u])
    BY DEF OutermostRegisters
  <2>1. CASE u # t
    BY <1>2, <1>4, <2>1 DEF Structure, OutermostRegisters, Places
  <2>2. CASE u = t
    <3>1. requests'[t] # <<>> /\ t \in hears'
      <4>1. requests'[t] \in Seq(Request) /\ Len(requests'[t]) # 0
        BY <1>2
      <4> QED BY <1>4, <4>1, EmptySeq
    <3>2. t \notin hears <=> Len(requests[t]) = 0
      <4>1. requests[t] \in Seq(Request)
        BY DEF TypeOK
      <4>2. requests[t] = <<>> <=> Len(requests[t]) = 0
        BY <4>1, EmptySeq
      <4> QED BY <1>4, <4>2 DEF Structure, OutermostRegisters
    <3>3. requests'[t][1].registered <=> 1 = Len(requests'[t])
      BY <1>1, <1>2, <3>2
    <3>4. ASSUME NEW i \in Places(t)', i # 1
          PROVE  requests'[t][i].registered <=> i = Len(requests'[t])
      <4>1. i \in Int /\ i - 1 \in Places(t) /\ requests'[t][i] = requests[t][i - 1]
        BY <1>6, <3>4
      <4>2. requests[t][i - 1].registered <=> i - 1 = Len(requests[t])
        BY <1>4, <4>1 DEF Structure, OutermostRegisters
      <4>3. i - 1 = Len(requests[t]) <=> i = Len(requests'[t])
        BY <1>2, <4>1
      <4> QED BY <4>1, <4>2, <4>3
    <3> QED BY <2>2, <3>1, <3>3, <3>4
  <2> QED BY <2>1, <2>2
<1>10. OuterRun'
  <2> SUFFICES ASSUME NEW u \in Threads, NEW i \in Places(u)', i > 1
      PROVE  requests'[u][i].pc = "run"
    BY DEF OuterRun
  <2>1. CASE u # t
    BY <1>2, <2>1 DEF Structure, OuterRun, Places
  <2>2. CASE u = t
    <3>1. i \in Int /\ i - 1 \in Places(t) /\ requests'[t][i] = requests[t][i - 1]
      BY <1>6, <2>2
    <3>2. requests[t] # <<>>
      <4>1. requests[t] = <<>> => Len(requests[t]) = 0
        OBVIOUS
      <4> QED BY <3>1, <4>1 DEF Places
    <3>3. requests[t][i - 1].pc = "run"
      BY <1>5, <3>1, <3>2 DEF Structure, OuterRun
    <3> QED BY <2>2, <3>1, <3>3
  <2> QED BY <2>1, <2>2
<1>11. NumbersAreGiven'
  <2>1. ASSUME NEW id \in Int, Given(id, conv)
        PROVE  Given(id, conv')
    BY <1>1, <1>3, <2>1, GivenLater
  <2>2. timely \subseteq Int
    BY DEF TypeOK, Ids, RequestAssumption
  <2>3. Given(-(conv + 1), conv')
    BY <1>1, <1>3, GivenLater
  <2>4. \A id \in timely' : Given(id, conv')
    BY <1>4, <2>1, <2>2 DEF Structure, NumbersAreGiven
  <2>5. ASSUME NEW u \in Threads, NEW i \in Places(u)'
        PROVE  Given(requests'[u][i].id, conv')
    <3>1. CASE Old(u, i)
      <4>1. Before(u, i) \in Places(u) /\ requests'[u][i] = requests[u][Before(u, i)]
        BY <1>6, <3>1
      <4>2. Given(requests[u][Before(u, i)].id, conv) /\ requests[u][Before(u, i)].id \in Int
        BY <1>8, <4>1 DEF Structure, NumbersAreGiven
      <4> QED BY <2>1, <4>1, <4>2
    <3>2. CASE ~Old(u, i)
      BY <1>1, <1>6, <2>3, <3>2
    <3> QED BY <3>1, <3>2
  <2> QED BY <2>4, <2>5 DEF NumbersAreGiven
<1>12. OneNumberEach'
  <2> SUFFICES ASSUME NEW u \in Threads, NEW v \in Threads, NEW i \in Places(u)', NEW j \in Places(v)',
                      requests'[u][i].id = requests'[v][j].id
      PROVE  u = v /\ i = j
    BY DEF OneNumberEach
  <2>1. ASSUME NEW w \in Threads, NEW k \in Places(w)', Old(w, k)
        PROVE  requests'[w][k].id # r.id
    <3>1. Before(w, k) \in Places(w) /\ requests'[w][k] = requests[w][Before(w, k)]
      BY <1>6, <2>1
    <3>2. requests[w][Before(w, k)].id \in Int /\ requests[w][Before(w, k)].id >= -conv
      BY <1>8, <3>1
    <3>3. \A x \in Int : x >= -conv => x # -(conv + 1)
      BY <1>3
    <3>4. requests[w][Before(w, k)].id # -(conv + 1)
      BY <3>2, <3>3
    <3> QED BY <1>1, <3>1, <3>4
  <2>2. CASE Old(u, i) /\ Old(v, j)
    <3>1. /\ Before(u, i) \in Places(u) /\ requests'[u][i] = requests[u][Before(u, i)]
          /\ Before(v, j) \in Places(v) /\ requests'[v][j] = requests[v][Before(v, j)]
      BY <1>6, <2>2
    <3>2. requests[u][Before(u, i)].id = requests[v][Before(v, j)].id
      BY <3>1
    <3>3. u = v /\ Before(u, i) = Before(v, j)
      BY <3>1, <3>2 DEF Structure, OneNumberEach
    <3> QED BY <1>7, <3>3
  <2>3. CASE ~Old(u, i)
    BY <1>6, <2>1, <2>3
  <2>4. CASE ~Old(v, j)
    BY <1>6, <2>1, <2>4
  <2> QED BY <2>2, <2>3, <2>4
<1>13. KeysHaveRequests'
  <2> SUFFICES ASSUME NEW id \in Ids, replies'[id] # "none", id \notin orphans
      PROVE  \E u \in Threads : \E i \in Places(u)' : requests'[u][i].id = id
    BY <1>4 DEF KeysHaveRequests
  <2>1. CASE id = r.id
    <3>1. 1 \in Places(t)'
      BY <1>2 DEF Places
    <3> QED BY <1>1, <2>1, <3>1
  <2>2. CASE id # r.id
    <3>1. replies[id] # "none"
      BY <1>1, <2>2 DEF TypeOK
    <3>2. PICK u \in Threads : \E i \in Places(u) : requests[u][i].id = id
      BY <3>1 DEF Structure, KeysHaveRequests
    <3>3. PICK i \in Places(u) : requests[u][i].id = id
      BY <3>2
    <3>4. CASE u # t
      BY <1>2, <3>3, <3>4 DEF Places
    <3>5. CASE u = t
      <4>1. i + 1 \in Places(t)' /\ i + 1 > 1 /\ (i + 1) - 1 = i
        BY <1>2, <3>5 DEF Places
      <4>2. requests'[t][i + 1] = requests[t][i]
        BY <1>2, <4>1
      <4> QED BY <3>3, <3>5, <4>1, <4>2
    <3> QED BY <3>4, <3>5
  <2> QED BY <2>1, <2>2
<1> QED BY <1>9, <1>10, <1>11, <1>12, <1>13 DEF Structure

LEMMA ComingKeepsTimely ==
  ASSUME RequestAssumption, TypeOK, Structure, TimelyIsKept, NEW t \in Threads, SendRequest(t)
  PROVE  TimelyIsKept'
PROOF
<1>1. PICK r \in Request :
        /\ r.id = -(conv + 1) /\ (r.registered <=> t \notin hears) /\ r.pc = "send" /\ r.id \in Ids
        /\ requests' = [requests EXCEPT ![t] = <<r>> \o @]
        /\ requests'[t][1] = r
        /\ replies' = [replies EXCEPT ![r.id] = "null"]
        /\ conv' \in Ids /\ (conv' >= 0 => conv' = conv + 1) /\ conv >= 0 /\ conv \in Ids
  BY RequestComes
<1>2. /\ Len(requests[t]) \in Nat /\ Len(requests'[t]) = Len(requests[t]) + 1
      /\ \A u \in Threads \ {t} : requests'[u] = requests[u]
      /\ \A i \in Places(t)' : i > 1 => requests'[t][i] = requests[t][i - 1]
  BY <1>1, FirstComes
<1>3. timely' = timely
  BY DEF SendRequest
<1> SUFFICES ASSUME NEW u \in Threads, NEW i \in Places(u)', requests'[u][i].id \in timely
    PROVE  /\ replies'[requests'[u][i].id] = "reply"
           /\ requests'[u][i].pc \in {"decide", "finish"} => requests'[u][i].got
  BY <1>3 DEF TimelyIsKept
<1>4. requests'[u][i].id # r.id
  <2>1. requests'[u][i].id \in Int /\ conv \in Int
    <3>1. Ids \subseteq Int
      BY DEF Ids, RequestAssumption
    <3>2. timely \subseteq Ids
      BY DEF TypeOK
    <3> HIDE DEF Ids
    <3> QED BY <1>1, <3>1, <3>2
  <2>2. requests'[u][i].id >= -conv
    BY <1>1 DEF Structure, NumbersAreGiven, Given
  <2>3. \A x \in Int : x >= -conv => x # -(conv + 1)
    BY <2>1
  <2>4. requests'[u][i].id # -(conv + 1)
    BY <2>1, <2>2, <2>3
  <2> QED BY <1>1, <2>4
<1>5. u # t \/ i # 1
  BY <1>1, <1>4
<1>6. \E j \in Places(u) : requests'[u][i] = requests[u][j]
  <2>1. CASE u # t
    BY <1>2, <2>1 DEF Places
  <2>2. CASE u = t
    <3>1. i > 1 /\ i - 1 \in Places(t)
      BY <1>2, <1>5, <2>2 DEF Places
    <3> QED BY <1>2, <2>2, <3>1
  <2> QED BY <2>1, <2>2
<1>7. PICK j \in Places(u) : requests'[u][i] = requests[u][j]
  BY <1>6
<1>8. requests[u][j].id \in Ids
  BY <1>7 DEF TypeOK
<1>9. replies'[requests[u][j].id] = replies[requests[u][j].id]
  BY <1>1, <1>4, <1>7, <1>8 DEF TypeOK
<1> QED BY <1>7, <1>9 DEF TimelyIsKept

-----------------------------------------------------------------------------
(* The steps. *)

\* The step of a request that has been made, but is not over: what becomes of
\* its record, of the keys and of the replies.
Works(t, r) ==
  /\ requests[t] # <<>> /\ r \in Request /\ Become(t, r)
  /\ r.id = Top(t).id /\ r.registered = Top(t).registered
  /\ UNCHANGED <<valid, conv, hears, orphans, served>>
  /\ replies' \in [Ids -> Entries] /\ timely' \subseteq Ids /\ sent' \in Seq(Ids) /\ answers' \in Seq(Ids)
  /\ \A i \in Ids : replies'[i] # "none" => replies[i] # "none"
  /\ \A i \in Ids : replies[i] = "reply" => replies'[i] = "reply"
  /\ \A id \in timely' : id \in timely \/ (replies'[id] = "reply" /\ \E i \in Places(t) : requests[t][i].id = id)
  /\ (r.id \in timely' /\ r.pc \in {"decide", "finish"} => r.got)

LEMMA IdsAreInts ==
  ASSUME RequestAssumption
  PROVE  Ids \subseteq Int /\ \A i \in Ids : Negated(i) \in Ids
PROOF
  BY DEF RequestAssumption, Ids, Negated

LEMMA FirstIsRequest ==
  ASSUME TypeOK, NEW t \in Threads, requests[t] # <<>>
  PROVE  Top(t) \in Request /\ 1 \in Places(t)
PROOF
<1>1. requests[t] \in Seq(Request) /\ Len(requests[t]) \in Nat \ {0}
  BY EmptySeq DEF TypeOK
<1> QED BY <1>1 DEF Top, Places

LEMMA GoesOn ==
  ASSUME NEW x \in Request, NEW pc \in Steps
  PROVE  LET r == [x EXCEPT !.pc = pc]
         IN r \in Request /\ r.id = x.id /\ r.registered = x.registered /\ r.pc = pc /\ r.got = x.got
PROOF
  BY DEF Request

LEMMA SendWorks ==
  ASSUME RequestAssumption, RequestInv, NEW t \in Threads, At(t, "send"),
         sent' = Append(sent, Negated(Top(t).id)), Goto(t, "run"),
         UNCHANGED <<valid, conv, hears, orphans, served, replies, answers, timely>>
  PROVE  \E r : Works(t, r)
PROOF
<1>1. TypeOK /\ requests[t] # <<>> /\ Top(t) \in Request
  BY FirstIsRequest DEF RequestInv, At
<1> DEFINE r == [Top(t) EXCEPT !.pc = "run"]
<1>2. r \in Request /\ r.id = Top(t).id /\ r.registered = Top(t).registered /\ r.pc = "run"
  BY <1>1, GoesOn DEF Steps
<1>3. Become(t, r)
  BY DEF Goto
<1>4. Top(t).id \in Ids
  BY <1>1 DEF Request
<1>5. sent' \in Seq(Ids) /\ answers' \in Seq(Ids) /\ replies' \in [Ids -> Entries] /\ timely' \subseteq Ids
  <2>1. sent \in Seq(Ids) /\ Negated(Top(t).id) \in Ids
    BY <1>1, <1>4, IdsAreInts DEF TypeOK
  <2> QED BY <1>1, <2>1 DEF TypeOK
<1> HIDE DEF r
<1> QED BY <1>1, <1>2, <1>3, <1>5 DEF Works

LEMMA ReceiveWorks ==
  ASSUME RequestAssumption, RequestInv, NEW t \in Threads, Receive(t)
  PROVE  \E r : Works(t, r)
PROOF
<1>1. TypeOK /\ requests[t] # <<>> /\ Top(t) \in Request
  BY FirstIsRequest DEF RequestInv, Receive, At
<1> DEFINE r == [Top(t) EXCEPT !.pc = "handle", !.msg = Head(answers)]
<1>2. answers \in Seq(Ids) /\ answers # <<>> /\ Head(answers) \in Ids /\ Tail(answers) \in Seq(Ids)
  <2>1. answers \in Seq(Ids) /\ answers # <<>>
    BY <1>1 DEF TypeOK, Receive
  <2> QED BY <2>1, HeadTailProperties
<1>3. r \in Request /\ r.id = Top(t).id /\ r.registered = Top(t).registered /\ r.pc = "handle"
  BY <1>1, <1>2 DEF Request, Steps
<1>4. Become(t, r) /\ answers' = Tail(answers)
      /\ UNCHANGED <<valid, conv, replies, hears, sent, served, orphans, timely>>
  BY DEF Receive
<1> HIDE DEF r
<1> QED BY <1>1, <1>2, <1>3, <1>4 DEF Works, TypeOK

LEMMA HandleWorks ==
  ASSUME RequestAssumption, RequestInv, NEW t \in Threads, Handle(t)
  PROVE  \E r : Works(t, r)
PROOF
<1>1. TypeOK /\ requests[t] # <<>> /\ Top(t) \in Request
  BY FirstIsRequest DEF RequestInv, Handle, At
<1> DEFINE r == [Top(t) EXCEPT !.pc = "read"]
           id == Top(t).msg
           own == {i \in 1..Len(requests[t]) : requests[t][i].id = id /\ ~requests[t][i].due}
<1>2. r \in Request /\ r.id = Top(t).id /\ r.registered = Top(t).registered /\ r.pc = "read"
  BY <1>1, GoesOn DEF Steps
<1>3. Become(t, r)
  BY DEF Handle, Goto
<1>4. id \in Ids
  BY <1>1 DEF Request
<1>5. /\ replies' = IF id < 0 /\ Stores(id) THEN [replies EXCEPT ![id] = "reply"] ELSE replies
      /\ timely' = IF id < 0 /\ Stores(id) /\ own # {} THEN timely \cup {id} ELSE timely
      /\ UNCHANGED <<valid, conv, hears, sent, answers, served, orphans>>
  BY DEF Handle
<1>6. own # {} => \E i \in Places(t) : requests[t][i].id = id
  BY DEF Places
<1> HIDE DEF r, id, own
<1>7. replies \in [Ids -> Entries] /\ timely \subseteq Ids /\ sent \in Seq(Ids) /\ answers \in Seq(Ids)
  BY <1>1 DEF TypeOK
<1>8. CASE id < 0 /\ Stores(id)
  <2>1. replies' = [replies EXCEPT ![id] = "reply"]
    BY <1>5, <1>8
  <2>2. replies[id] # "none"
    BY <1>8 DEF Stores
  <2>3. replies' \in [Ids -> Entries] /\ replies'[id] = "reply"
        /\ \A i \in Ids : i # id => replies'[i] = replies[i]
    BY <1>4, <1>7, <2>1 DEF Entries
  <2>4. /\ \A i \in Ids : replies'[i] # "none" => replies[i] # "none"
        /\ \A i \in Ids : replies[i] = "reply" => replies'[i] = "reply"
    BY <2>2, <2>3
  <2>5. timely' \subseteq Ids
        /\ \A j \in timely' : j \in timely \/ (j = id /\ \E i \in Places(t) : requests[t][i].id = id)
    BY <1>4, <1>5, <1>6, <1>7
  <2>6. \A j \in timely' : j \in timely \/ (replies'[j] = "reply" /\ \E i \in Places(t) : requests[t][i].id = j)
    BY <2>3, <2>5
  <2> QED BY <1>1, <1>2, <1>3, <1>5, <1>7, <2>3, <2>4, <2>5, <2>6 DEF Works
<1>9. CASE ~(id < 0 /\ Stores(id))
  <2>1. replies' = replies /\ timely' = timely
    BY <1>5, <1>9
  <2> QED BY <1>1, <1>2, <1>3, <1>5, <1>7, <2>1 DEF Works
<1> QED BY <1>8, <1>9

LEMMA ReturnWorks ==
  ASSUME RequestAssumption, RequestInv, NEW t \in Threads, RunReturns(t)
  PROVE  \E r : Works(t, r)
PROOF
<1>1. TypeOK /\ requests[t] # <<>> /\ Top(t) \in Request
  BY FirstIsRequest DEF RequestInv, RunReturns, At
<1> DEFINE r == [Top(t) EXCEPT !.pc = "read"]
<1>2. r \in Request /\ r.id = Top(t).id /\ r.registered = Top(t).registered /\ r.pc = "read"
  BY <1>1, GoesOn DEF Steps
<1>3. Become(t, r) /\ UNCHANGED <<valid, conv, replies, hears, sent, answers, served, orphans, timely>>
  BY DEF RunReturns, Goto
<1> HIDE DEF r
<1> QED BY <1>1, <1>2, <1>3 DEF Works, TypeOK

\* A reply that is kept is seen.
LEMMA ReadWorks ==
  ASSUME RequestAssumption, RequestInv, NEW t \in Threads, Read(t)
  PROVE  \E r : Works(t, r)
PROOF
<1>1. TypeOK /\ requests[t] # <<>> /\ Top(t) \in Request /\ 1 \in Places(t)
  BY FirstIsRequest DEF RequestInv, Read, At
<1> DEFINE r == [Top(t) EXCEPT !.pc = "decide", !.got = replies[Top(t).id] = "reply"]
<1>2. r \in Request /\ r.id = Top(t).id /\ r.registered = Top(t).registered
  BY <1>1 DEF Request, Steps
<1>3. r.got <=> replies[Top(t).id] = "reply"
  BY <1>1 DEF Request
<1>4. Become(t, r) /\ UNCHANGED <<valid, conv, replies, hears, sent, answers, served, orphans, timely>>
  BY DEF Read
<1> HIDE DEF r
<1>5. r.id \in timely => r.got
  BY <1>1, <1>2, <1>3 DEF RequestInv, TimelyIsKept, Top
<1> QED BY <1>1, <1>2, <1>4, <1>5 DEF Works, TypeOK

LEMMA DecideWorks ==
  ASSUME RequestAssumption, RequestInv, NEW t \in Threads, Decide(t)
  PROVE  \E r : Works(t, r)
PROOF
<1>1. TypeOK /\ requests[t] # <<>> /\ Top(t) \in Request /\ 1 \in Places(t) /\ Top(t).pc = "decide"
  BY FirstIsRequest DEF RequestInv, Decide, At
<1> DEFINE pc == IF Ends(t) THEN "finish" ELSE "run"
           r == [Top(t) EXCEPT !.pc = pc]
<1>2. pc \in Steps
  BY DEF Steps
<1>3. Become(t, r) /\ UNCHANGED <<valid, conv, replies, hears, sent, answers, served, orphans, timely>>
  BY DEF Decide, Goto
<1> HIDE DEF pc
<1>4. r \in Request /\ r.id = Top(t).id /\ r.registered = Top(t).registered /\ r.got = Top(t).got
  BY <1>1, <1>2, GoesOn
<1> HIDE DEF r
<1>5. r.id \in timely => r.got
  BY <1>1, <1>4 DEF RequestInv, TimelyIsKept, Top
<1> QED BY <1>1, <1>3, <1>4, <1>5 DEF Works, TypeOK

LEMMA WorkKeeps ==
  ASSUME RequestAssumption, RequestInv, NEW t \in Threads, NEW r, Works(t, r)
  PROVE  RequestInv'
PROOF
<1>1. TypeOK /\ Structure /\ TimelyIsKept
  BY DEF RequestInv
<1>2. requests' \in [Threads -> Seq(Request)]
  BY <1>1, FirstChanges DEF Works
<1>3. TypeOK'
  BY <1>1, <1>2 DEF Works, TypeOK
<1>4. \A id \in timely' : Given(id, conv)
  BY <1>1 DEF Works, Structure, NumbersAreGiven
<1>5. Structure'
  BY <1>1, <1>4, WorkKeepsStructure DEF Works
<1>6. TimelyIsKept'
  BY <1>1, WorkKeepsTimely DEF Works
<1> QED BY <1>3, <1>5, <1>6 DEF RequestInv

LEMMA EndKeeps ==
  ASSUME RequestAssumption, RequestInv, NEW t \in Threads, requests[t] # <<>>,
         requests' = [requests EXCEPT ![t] = Tail(@)], Unregister(t),
         \/ orphans' = orphans \cup {Top(t).id} /\ replies' = replies
         \/ orphans' = orphans /\ replies' = [replies EXCEPT ![Top(t).id] = "none"],
         UNCHANGED <<valid, conv, sent, answers, served, timely>>
  PROVE  RequestInv'
PROOF
<1>1. TypeOK /\ Structure /\ TimelyIsKept /\ Top(t) \in Request
  BY FirstIsRequest DEF RequestInv
<1>2. Top(t).id \in Ids
  BY <1>1 DEF Request
<1>3. requests' \in [Threads -> Seq(Request)]
  BY <1>1, FirstLeaves
<1>4. hears' \subseteq Threads
  BY <1>1 DEF Unregister, TypeOK
<1>5. /\ replies' \in [Ids -> Entries] /\ orphans' \subseteq Ids /\ orphans \subseteq orphans'
      /\ \A id \in Ids : id # Top(t).id => replies'[id] = replies[id]
      /\ \A id \in Ids : replies'[id] # "none" => replies[id] # "none"
      /\ Top(t).id \in orphans' \/ replies'[Top(t).id] = "none"
  <2>1. replies \in [Ids -> Entries] /\ orphans \subseteq Ids
    BY <1>1 DEF TypeOK
  <2> QED BY <1>2, <2>1 DEF Entries
<1>6. TypeOK'
  BY <1>1, <1>3, <1>4, <1>5 DEF TypeOK
<1>7. Structure'
  BY <1>1, <1>5, EndKeepsStructure
<1>8. TimelyIsKept'
  BY <1>1, <1>5, EndKeepsTimely
<1> QED BY <1>6, <1>7, <1>8 DEF RequestInv

LEMMA ComingKeeps ==
  ASSUME RequestAssumption, RequestInv, NEW t \in Threads, SendRequest(t)
  PROVE  RequestInv'
PROOF
<1>1. TypeOK /\ Structure /\ TimelyIsKept
  BY DEF RequestInv
<1>2. PICK r \in Request :
        /\ r.id = -(conv + 1) /\ (r.registered <=> t \notin hears) /\ r.pc = "send" /\ r.id \in Ids
        /\ requests' = [requests EXCEPT ![t] = <<r>> \o @]
        /\ requests'[t][1] = r
        /\ replies' = [replies EXCEPT ![r.id] = "null"]
        /\ conv' \in Ids /\ (conv' >= 0 => conv' = conv + 1) /\ conv >= 0 /\ conv \in Ids
  BY <1>1, RequestComes
<1>3. requests' \in [Threads -> Seq(Request)]
  BY <1>1, <1>2, FirstComes
<1>4. hears' = hears \cup {t} /\ UNCHANGED <<valid, sent, answers, served, orphans, timely>>
  BY DEF SendRequest
<1>5. replies' \in [Ids -> Entries]
  BY <1>1, <1>2 DEF TypeOK, Entries
<1>6. TypeOK'
  BY <1>1, <1>2, <1>3, <1>4, <1>5 DEF TypeOK
<1> QED BY <1>1, <1>6, ComingKeepsStructure, ComingKeepsTimely DEF RequestInv

LEMMA ExpiryKeeps ==
  ASSUME RequestAssumption, RequestInv, NEW t \in Threads, Expire(t)
  PROVE  RequestInv'
PROOF
<1>1. TypeOK /\ Structure /\ TimelyIsKept
  BY DEF RequestInv
<1>2. PICK p \in 1..Len(requests[t]) : requests' = [requests EXCEPT ![t][p].due = TRUE]
  BY DEF Expire
<1>3. UNCHANGED <<valid, conv, replies, hears, sent, answers, served, orphans, timely>>
  BY DEF Expire
<1>4. requests \in [Threads -> Seq(Request)] /\ requests[t] \in Seq(Request) /\ requests[t][p] \in Request
  BY <1>1, <1>2 DEF TypeOK
<1> DEFINE x == [requests[t][p] EXCEPT !.due = TRUE]
           q == [requests[t] EXCEPT ![p] = x]
<1>5. x \in Request /\ x.id = requests[t][p].id /\ x.registered = requests[t][p].registered
      /\ x.pc = requests[t][p].pc /\ x.got = requests[t][p].got
  BY <1>4 DEF Request
<1>6. requests' = [requests EXCEPT ![t] = q]
  BY <1>2, Zenon
<1> HIDE DEF x
<1>7. q \in Seq(Request) /\ Len(q) = Len(requests[t]) /\ q[p] = x
      /\ \A i \in 1..Len(requests[t]) : i # p => q[i] = requests[t][i]
  BY <1>2, <1>4, <1>5
<1> HIDE DEF q
<1>8. /\ requests' \in [Threads -> Seq(Request)] /\ requests'[t] = q
      /\ \A u \in Threads : u # t => requests'[u] = requests[u]
  BY <1>4, <1>6, <1>7
<1>9. \A u \in Threads : Len(requests'[u]) = Len(requests[u])
  BY <1>7, <1>8
<1>10. \A u \in Threads : \A i \in Places(u) :
         /\ requests'[u][i].id = requests[u][i].id
         /\ requests'[u][i].registered = requests[u][i].registered
         /\ requests'[u][i].pc = requests[u][i].pc
         /\ requests'[u][i].got = requests[u][i].got
  BY <1>5, <1>7, <1>8 DEF Places
<1>11. TypeOK'
  BY <1>1, <1>3, <1>8 DEF TypeOK
<1>12. \A id \in timely' : Given(id, conv)
  BY <1>1, <1>3 DEF Structure, NumbersAreGiven
<1>13. Structure'
  BY <1>1, <1>3, <1>8, <1>9, <1>10, <1>12, SameRequestsKeepStructure
<1>14. TimelyIsKept'
  <2>1. \A u \in Threads : Places(u)' = Places(u)
    BY <1>9 DEF Places
  <2> QED BY <1>1, <1>3, <1>10, <2>1 DEF TimelyIsKept
<1> QED BY <1>11, <1>13, <1>14 DEF RequestInv

\* The other process, and the invalidation.
LEMMA OthersKeep ==
  ASSUME RequestAssumption, RequestInv, Serve \/ Crash \/ Invalidate
  PROVE  RequestInv'
PROOF
<1>1. TypeOK /\ Structure /\ TimelyIsKept
  BY DEF RequestInv
<1>2. UNCHANGED <<requests, conv, replies, orphans, timely>> /\ (valid' => valid /\ hears' = hears)
  BY DEF Serve, Crash, Invalidate
<1>3. <<>> \in Seq(Ids)
  BY EmptySeq
<1>4. sent' \in Seq(Ids) /\ answers' \in Seq(Ids) /\ hears' \subseteq Threads /\ valid' \in BOOLEAN
      /\ served' \in BOOLEAN
  <2>1. CASE Serve
    <3>1. sent \in Seq(Ids) /\ sent # <<>>
      BY <1>1, <2>1 DEF Serve, TypeOK
    <3>2. Head(sent) \in Ids /\ Tail(sent) \in Seq(Ids)
      BY <3>1, HeadTailProperties
    <3>3. Negated(Head(sent)) \in Ids
      BY <3>2, IdsAreInts
    <3> QED BY <1>1, <2>1, <3>2, <3>3 DEF Serve, TypeOK
  <2>2. CASE Crash
    BY <1>1, <1>3, <2>2 DEF Crash, TypeOK
  <2>3. CASE Invalidate
    BY <1>1, <1>3, <2>3 DEF Invalidate, TypeOK
  <2> QED BY <2>1, <2>2, <2>3
<1>5. TypeOK'
  BY <1>1, <1>2, <1>4 DEF TypeOK
<1>6. Structure'
  <2>1. requests' \in [Threads -> Seq(Request)]
    BY <1>5 DEF TypeOK
  <2>2. \A id \in timely' : Given(id, conv)
    BY <1>1, <1>2 DEF Structure, NumbersAreGiven
  <2> QED BY <1>1, <1>2, <2>1, <2>2, SameRequestsKeepStructure
<1>7. TimelyIsKept'
  BY <1>1, <1>2 DEF TimelyIsKept, Places
<1> QED BY <1>5, <1>6, <1>7 DEF RequestInv

LEMMA StepKeeps ==
  ASSUME RequestAssumption, RequestInv, [Next]_vars
  PROVE  RequestInv'
PROOF
<1>1. ASSUME NEW t \in Threads, SendRequest(t) PROVE RequestInv'
  BY <1>1, ComingKeeps
<1>2. ASSUME NEW t \in Threads, Expire(t) PROVE RequestInv'
  BY <1>2, ExpiryKeeps
<1>3. ASSUME NEW t \in Threads, Send(t) PROVE RequestInv'
  <2>1. UNCHANGED <<valid, conv, replies, answers, served, timely>> /\ At(t, "send") /\ requests[t] # <<>>
    BY <1>3 DEF Send, At
  <2>2. CASE sent' = Append(sent, Negated(Top(t).id)) /\ Goto(t, "run") /\ UNCHANGED <<hears, orphans>>
    <3>1. \E r : Works(t, r)
      BY <2>1, <2>2, SendWorks
    <3> QED BY <3>1, WorkKeeps
  <2>3. CASE Unregister(t) /\ orphans' = orphans \cup {Top(t).id}
             /\ requests' = [requests EXCEPT ![t] = Tail(@)] /\ UNCHANGED sent
    BY <2>1, <2>3, EndKeeps
  <2> QED BY <1>3, <2>2, <2>3 DEF Send
<1>4. ASSUME NEW t \in Threads, Receive(t) PROVE RequestInv'
  BY <1>4, ReceiveWorks, WorkKeeps
<1>5. ASSUME NEW t \in Threads, Handle(t) PROVE RequestInv'
  BY <1>5, HandleWorks, WorkKeeps
<1>6. ASSUME NEW t \in Threads, RunReturns(t) PROVE RequestInv'
  BY <1>6, ReturnWorks, WorkKeeps
<1>7. ASSUME NEW t \in Threads, Read(t) PROVE RequestInv'
  BY <1>7, ReadWorks, WorkKeeps
<1>8. ASSUME NEW t \in Threads, Decide(t) PROVE RequestInv'
  BY <1>8, DecideWorks, WorkKeeps
<1>9. ASSUME NEW t \in Threads, Finish(t) PROVE RequestInv'
  <2>1. /\ requests[t] # <<>> /\ requests' = [requests EXCEPT ![t] = Tail(@)] /\ Unregister(t)
        /\ orphans' = orphans /\ replies' = [replies EXCEPT ![Top(t).id] = "none"]
        /\ UNCHANGED <<valid, conv, sent, answers, served, timely>>
    BY <1>9 DEF Finish, At
  <2> QED BY <2>1, EndKeeps
<1>10. CASE Serve \/ Crash \/ Invalidate
  BY <1>10, OthersKeep
<1>11. CASE UNCHANGED vars
  <2>1. TypeOK /\ Structure /\ TimelyIsKept
    BY DEF RequestInv
  <2>2. UNCHANGED <<requests, conv, replies, orphans, timely, valid, hears, sent, answers, served>>
    BY <1>11 DEF vars
  <2>3. TypeOK'
    BY <2>1, <2>2 DEF TypeOK
  <2>4. Structure'
    <3>1. requests' \in [Threads -> Seq(Request)]
      BY <2>3 DEF TypeOK
    <3>2. \A id \in timely' : Given(id, conv)
      BY <2>1, <2>2 DEF Structure, NumbersAreGiven
    <3> QED BY <2>1, <2>2, <3>1, <3>2, SameRequestsKeepStructure
  <2>5. TimelyIsKept'
    BY <2>1, <2>2 DEF TimelyIsKept, Places
  <2> QED BY <2>3, <2>4, <2>5 DEF RequestInv
<1> QED
  BY <1>1, <1>2, <1>3, <1>4, <1>5, <1>6, <1>7, <1>8, <1>9, <1>10, <1>11 DEF Next, Thread

LEMMA InitInv ==
  ASSUME RequestAssumption, Init
  PROVE  RequestInv
PROOF
<1>1. TypeOK
  <2>1. 0 \in Ids
    BY DEF Ids, RequestAssumption
  <2>2. <<>> \in Seq(Ids) /\ <<>> \in Seq(Request)
    BY EmptySeq
  <2> QED BY <2>1, <2>2 DEF Init, TypeOK, Entries
<1>2. \A t \in Threads : requests[t] = <<>> /\ Len(requests[t]) = 0
  BY DEF Init
<1>3. \A t \in Threads : Places(t) = {}
  BY <1>2 DEF Places
<1>4. OutermostRegisters /\ OuterRun /\ OneNumberEach /\ TimelyIsKept
  BY <1>2, <1>3 DEF Init, OutermostRegisters, OuterRun, OneNumberEach, TimelyIsKept
<1>5. NumbersAreGiven
  BY <1>3 DEF Init, NumbersAreGiven
<1>6. KeysHaveRequests
  BY DEF Init, KeysHaveRequests
<1> QED BY <1>1, <1>4, <1>5, <1>6 DEF RequestInv, Structure

-----------------------------------------------------------------------------
\* The variables keep their types: the counter stays an int32_t, and every
\* conversation's number is one (CFMessagePort.c:903).
THEOREM RequestTypeCorrect ==
  ASSUME RequestAssumption
  PROVE  Spec => []TypeOK
PROOF
<1>1. RequestInv => TypeOK
  BY DEF RequestInv
<1> QED BY <1>1, InitInv, StepKeeps, PTL DEF Spec

\* While a request waits, its run loop hears the reply port: a request within
\* it never takes the source away (CFMessagePort.c:914, 963).
THEOREM WaitersHear ==
  ASSUME RequestAssumption
  PROVE  Spec => []WaitersCanHear
PROOF
<1>1. RequestInv => WaitersCanHear
  BY DEF RequestInv, Structure, OutermostRegisters, WaitersCanHear
<1> QED BY <1>1, InitInv, StepKeeps, PTL DEF Spec

\* _replies has keys of requests that are being made, and of those whose
\* message could not be sent (CFMessagePort.c:929): a late reply brings none back.
THEOREM KeysHaveAnEnd ==
  ASSUME RequestAssumption
  PROVE  Spec => []KeysArePending
PROOF
<1>1. RequestInv => KeysArePending
  <2> SUFFICES ASSUME RequestInv, NEW i \in Ids, replies[i] # "none", i \notin orphans
      PROVE  \E t \in Threads : \E r \in Requests(t) : r.id = i
    BY DEF KeysArePending
  <2>1. PICK t \in Threads : \E j \in Places(t) : requests[t][j].id = i
    BY DEF RequestInv, Structure, KeysHaveRequests
  <2>2. PICK j \in Places(t) : requests[t][j].id = i
    BY <2>1
  <2>3. requests[t] \in Seq(Request)
    BY DEF RequestInv, TypeOK
  <2>4. requests[t][j] \in Requests(t)
    BY <2>3 DEF Places, Requests, ToSet
  <2> QED BY <2>2, <2>4
<1> QED BY <1>1, InitInv, StepKeeps, PTL DEF Spec

\* A reply that the thread's run loop has handled in time is returned, although
\* the deadline passes or the port is invalidated before it is looked for
\* (CFMessagePort.c:952): as no other conversation has its number, and no other
\* request its key.
THEOREM RepliesInTimeAreReturned ==
  ASSUME RequestAssumption
  PROVE  Spec => []TimelyReplyIsReturned
PROOF
<1>1. RequestInv => TimelyReplyIsReturned
  <2> SUFFICES ASSUME RequestInv, NEW t \in Threads, At(t, "finish"), Top(t).id \in timely
      PROVE  Top(t).got
    BY DEF TimelyReplyIsReturned
  <2>1. requests[t] # <<>> /\ Top(t).pc = "finish"
    BY DEF At
  <2>2. 1 \in Places(t)
    BY <2>1, FirstIsRequest DEF RequestInv
  <2> QED BY <2>1, <2>2 DEF RequestInv, TimelyIsKept, Top
<1> QED BY <1>1, InitInv, StepKeeps, PTL DEF Spec
=============================================================================
