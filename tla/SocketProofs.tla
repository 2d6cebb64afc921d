---------------------------- MODULE SocketProofs ----------------------------
(***************************************************************************)
(* Theorems of Socket, for any number of run loops that perform a socket's *)
(* source, any callback types, and any number of messages and calls.       *)
(***************************************************************************)
EXTENDS Socket, FiniteSetTheorems, TLAPS

----------------------------------------------------------------------------
(* The wake-up socket: every change of a set leaves a byte in it.            *)

LEMMA MinOfTwo ==
  ASSUME NEW m \in Nat, NEW n \in Nat
  PROVE  /\ Min({m, n}) \in {m, n}
         /\ Min({m, n}) <= m /\ Min({m, n}) <= n
  <1> DEFINE Least(x) == x \in {m, n} /\ \A y \in {m, n} : x <= y
  <1>1. \E x : Least(x)
    <2>1. CASE m <= n
      BY <2>1
    <2>2. CASE n <= m
      BY <2>2
    <2> QED
      BY <2>1, <2>2
  <1>2. Least(CHOOSE x : Least(x))
    BY <1>1, Zenon
  <1>3. Min({m, n}) = CHOOSE x \in {m, n} : \A y \in {m, n} : x <= y
    BY Zenon DEF Min
  <1>4. Min({m, n}) = CHOOSE x : Least(x)
    BY <1>3
  <1>5. Least(Min({m, n}))
    BY <1>2, <1>4, Zenon
  <1> QED
    BY <1>5

\* What sequences give and take.
LEMMA HeadAndTail ==
  ASSUME NEW S, NEW q \in Seq(S), q # <<>>
  PROVE  Head(q) \in S /\ Tail(q) \in Seq(S)
  OBVIOUS

LEMMA Appended ==
  ASSUME NEW S, NEW q \in Seq(S), NEW e \in S
  PROVE  Append(q, e) \in Seq(S)
  OBVIOUS

Changed(new) == (fds \ new) \cup (new \ fds)

LEMMA WokenIs ==
  ASSUME SocketAssumption, wakes \in 0..MaxWakes, fds \subseteq Directions,
         NEW new \in SUBSET Directions
  PROVE  /\ Woken(new) \in 0..MaxWakes /\ wakes <= Woken(new)
         /\ new # fds => Woken(new) > 0
  <1> DEFINE n == Cardinality(Changed(new))
  <1>1. IsFiniteSet(Directions)
    <2>1. IsFiniteSet({}) /\ IsFiniteSet({} \cup {"read"})
      BY FS_EmptySet, FS_AddElement
    <2>2. IsFiniteSet(({} \cup {"read"}) \cup {"write"})
      BY <2>1, FS_AddElement
    <2>3. Directions = ({} \cup {"read"}) \cup {"write"}
      BY DEF Directions
    <2> QED
      BY <2>2, <2>3, Zenon
  <1>2. IsFiniteSet(Changed(new))
    <2>1. Changed(new) \in SUBSET Directions
      BY DEF Changed
    <2> QED
      BY <1>1, <2>1, FS_Subset
  <1>3. n \in Nat /\ (n = 0 <=> Changed(new) = {})
    BY <1>2, FS_CardinalityType, FS_EmptySet
  <1>4. Changed(new) = {} => new = fds
    BY DEF Changed
  <1>5. MaxWakes \in Nat /\ MaxWakes # 0 /\ wakes \in Nat
    BY DEF SocketAssumption
  <1>6. Woken(new) = Min({wakes + n, MaxWakes})
    BY Zenon DEF Woken, Changed
  <1> HIDE DEF n
  <1>7. wakes + n \in Nat
    BY <1>3, <1>5
  <1>8. /\ Min({wakes + n, MaxWakes}) \in {wakes + n, MaxWakes}
        /\ Min({wakes + n, MaxWakes}) <= wakes + n /\ Min({wakes + n, MaxWakes}) <= MaxWakes
    BY <1>5, <1>7, MinOfTwo
  <1>9. \A a, b, m, w \in Nat :
          (m \in {a + b, w} /\ m <= a + b /\ m <= w /\ w # 0 /\ a <= w) =>
            m \in 0..w /\ a <= m /\ (b # 0 => m > 0)
    OBVIOUS
  <1>10. Woken(new) \in Nat
    BY <1>5, <1>6, <1>7, <1>8
  <1>11. /\ Woken(new) \in {wakes + n, MaxWakes}
         /\ Woken(new) <= wakes + n /\ Woken(new) <= MaxWakes
    BY <1>6, <1>8
  <1>12. wakes <= MaxWakes
    BY <1>5
  <1> QED
    BY <1>3, <1>4, <1>5, <1>9, <1>10, <1>11, <1>12

\* What a change of the sets does.
Moves ==
  /\ fds' \subseteq Directions /\ wakes' \in 0..MaxWakes
  /\ fds' # fds => wakes' > 0
  /\ wakes > 0 => wakes' > 0

LEMMA SetFdsMoves ==
  ASSUME SocketAssumption, TypeOK, NEW new \in SUBSET Directions, SetFds(new)
  PROVE  fds' = new /\ Moves
  <1>1. wakes \in 0..MaxWakes /\ fds \subseteq Directions
    BY DEF TypeOK
  <1>2. fds' = new /\ wakes' = Woken(new)
    BY DEF SetFds
  <1>3. /\ Woken(new) \in 0..MaxWakes /\ wakes <= Woken(new)
        /\ new # fds => Woken(new) > 0
    BY <1>1, WokenIs
  <1> QED
    BY <1>1, <1>2, <1>3 DEF Moves

----------------------------------------------------------------------------
(* What enabling, leaving and invalidating do.                               *)

LEMMA TurnedOnIs ==
  ASSUME NEW asked, NEW off
  PROVE  /\ TurnedOn(asked, off) \subseteq Directions
         /\ "read" \in TurnedOn(asked, off) <=>
              (asked \cap ReadType # {} /\ "read" \notin off)
         /\ "write" \in TurnedOn(asked, off) <=>
              \/ ("write" \in asked \ off /\ (NowConnected \/ "connect" \notin asked))
              \/ ("connect" \in asked \ off /\ ~NowConnected)
  BY DEF TurnedOn, Directions

Off(some, force) == IF force THEN disabled \ some ELSE disabled

LEMMA EnableEffect ==
  ASSUME SocketAssumption, TypeOK, NEW some \in SUBSET types, NEW force \in BOOLEAN,
         NEW scheduled \in BOOLEAN, EnableCallBacks(some, force, scheduled)
  PROVE  /\ Moves
         /\ some = {} \/ ~valid \/ ~scheduled =>
              UNCHANGED <<disabled, connected, inLists, fds, wakes>>
         /\ some # {} /\ valid /\ scheduled =>
              /\ disabled' = Off(some, force) /\ connected' = NowConnected
              /\ inLists' = IF force THEN inLists \cup TurnedOn(some, Off(some, force))
                            ELSE inLists
              /\ fds' = fds \cup TurnedOn(some, Off(some, force))
  <1>1. some \cap types = some
    OBVIOUS
  <1>2. CASE some = {} \/ ~valid \/ ~scheduled
    <2>1. UNCHANGED <<disabled, connected, inLists, fds, wakes>>
      BY <1>2, Zenon DEF EnableCallBacks
    <2>2. Moves
      BY <2>1 DEF Moves, TypeOK
    <2> QED
      BY <1>2, <2>1, <2>2
  <1>3. CASE some # {} /\ valid /\ scheduled
    <2> DEFINE on == TurnedOn(some, Off(some, force))
    <2>1. /\ disabled' = Off(some, force) /\ connected' = NowConnected
          /\ inLists' = IF force THEN inLists \cup on ELSE inLists
          /\ SetFds(fds \cup on)
      BY <1>1, <1>3, Zenon DEF EnableCallBacks, Off
    <2>2. on \subseteq Directions
      BY TurnedOnIs
    <2> HIDE DEF on
    <2>3. fds \cup on \in SUBSET Directions
      BY <2>2 DEF TypeOK
    <2>4. fds' = fds \cup on /\ Moves
      BY <2>1, <2>3, SetFdsMoves
    <2> QED
      BY <1>3, <2>1, <2>4 DEF on
  <1> QED
    BY <1>2, <1>3

\* What enabling may change, typed.
EnabledTyped ==
  /\ disabled' \subseteq types /\ connected' \in BOOLEAN
  /\ inLists' \subseteq Directions /\ fds' \subseteq Directions /\ wakes' \in 0..MaxWakes

LEMMA EnableTyped ==
  ASSUME SocketAssumption, TypeOK, NEW some \in SUBSET types, NEW force \in BOOLEAN,
         NEW scheduled \in BOOLEAN, EnableCallBacks(some, force, scheduled)
  PROVE  EnabledTyped
  <1>1. /\ disabled \subseteq types /\ connected \in BOOLEAN /\ oriented \in BOOLEAN
        /\ inLists \subseteq Directions
    BY DEF TypeOK
  <1>2. CASE some = {} \/ ~valid \/ ~scheduled
    BY <1>1, <1>2, EnableEffect DEF EnabledTyped, Moves
  <1>3. CASE some # {} /\ valid /\ scheduled
    <2>1. Off(some, force) \subseteq types /\ NowConnected \in BOOLEAN
      BY <1>1 DEF Off, NowConnected
    <2>2. TurnedOn(some, Off(some, force)) \subseteq Directions
      BY TurnedOnIs
    <2> QED
      BY <1>1, <1>3, <2>1, <2>2, EnableEffect DEF EnabledTyped, Moves
  <1> QED
    BY <1>2, <1>3

LEMMA LeaveEffect ==
  ASSUME SocketAssumption, TypeOK, LeaveLists
  PROVE  inLists' = {} /\ fds' = fds \ inLists /\ Moves
  <1>1. fds \ inLists \in SUBSET Directions
    BY DEF TypeOK
  <1> QED
    BY <1>1, SetFdsMoves DEF LeaveLists

LEMMA ArmedIs ==
  ASSUME TypeOK, NEW some \in SUBSET types, NEW force \in BOOLEAN, NEW scheduled \in BOOLEAN
  PROVE  /\ Armed(some, force, scheduled) =
              IF valid /\ scheduled THEN armed \cup TurnedOn(some, Off(some, force)) ELSE armed
         /\ Armed(some, force, scheduled) \subseteq Directions
  <1>1. some \cap types = some /\ armed \subseteq Directions
    BY DEF TypeOK
  <1>2. TurnedOn(some, Off(some, force)) \subseteq Directions
    BY TurnedOnIs
  <1>3. Armed(some, force, scheduled) =
          IF valid /\ scheduled THEN armed \cup TurnedOn(some, Off(some, force)) ELSE armed
    BY <1>1, Zenon DEF Armed, Off
  <1> QED
    BY <1>1, <1>2, <1>3

\* A thread that performs goes on to its next callback.
LEMMA ThenEffect ==
  ASSUME TypeOK, NEW t \in Performers, NEW called \in BOOLEAN,
         NEW pc \in {"idle", "connect", "read", "write", "again"}, Then(t, pc, called)
  PROVE  /\ performs' \in [Performers -> Performs]
         /\ \A u \in Performers : u # t => performs'[u] = performs[u]
         /\ performs'[t].pc = pc /\ performs'[t].data = performs[t].data
         /\ performs'[t].connect = performs[t].connect
  <1> DEFINE p == performs[t]
             q == [p EXCEPT !.pc = pc, !.called = p.called \/ called]
  <1>1. p \in Performs
    BY DEF TypeOK
  <1>2. performs' = [performs EXCEPT ![t] = q]
    BY Zenon DEF Then
  <1>3. p.called \/ called \in BOOLEAN
    BY <1>1 DEF Performs
  <1> HIDE DEF p
  <1>4. /\ q \in Performs /\ q.pc = pc /\ q.data = p.data /\ q.connect = p.connect
    BY <1>1, <1>3 DEF Performs
  <1> HIDE DEF q
  <1> QED
    BY <1>2, <1>4 DEF TypeOK, p

----------------------------------------------------------------------------
(* The types of the variables, and the lists while the source is scheduled:  *)
(* enabling again leaves them alone, as they have the socket already.        *)

ListsOK ==
  /\ SetsAreOfLists
  /\ setCount > 0 =>
       /\ valid
       /\ ReadType # {} => "read" \in inLists
       /\ "write" \in types => "write" \in inLists
  /\ setCount = 0 => armed = {}

SocketInv ==
  /\ TypeOK /\ ListsOK
  /\ "connect" \notin client
  /\ manager.pc = "queue" => manager.got # Nothing

LEMMA TypesOfSocket ==
  ASSUME SocketAssumption, TypeOK
  PROVE  /\ types \subseteq {"read", "accept", "connect", "write"}
         /\ ReadType = types \cap DataType /\ ReadType \subseteq types
         /\ MaxMessages \in Nat /\ MaxModes \in Nat /\ MaxCalls \in Nat
         /\ MaxWakes \in Nat /\ 0 \in 0..MaxWakes
         /\ setCount \in Nat /\ calls \in Nat /\ sent \in Nat /\ Nothing \in 0..Nothing
  BY DEF SocketAssumption, TypeOK, ReadType, Nothing

LEMMA CallTyped ==
  ASSUME SocketAssumption, TypeOK, Call
  PROVE  calls' \in 0..MaxCalls
  <1>1. calls \in Nat /\ MaxCalls \in Nat /\ calls < MaxCalls /\ calls' = calls + 1
    BY TypesOfSocket DEF Call
  <1> QED
    BY <1>1

LEMMA InitInv ==
  ASSUME SocketAssumption, Init
  PROVE  SocketInv
  <1>1. /\ types \subseteq {"read", "accept", "connect", "write"}
        /\ MaxMessages \in Nat /\ MaxModes \in Nat /\ MaxCalls \in Nat /\ MaxWakes \in Nat
    BY DEF Init, SocketAssumption
  <1>2. Nothing \in 0..Nothing /\ Nothing # EOF
    BY <1>1 DEF Nothing, EOF
  <1>3. Idle \in Performs
    BY <1>2 DEF Idle, Performs
  <1>4. manager \in [pc : ManagerPCs, fds : SUBSET Directions, got : 0..Nothing]
        /\ manager.pc = "copy"
    BY <1>2 DEF Init, ManagerPCs
  <1>5. client \subseteq types /\ "connect" \notin client
    BY DEF Init, DataType
  <1>6. /\ types \in TypeSets /\ oriented \in BOOLEAN /\ valid \in BOOLEAN /\ connected \in BOOLEAN
        /\ readSignalled \in BOOLEAN /\ writeSignalled \in BOOLEAN /\ errorCode \in BOOLEAN
        /\ signalled \in BOOLEAN /\ open \in BOOLEAN /\ writable \in BOOLEAN /\ ended \in BOOLEAN
    BY DEF Init
  <1>7. TypeOK
    BY <1>1, <1>3, <1>4, <1>5, <1>6 DEF Init, TypeOK
  <1>8. ListsOK
    BY DEF Init, ListsOK, SetsAreOfLists
  <1> QED
    BY <1>4, <1>5, <1>7, <1>8 DEF SocketInv

LEMMA EnableStep ==
  ASSUME SocketAssumption, SocketInv, NEW some \in SUBSET types, Enable(some)
  PROVE  SocketInv'
  <1>1. TypeOK /\ ListsOK /\ Scheduled \in BOOLEAN
    BY DEF SocketInv, Scheduled
  <1>2. EnableCallBacks(some, TRUE, Scheduled) /\ armed' = Armed(some, TRUE, Scheduled)
    BY Zenon DEF Enable
  <1>3. /\ UNCHANGED <<types, oriented, client, valid, setCount, readSignalled, writeSignalled,
                       errorCode, queue, signalled, manager, performs, open, writable, arrived,
                       ended, sent, delivered, connects>>
    BY DEF Enable, flags, signals, native
  <1>4. EnabledTyped /\ armed' \subseteq Directions /\ calls' \in 0..MaxCalls
    BY <1>1, <1>2, EnableTyped, ArmedIs, CallTyped DEF Enable
  <1>5. TypeOK'
    BY <1>1, <1>3, <1>4 DEF TypeOK, EnabledTyped
  <1>6. ListsOK'
    <2>1. ReadType' = ReadType
      BY <1>3 DEF ReadType
    <2>2. CASE some = {} \/ ~valid \/ ~Scheduled
      <3>1. inLists' = inLists /\ fds' = fds
        BY <1>1, <1>2, <2>2, EnableEffect
      <3>2. ASSUME setCount = 0 PROVE armed' = {}
        <4>1. ~Scheduled
          BY <3>2 DEF Scheduled
        <4>2. armed' = armed
          BY <1>1, <1>2, <4>1, ArmedIs
        <4> QED
          BY <1>1, <3>2, <4>2 DEF ListsOK
      <3> QED
        BY <1>1, <1>3, <2>1, <3>1, <3>2 DEF ListsOK, SetsAreOfLists
    <2>3. CASE some # {} /\ valid /\ Scheduled
      <3> DEFINE on == TurnedOn(some, Off(some, TRUE))
      <3>1. inLists' = inLists \cup on /\ fds' = fds \cup on
        BY <1>1, <1>2, <2>3, EnableEffect
      <3> HIDE DEF on
      <3>2. setCount > 0 /\ setCount # 0
        BY <1>1, <2>3 DEF Scheduled, TypeOK
      <3> QED
        BY <1>1, <1>3, <2>1, <3>1, <3>2 DEF ListsOK, SetsAreOfLists
    <2> QED
      BY <2>2, <2>3
  <1> QED
    BY <1>3, <1>5, <1>6 DEF SocketInv, Nothing

LEMMA DisableStep ==
  ASSUME SocketAssumption, SocketInv, NEW some \in SUBSET types, Disable(some)
  PROVE  SocketInv'
  <1>1. TypeOK /\ ListsOK /\ setCount \in Nat
    BY TypesOfSocket DEF SocketInv
  <1>2. /\ disabled' = disabled \cup some /\ connected' = NowConnected
        /\ SetFds(fds \ Stopped(some)) /\ valid /\ setCount > 0 /\ armed' \subseteq armed
    BY DEF Disable, Scheduled
  <1>3. /\ UNCHANGED <<types, oriented, client, valid, setCount, inLists, readSignalled,
                       writeSignalled, errorCode, queue, signalled, manager, performs, open,
                       writable, arrived, ended, sent, delivered, connects>>
    BY DEF Disable, flags, signals, native
  <1>4. fds \ Stopped(some) \in SUBSET Directions
    BY <1>1 DEF TypeOK
  <1>5. fds' = fds \ Stopped(some) /\ Moves
    BY <1>1, <1>2, <1>4, SetFdsMoves
  <1>6. connected' \in BOOLEAN /\ calls' \in 0..MaxCalls
    BY <1>1, <1>2, CallTyped DEF Disable, NowConnected, TypeOK
  <1>7. TypeOK'
    BY <1>1, <1>2, <1>3, <1>5, <1>6 DEF TypeOK, Moves
  <1>8. ListsOK'
    BY <1>1, <1>2, <1>3, <1>5 DEF ListsOK, SetsAreOfLists, ReadType
  <1> QED
    BY <1>3, <1>7, <1>8 DEF SocketInv, Nothing

LEMMA ScheduleStep ==
  ASSUME SocketAssumption, SocketInv, Schedule
  PROVE  SocketInv'
  <1>1. /\ TypeOK /\ ListsOK /\ setCount \in Nat /\ MaxModes \in Nat
        /\ types \subseteq {"read", "accept", "connect", "write"}
    BY TypesOfSocket DEF SocketInv
  <1>2. valid /\ setCount < MaxModes /\ setCount' = setCount + 1 /\ calls' \in 0..MaxCalls
    BY <1>1, CallTyped DEF Schedule
  <1>3. /\ UNCHANGED <<types, oriented, client, valid, readSignalled, writeSignalled,
                       errorCode, queue, signalled, manager, performs, open, writable, arrived,
                       ended, sent, delivered, connects>>
    BY DEF Schedule, flags, signals, native
  <1>4. CASE setCount = 0
    <2> DEFINE on == TurnedOn(types, Off(types, TRUE))
    <2>1. EnableCallBacks(types, TRUE, TRUE) /\ armed' = Armed(types, TRUE, TRUE)
      BY <1>4, Zenon DEF Schedule
    <2>2. EnabledTyped /\ armed' \subseteq Directions
      BY <1>1, <2>1, EnableTyped, ArmedIs
    <2>3. TypeOK'
      BY <1>1, <1>2, <1>3, <2>2 DEF TypeOK, EnabledTyped
    <2>4. types # {} => inLists' = inLists \cup on /\ fds' = fds \cup on
      BY <1>1, <1>2, <2>1, EnableEffect
    <2>5. types = {} => inLists' = inLists /\ fds' = fds
      BY <1>1, <2>1, EnableEffect
    <2>6. Off(types, TRUE) = {}
      BY <1>1 DEF Off, TypeOK
    <2>7. /\ ReadType # {} => "read" \in on
          /\ "write" \in types => "write" \in on
      <3>1. types \cap ReadType = ReadType
        BY DEF ReadType
      <3> QED
        BY <2>6, <3>1, TurnedOnIs
    <2> HIDE DEF on
    <2>8. types = {} => ReadType = {} /\ "write" \notin types
      BY DEF ReadType
    <2>9. SetsAreOfLists'
      BY <1>1, <2>4, <2>5 DEF ListsOK, SetsAreOfLists
    <2>10. /\ ReadType # {} => "read" \in inLists'
           /\ "write" \in types => "write" \in inLists'
      BY <2>4, <2>7, <2>8
    <2>11. ListsOK'
      BY <1>1, <1>2, <1>3, <2>9, <2>10 DEF ListsOK, ReadType
    <2> QED
      BY <1>3, <2>3, <2>11 DEF SocketInv, Nothing
  <1>5. CASE setCount # 0
    <2>1. UNCHANGED <<disabled, connected, inLists, fds, wakes, armed>>
      BY <1>5 DEF Schedule
    <2>2. TypeOK'
      BY <1>1, <1>2, <1>3, <2>1 DEF TypeOK
    <2>3. ListsOK'
      BY <1>1, <1>2, <1>3, <1>5, <2>1 DEF ListsOK, SetsAreOfLists, ReadType
    <2> QED
      BY <1>3, <2>2, <2>3 DEF SocketInv, Nothing
  <1> QED
    BY <1>4, <1>5

LEMMA CancelStep ==
  ASSUME SocketAssumption, SocketInv, Cancel
  PROVE  SocketInv'
  <1>1. TypeOK /\ ListsOK /\ setCount \in Nat /\ MaxModes \in Nat
    BY TypesOfSocket DEF SocketInv
  <1>2. setCount > 0 /\ setCount' = setCount - 1 /\ calls' \in 0..MaxCalls
    BY <1>1, CallTyped DEF Cancel, Scheduled
  <1>3. /\ UNCHANGED <<types, oriented, client, valid, disabled, connected, readSignalled,
                       writeSignalled, errorCode, queue, signalled, manager, performs, open,
                       writable, arrived, ended, sent, delivered, connects>>
    BY DEF Cancel, flags, signals, native
  <1>4. CASE setCount = 1
    <2>1. LeaveLists /\ armed' = {}
      BY <1>4 DEF Cancel
    <2>2. inLists' = {} /\ fds' = fds \ inLists /\ Moves
      BY <1>1, <2>1, LeaveEffect
    <2>3. TypeOK'
      BY <1>1, <1>2, <1>3, <2>1, <2>2 DEF TypeOK, Moves
    <2>4. ListsOK'
      BY <1>1, <1>2, <1>4, <2>1, <2>2 DEF ListsOK, SetsAreOfLists
    <2> QED
      BY <1>3, <2>3, <2>4 DEF SocketInv, Nothing
  <1>5. CASE setCount # 1
    <2>1. UNCHANGED <<inLists, fds, wakes, armed>>
      BY <1>5 DEF Cancel
    <2>2. TypeOK'
      BY <1>1, <1>2, <1>3, <2>1 DEF TypeOK
    <2>3. ListsOK'
      BY <1>1, <1>2, <1>3, <1>5, <2>1 DEF ListsOK, SetsAreOfLists, ReadType
    <2> QED
      BY <1>3, <2>2, <2>3 DEF SocketInv, Nothing
  <1> QED
    BY <1>4, <1>5

\* What invalidation leaves.
LEMMA InvalidatedEffect ==
  ASSUME SocketAssumption, SocketInv, NEW closes \in BOOLEAN, Invalidated(closes)
  PROVE  /\ valid' = FALSE /\ setCount' = 0 /\ queue' = <<>> /\ armed' = {} /\ inLists' = {}
         /\ fds' = {} /\ Moves /\ open' \in BOOLEAN
         /\ readSignalled' = FALSE /\ writeSignalled' = FALSE /\ signalled' = FALSE
         /\ UNCHANGED <<disabled, connected, errorCode>>
  <1>1. TypeOK /\ fds \subseteq inLists /\ open \in BOOLEAN
    BY DEF SocketInv, ListsOK, SetsAreOfLists, TypeOK
  <1>2. LeaveLists /\ open' = (open /\ ~closes)
    BY DEF Invalidated
  <1>3. inLists' = {} /\ fds' = fds \ inLists /\ Moves
    BY <1>1, <1>2, LeaveEffect
  <1> QED
    BY <1>1, <1>2, <1>3 DEF Invalidated

\* The invariant after it, where the rest is typed.
LEMMA InvalidatedStep ==
  ASSUME SocketAssumption, SocketInv, NEW closes \in BOOLEAN, Invalidated(closes),
         UNCHANGED flags, calls' \in 0..MaxCalls,
         manager' \in [pc : ManagerPCs, fds : SUBSET Directions, got : 0..Nothing],
         manager'.pc = "queue" => manager'.got # Nothing,
         performs' \in [Performers -> Performs], delivered' \in Seq(0..MaxMessages),
         UNCHANGED <<writable, arrived, ended, sent, connects>>
  PROVE  SocketInv'
  <1>1. TypeOK /\ ListsOK /\ setCount \in Nat /\ MaxModes \in Nat /\ "connect" \notin client
    BY TypesOfSocket DEF SocketInv
  <1>2. /\ valid' = FALSE /\ setCount' = 0 /\ queue' = <<>> /\ armed' = {} /\ inLists' = {}
        /\ fds' = {} /\ Moves /\ open' \in BOOLEAN
        /\ readSignalled' = FALSE /\ writeSignalled' = FALSE /\ signalled' = FALSE
        /\ UNCHANGED <<disabled, connected, errorCode>>
    BY InvalidatedEffect
  <1>3. UNCHANGED <<types, oriented, client>>
    BY DEF flags
  <1>4. TypeOK'
    <2>1. /\ types' \in TypeSets /\ client' \subseteq types' /\ disabled' \subseteq types'
          /\ oriented' \in BOOLEAN /\ connected' \in BOOLEAN /\ errorCode' \in BOOLEAN
          /\ writable' \in BOOLEAN /\ ended' \in BOOLEAN
      BY <1>1, <1>2, <1>3 DEF TypeOK
    <2>2. /\ valid' \in BOOLEAN /\ readSignalled' \in BOOLEAN /\ writeSignalled' \in BOOLEAN
          /\ signalled' \in BOOLEAN /\ open' \in BOOLEAN
          /\ inLists' \subseteq Directions /\ fds' \subseteq Directions
          /\ armed' \subseteq Directions /\ wakes' \in 0..MaxWakes
      BY <1>2 DEF Moves
    <2>3. sent' \in 0..MaxMessages /\ connects' \in Nat /\ arrived' \in Seq(1..MaxMessages)
      BY <1>1 DEF TypeOK
    <2>4. queue' \in Seq(0..MaxMessages)
      BY <1>2
    <2>5. setCount' \in 0..MaxModes
      BY <1>1, <1>2
    <2> QED
      BY <2>1, <2>2, <2>3, <2>4, <2>5 DEF TypeOK
  <1>5. ListsOK'
    BY <1>2 DEF ListsOK, SetsAreOfLists
  <1> QED
    BY <1>1, <1>3, <1>4, <1>5 DEF SocketInv, Nothing

LEMMA InvalidateStep ==
  ASSUME SocketAssumption, SocketInv, Invalidate
  PROVE  SocketInv'
  <1>1. PICK closes \in BOOLEAN : Invalidated(closes)
    BY DEF Invalidate
  <1>2. /\ UNCHANGED <<types, oriented, client, manager, performs, writable, arrived, ended,
                       sent, delivered, connects>>
        /\ UNCHANGED flags
    BY DEF Invalidate, flags
  <1>3. TypeOK /\ calls' \in 0..MaxCalls
    BY CallTyped DEF Invalidate, SocketInv
  <1>4. /\ manager' \in [pc : ManagerPCs, fds : SUBSET Directions, got : 0..Nothing]
        /\ performs' \in [Performers -> Performs] /\ delivered' \in Seq(0..MaxMessages)
    BY <1>2, <1>3 DEF TypeOK
  <1>5. manager'.pc = "queue" => manager'.got # Nothing
    BY <1>2 DEF SocketInv
  <1> QED
    BY <1>1, <1>2, <1>3, <1>4, <1>5, InvalidatedStep

LEMMA SetFlagsStep ==
  ASSUME SocketAssumption, SocketInv, NEW bits \in Reenabled, bits \subseteq types,
         SetSocketFlags(bits)
  PROVE  SocketInv'
  <1>1. TypeOK /\ ListsOK /\ "connect" \notin bits
    BY DEF SocketInv, SocketAssumption
  <1>2. /\ UNCHANGED <<types, oriented, valid, disabled, connected, setCount, inLists,
                       readSignalled, writeSignalled, errorCode, queue, signalled, fds, wakes,
                       manager, performs, open, writable, arrived, ended, sent, armed,
                       delivered, connects>>
        /\ client' = bits
    BY DEF SetSocketFlags, state, signals, native
  <1>3. calls' \in 0..MaxCalls
    BY <1>1, CallTyped DEF SetSocketFlags
  <1>4. TypeOK'
    BY <1>1, <1>2, <1>3 DEF TypeOK
  <1>5. ListsOK'
    BY <1>1, <1>2 DEF ListsOK, SetsAreOfLists, ReadType
  <1> QED
    BY <1>1, <1>2, <1>4, <1>5 DEF SocketInv, Nothing

\* What the manager and the other end change, where they do not change the sets.
LEMMA ManagerStep ==
  ASSUME SocketAssumption, SocketInv, UNCHANGED <<flags, state, performs, history, open>>,
         manager' \in [pc : ManagerPCs, fds : SUBSET Directions, got : 0..Nothing],
         manager'.pc = "queue" => manager'.got # Nothing,
         fds' \subseteq inLists, wakes' \in 0..MaxWakes,
         readSignalled' \in BOOLEAN, writeSignalled' \in BOOLEAN, errorCode' \in BOOLEAN,
         signalled' \in BOOLEAN, queue' \in Seq(0..MaxMessages),
         writable' \in BOOLEAN, ended' \in BOOLEAN,
         arrived' \in Seq(1..MaxMessages), sent' \in 0..MaxMessages
  PROVE  SocketInv'
  <1>1. TypeOK /\ ListsOK /\ "connect" \notin client
    BY DEF SocketInv
  <1>2. UNCHANGED <<types, oriented, client, valid, disabled, connected, setCount, inLists,
                    performs, calls, armed, delivered, connects, open>>
    BY DEF flags, state, history
  <1>3. fds' \subseteq Directions
    BY <1>1 DEF TypeOK
  <1>4. TypeOK'
    <2>1. /\ types' \in TypeSets /\ client' \subseteq types' /\ disabled' \subseteq types'
          /\ oriented' \in BOOLEAN /\ connected' \in BOOLEAN /\ valid' \in BOOLEAN
          /\ open' \in BOOLEAN /\ inLists' \subseteq Directions /\ armed' \subseteq Directions
      BY <1>1, <1>2 DEF TypeOK
    <2>2. /\ setCount' \in 0..MaxModes /\ calls' \in 0..MaxCalls /\ connects' \in Nat
          /\ performs' \in [Performers -> Performs] /\ delivered' \in Seq(0..MaxMessages)
      BY <1>1, <1>2 DEF TypeOK
    <2> QED
      BY <1>3, <2>1, <2>2 DEF TypeOK
  <1>5. ListsOK'
    BY <1>1, <1>2 DEF ListsOK, SetsAreOfLists, ReadType
  <1> QED
    BY <1>1, <1>2, <1>4, <1>5 DEF SocketInv, Nothing

\* What it does not name stays typed.
LEMMA TypedParts ==
  ASSUME SocketInv
  PROVE  /\ manager \in [pc : ManagerPCs, fds : SUBSET Directions, got : 0..Nothing]
         /\ manager.pc = "queue" => manager.got # Nothing
         /\ fds \subseteq inLists /\ inLists \subseteq Directions /\ wakes \in 0..MaxWakes
         /\ readSignalled \in BOOLEAN /\ writeSignalled \in BOOLEAN /\ errorCode \in BOOLEAN
         /\ signalled \in BOOLEAN /\ queue \in Seq(0..MaxMessages)
         /\ writable \in BOOLEAN /\ ended \in BOOLEAN
         /\ arrived \in Seq(1..MaxMessages) /\ sent \in 0..MaxMessages
  BY DEF SocketInv, TypeOK, ListsOK, SetsAreOfLists

LEMMA CopyStep ==
  ASSUME SocketAssumption, SocketInv, Copy
  PROVE  SocketInv'
  <1>1. Nothing \in 0..Nothing /\ fds \subseteq Directions
    BY TypesOfSocket DEF SocketInv, TypeOK
  <1>2. /\ manager' \in [pc : ManagerPCs, fds : SUBSET Directions, got : 0..Nothing]
        /\ manager'.pc # "queue"
    BY <1>1 DEF Copy, ManagerPCs
  <1>3. UNCHANGED <<readSignalled, writeSignalled, errorCode, queue, signalled, fds, wakes,
                    open, writable, arrived, ended, sent>>
    BY DEF Copy, signals, native
  <1>4. UNCHANGED <<flags, state, performs, history, open>>
    BY DEF Copy, native
  <1> QED
    BY <1>2, <1>3, <1>4, TypedParts, ManagerStep

LEMMA SelectStep ==
  ASSUME SocketAssumption, SocketInv, Select
  PROVE  SocketInv'
  <1>1. manager \in [pc : ManagerPCs, fds : SUBSET Directions, got : 0..Nothing]
    BY TypedParts
  <1>2. /\ manager' \in [pc : ManagerPCs, fds : SUBSET Directions, got : 0..Nothing]
        /\ manager'.pc # "queue"
    BY <1>1 DEF Select, Goto, ManagerPCs, Ready
  <1>3. wakes' \in 0..MaxWakes
    BY TypesOfSocket DEF Select, SocketInv, TypeOK
  <1>4. UNCHANGED <<readSignalled, writeSignalled, errorCode, queue, signalled, fds,
                    open, writable, arrived, ended, sent>>
    BY DEF Select, signals, native
  <1>5. UNCHANGED <<flags, state, performs, history, open>>
    BY DEF Select, native
  <1> QED
    BY <1>2, <1>3, <1>4, <1>5, TypedParts, ManagerStep

LEMMA ManageErrorStep ==
  ASSUME SocketAssumption, SocketInv, ManageSelectError
  PROVE  SocketInv'
  <1>1. manager \in [pc : ManagerPCs, fds : SUBSET Directions, got : 0..Nothing]
    BY TypedParts
  <1>2. /\ manager' \in [pc : ManagerPCs, fds : SUBSET Directions, got : 0..Nothing]
        /\ manager'.pc # "queue"
    BY <1>1 DEF ManageSelectError, Goto, ManagerPCs
  <1>3. /\ UNCHANGED <<performs, writable, arrived, ended, sent, calls, delivered, connects>>
        /\ UNCHANGED flags
    BY DEF ManageSelectError
  <1>4. CASE inLists # {} /\ ~open
    <2>1. Invalidated(TRUE)
      BY <1>4 DEF ManageSelectError
    <2>2. /\ calls' \in 0..MaxCalls /\ performs' \in [Performers -> Performs]
          /\ delivered' \in Seq(0..MaxMessages)
      BY <1>3 DEF SocketInv, TypeOK
    <2> QED
      BY <1>2, <1>3, <2>1, <2>2, InvalidatedStep
  <1>5. CASE ~(inLists # {} /\ ~open)
    <2>1. /\ UNCHANGED <<readSignalled, writeSignalled, errorCode, queue, signalled, wakes>>
          /\ UNCHANGED <<state, open, armed>> /\ fds' \in {fds, {}}
      BY <1>5 DEF ManageSelectError, signals
    <2>2. UNCHANGED <<flags, state, performs, history, open>>
      BY <1>3, <2>1 DEF history
    <2>3. fds' \subseteq inLists
      BY <2>1, TypedParts
    <2> QED
      BY <1>2, <1>3, <2>1, <2>2, <2>3, TypedParts, ManagerStep
  <1> QED
    BY <1>4, <1>5

LEMMA CollectStep ==
  ASSUME SocketAssumption, SocketInv, Collect
  PROVE  SocketInv'
  <1>1. manager \in [pc : ManagerPCs, fds : SUBSET Directions, got : 0..Nothing]
        /\ fds \subseteq inLists
    BY TypedParts
  <1>2. /\ manager' \in [pc : ManagerPCs, fds : SUBSET Directions, got : 0..Nothing]
        /\ manager'.pc # "queue" /\ fds' \subseteq inLists
    BY <1>1 DEF Collect, ManagerPCs
  <1>3. UNCHANGED <<readSignalled, writeSignalled, errorCode, queue, signalled, wakes,
                    open, writable, arrived, ended, sent>>
    BY DEF Collect, signals, native
  <1>4. UNCHANGED <<flags, state, performs, history, open>>
    BY DEF Collect, native
  <1> QED
    BY <1>2, <1>3, <1>4, TypedParts, ManagerStep

LEMMA HandleWriteStep ==
  ASSUME SocketAssumption, SocketInv, HandleWrite
  PROVE  SocketInv'
  <1>1. manager \in [pc : ManagerPCs, fds : SUBSET Directions, got : 0..Nothing]
        /\ fds \subseteq inLists /\ connected \in BOOLEAN
    BY TypedParts DEF SocketInv, TypeOK
  <1>2. /\ manager' \in [pc : ManagerPCs, fds : SUBSET Directions, got : 0..Nothing]
        /\ manager'.pc # "queue"
    BY <1>1 DEF HandleWrite, ManagerPCs
  <1>3. writeSignalled' \in BOOLEAN /\ errorCode' \in BOOLEAN /\ signalled' \in BOOLEAN
    BY <1>1, TypedParts DEF HandleWrite
  <1>4. UNCHANGED <<readSignalled, queue, fds, wakes, open, writable, arrived, ended, sent>>
    BY DEF HandleWrite, native
  <1>5. UNCHANGED <<flags, state, performs, history, open>>
    BY DEF HandleWrite, native
  <1> QED
    BY <1>2, <1>3, <1>4, <1>5, TypedParts, ManagerStep

LEMMA TakeStep ==
  ASSUME SocketAssumption, SocketInv, Take
  PROVE  SocketInv'
  <1>1. MaxMessages \in Nat
    BY DEF SocketAssumption
  <1>2. /\ arrived # <<>> =>
             Head(arrived) \in 1..MaxMessages /\ Tail(arrived) \in Seq(1..MaxMessages)
    BY TypedParts, HeadAndTail
  <1> DEFINE taken == IF arrived = <<>> THEN EOF ELSE Head(arrived)
  <1>3. taken \in 0..Nothing /\ taken # Nothing
    BY <1>1, <1>2 DEF EOF, Nothing
  <1>4. manager' = [manager EXCEPT !.pc = "queue", !.got = taken]
    BY DEF Take
  <1> HIDE DEF taken
  <1>5. /\ manager' \in [pc : ManagerPCs, fds : SUBSET Directions, got : 0..Nothing]
        /\ manager'.got # Nothing
    BY <1>3, <1>4, TypedParts DEF ManagerPCs
  <1>6. arrived' \in Seq(1..MaxMessages)
    BY <1>2, TypedParts DEF Take
  <1>7. UNCHANGED <<readSignalled, writeSignalled, errorCode, queue, signalled, fds, wakes,
                    open, writable, ended, sent>>
    BY DEF Take, signals
  <1>8. UNCHANGED <<flags, state, performs, history, open>>
    BY DEF Take
  <1> QED
    BY <1>5, <1>6, <1>7, <1>8, TypedParts, ManagerStep

LEMMA HandleReadStep ==
  ASSUME SocketAssumption, SocketInv, HandleRead
  PROVE  SocketInv'
  <1>1. TypeOK /\ ListsOK /\ Nothing \in 0..Nothing /\ MaxMessages \in Nat
    BY TypesOfSocket DEF SocketInv
  <1>2. /\ manager' \in [pc : ManagerPCs, fds : SUBSET Directions, got : 0..Nothing]
        /\ manager'.pc # "queue"
    BY <1>1 DEF HandleRead, ManagerPCs
  <1>3. UNCHANGED <<writeSignalled, errorCode, open, writable, arrived, ended, sent>>
    BY DEF HandleRead, native
  <1>4. UNCHANGED <<flags, state, performs, history, open>>
    BY DEF HandleRead, native
  <1> DEFINE quiet == ~valid \/ "read" \notin manager.fds \/ (~Queues /\ "read" \in disabled)
  <1>5. CASE quiet
    <2>1. UNCHANGED <<readSignalled, signalled, queue, fds, wakes>>
      BY <1>5 DEF HandleRead
    <2> QED
      BY <1>2, <1>3, <1>4, <2>1, TypedParts, ManagerStep
  <1>6. CASE ~quiet
    <2>1. /\ readSignalled' = TRUE /\ signalled' = TRUE
          /\ Queues => queue' = Append(queue, manager.got)
          /\ ~Queues => UNCHANGED <<queue, fds, wakes>>
          /\ Queues /\ Restores => SetFds(fds \cup {"read"})
          /\ Queues /\ ~Restores => UNCHANGED <<fds, wakes>>
      BY <1>6 DEF HandleRead
    <2>2. queue' \in Seq(0..MaxMessages)
      <3>1. CASE Queues
        <4>1. manager.pc = "queue"
          BY <1>6, <3>1 DEF HandleRead, At
        <4>2. manager.got \in 0..Nothing /\ manager.got # Nothing
          BY <4>1, TypedParts
        <4>3. manager.got \in 0..MaxMessages
          BY <1>1, <4>2 DEF Nothing
        <4> QED
          BY <2>1, <3>1, <4>3, TypedParts, Appended
      <3> QED
        BY <2>1, <3>1, TypedParts
    <2>3. fds' \subseteq inLists /\ wakes' \in 0..MaxWakes
      <3>1. CASE Queues /\ Restores
        <4>1. fds \cup {"read"} \in SUBSET Directions /\ SetFds(fds \cup {"read"})
          BY <1>1, <2>1, <3>1 DEF TypeOK, Directions
        <4>2. fds' = fds \cup {"read"} /\ Moves
          BY <1>1, <4>1, SetFdsMoves
        <4>3. "read" \in inLists
          BY <1>1, <3>1 DEF Restores, Scheduled, ListsOK
        <4> QED
          BY <4>2, <4>3, TypedParts DEF Moves
      <3>2. CASE ~(Queues /\ Restores)
        <4>1. UNCHANGED <<fds, wakes>>
          BY <2>1, <3>2
        <4> QED
          BY <4>1, TypedParts
      <3> QED
        BY <3>1, <3>2
    <2> QED
      BY <1>2, <1>3, <1>4, <2>1, <2>2, <2>3, TypedParts, ManagerStep
  <1> QED
    BY <1>5, <1>6

\* What a performing thread changes.
LEMMA PerformerStep ==
  ASSUME SocketAssumption, SocketInv,
         UNCHANGED <<flags, valid, disabled, setCount, inLists, errorCode, manager, native,
                     calls>>,
         performs' \in [Performers -> Performs], connected' \in BOOLEAN,
         fds' \subseteq inLists, wakes' \in 0..MaxWakes,
         readSignalled' \in BOOLEAN, writeSignalled' \in BOOLEAN, signalled' \in BOOLEAN,
         queue' \in Seq(0..MaxMessages), delivered' \in Seq(0..MaxMessages),
         armed' \subseteq Directions, setCount = 0 => armed' = {}, connects' \in Nat
  PROVE  SocketInv'
  <1>1. TypeOK /\ ListsOK
    BY DEF SocketInv
  <1>2. UNCHANGED <<types, oriented, client, valid, disabled, setCount, inLists, errorCode,
                    manager, calls, open, writable, arrived, ended, sent>>
    BY DEF flags, native
  <1>3. TypeOK'
    <2>1. /\ types' \in TypeSets /\ client' \subseteq types' /\ disabled' \subseteq types'
          /\ oriented' \in BOOLEAN /\ valid' \in BOOLEAN /\ errorCode' \in BOOLEAN
          /\ open' \in BOOLEAN /\ writable' \in BOOLEAN /\ ended' \in BOOLEAN
          /\ inLists' \subseteq Directions /\ fds' \subseteq Directions
      BY <1>1, <1>2 DEF TypeOK
    <2>2. /\ setCount' \in 0..MaxModes /\ calls' \in 0..MaxCalls /\ sent' \in 0..MaxMessages
          /\ arrived' \in Seq(1..MaxMessages)
          /\ manager' \in [pc : ManagerPCs, fds : SUBSET Directions, got : 0..Nothing]
      BY <1>1, <1>2 DEF TypeOK
    <2> QED
      BY <2>1, <2>2 DEF TypeOK
  <1>4. ListsOK'
    BY <1>1, <1>2 DEF ListsOK, SetsAreOfLists, ReadType
  <1> QED
    BY <1>2, <1>3, <1>4 DEF SocketInv, Nothing

\* What it changes of the rest stays typed.
LEMMA PerformerParts ==
  ASSUME SocketInv
  PROVE  /\ performs \in [Performers -> Performs] /\ connected \in BOOLEAN
         /\ fds \subseteq inLists /\ wakes \in 0..MaxWakes
         /\ readSignalled \in BOOLEAN /\ writeSignalled \in BOOLEAN /\ signalled \in BOOLEAN
         /\ errorCode \in BOOLEAN
         /\ queue \in Seq(0..MaxMessages) /\ delivered \in Seq(0..MaxMessages)
         /\ armed \subseteq Directions /\ (setCount = 0 => armed = {}) /\ connects \in Nat
  BY DEF SocketInv, TypeOK, ListsOK, SetsAreOfLists

\* What a thread that starts to perform takes along.
Begun ==
  [pc |-> "connect", read |-> readSignalled, write |-> writeSignalled,
   connect |-> writeSignalled /\ ~connected, error |-> writeSignalled /\ errorCode,
   data |-> IF Queues /\ queue # <<>> THEN Head(queue) ELSE Nothing, called |-> FALSE]

LEMMA BegunIs ==
  ASSUME SocketAssumption, SocketInv
  PROVE  Begun \in Performs
  <1>1. Nothing \in 0..Nothing /\ MaxMessages \in Nat
    BY TypesOfSocket DEF SocketInv
  <1>2. queue # <<>> => Head(queue) \in 0..Nothing
    BY <1>1, PerformerParts, HeadAndTail DEF Nothing
  <1> DEFINE data == IF Queues /\ queue # <<>> THEN Head(queue) ELSE Nothing
  <1>3. data \in 0..Nothing
    BY <1>1, <1>2
  <1>4. Begun = [pc |-> "connect", read |-> readSignalled, write |-> writeSignalled,
                 connect |-> writeSignalled /\ ~connected,
                 error |-> writeSignalled /\ errorCode, data |-> data, called |-> FALSE]
    BY Zenon DEF Begun
  <1>5. /\ (writeSignalled /\ ~connected) \in BOOLEAN /\ (writeSignalled /\ errorCode) \in BOOLEAN
        /\ readSignalled \in BOOLEAN /\ writeSignalled \in BOOLEAN
    BY PerformerParts
  <1> HIDE DEF data
  <1> QED
    BY <1>3, <1>4, <1>5 DEF Performs

LEMMA PerformStep ==
  ASSUME SocketAssumption, SocketInv, NEW t \in Performers, Perform(t)
  PROVE  SocketInv'
  <1>1. performs' = [performs EXCEPT ![t] = Begun]
    BY Zenon DEF Perform, Begun
  <1>2. performs' \in [Performers -> Performs]
    BY <1>1, BegunIs, PerformerParts
  <1>3. queue' \in Seq(0..MaxMessages)
    BY PerformerParts, HeadAndTail DEF Perform
  <1>4. /\ UNCHANGED <<flags, valid, disabled, setCount, inLists, errorCode, manager, native,
                       calls>>
        /\ UNCHANGED <<fds, wakes, delivered, connects>>
        /\ readSignalled' = FALSE /\ writeSignalled' = FALSE /\ signalled' = FALSE
        /\ connected' = (connected \/ writeSignalled) /\ armed' \subseteq armed
    BY DEF Perform
  <1>5. /\ armed' \subseteq Directions /\ (setCount = 0 => armed' = {})
        /\ connected' \in BOOLEAN
    BY <1>4, PerformerParts
  <1> QED
    BY <1>2, <1>3, <1>4, <1>5, PerformerParts, PerformerStep

LEMMA ConnectStep ==
  ASSUME SocketAssumption, SocketInv, NEW t \in Performers, Connect(t)
  PROVE  SocketInv'
  <1> DEFINE calledOut == Calls(t, "connect" \in types /\ performs[t].connect)
  <1>1. performs[t] \in Performs /\ valid \in BOOLEAN /\ connects \in Nat
    BY PerformerParts DEF SocketInv, TypeOK
  <1>2. calledOut \in BOOLEAN
    BY <1>1 DEF Calls
  <1>3. Then(t, "read", calledOut)
    BY DEF Connect
  <1>4. connects' = IF calledOut THEN connects + 1 ELSE connects
    BY DEF Connect
  <1> HIDE DEF calledOut
  <1>5. performs' \in [Performers -> Performs]
    BY <1>2, <1>3, ThenEffect DEF SocketInv
  <1>6. connects' \in Nat
    BY <1>1, <1>4
  <1>7. /\ UNCHANGED <<flags, valid, disabled, setCount, inLists, errorCode, manager, native,
                       calls>>
        /\ UNCHANGED <<connected, readSignalled, writeSignalled, queue, signalled, fds, wakes,
                       armed, delivered>>
    BY DEF Connect, state, signals
  <1> QED
    BY <1>5, <1>6, <1>7, PerformerParts, PerformerStep

LEMMA WriteStep ==
  ASSUME SocketAssumption, SocketInv, NEW t \in Performers, Write(t)
  PROVE  SocketInv'
  <1> DEFINE calledOut ==
        Calls(t, "write" \in types /\ performs[t].write /\ ~performs[t].error)
  <1>1. performs[t] \in Performs /\ valid \in BOOLEAN
    BY PerformerParts DEF SocketInv, TypeOK
  <1>2. calledOut \in BOOLEAN
    BY <1>1 DEF Calls
  <1>3. Then(t, "again", calledOut)
    BY DEF Write
  <1> HIDE DEF calledOut
  <1>4. performs' \in [Performers -> Performs]
    BY <1>2, <1>3, ThenEffect DEF SocketInv
  <1>5. /\ UNCHANGED <<flags, valid, disabled, setCount, inLists, errorCode, manager, native,
                       calls>>
        /\ UNCHANGED <<connected, readSignalled, writeSignalled, queue, signalled, fds, wakes,
                       armed, delivered, connects>>
    BY DEF Write, state, signals, history
  <1> QED
    BY <1>4, <1>5, PerformerParts, PerformerStep

LEMMA ReadStep ==
  ASSUME SocketAssumption, SocketInv, NEW t \in Performers, Read(t)
  PROVE  SocketInv'
  <1> DEFINE data == performs[t].data
             calledOut == Calls(t, IF Queues THEN data # Nothing
                                   ELSE "read" \in types /\ performs[t].read)
             last == calledOut /\ ReadType = DataType /\ data = EOF /\ valid
  <1>1. performs[t] \in Performs /\ valid \in BOOLEAN /\ MaxMessages \in Nat /\ TypeOK
    BY PerformerParts, TypesOfSocket DEF SocketInv, TypeOK
  <1>2. calledOut \in BOOLEAN /\ data \in 0..Nothing
    BY <1>1 DEF Calls, Performs
  <1>3. /\ Then(t, "write", calledOut)
        /\ delivered' = IF calledOut /\ Queues THEN Append(delivered, data) ELSE delivered
        /\ last => Invalidated(TRUE)
        /\ ~last => UNCHANGED <<state, signals, fds, wakes, open, armed>>
    BY Zenon DEF Read
  <1>4. calledOut /\ Queues => data \in 0..MaxMessages
    BY <1>1, <1>2 DEF Calls, Nothing
  <1> HIDE DEF calledOut, data
  <1>5. performs' \in [Performers -> Performs]
    BY <1>1, <1>2, <1>3, ThenEffect
  <1>6. delivered' \in Seq(0..MaxMessages)
    BY <1>3, <1>4, PerformerParts, Appended
  <1>7. /\ UNCHANGED flags
        /\ UNCHANGED <<manager, writable, arrived, ended, sent, calls, connects>>
    BY DEF Read
  <1>8. CASE last
    <2>1. calls' \in 0..MaxCalls
      BY <1>1, <1>7 DEF TypeOK
    <2>2. /\ manager' \in [pc : ManagerPCs, fds : SUBSET Directions, got : 0..Nothing]
          /\ manager'.pc = "queue" => manager'.got # Nothing
      BY <1>7, TypedParts
    <2> QED
      BY <1>3, <1>5, <1>6, <1>7, <1>8, <2>1, <2>2, InvalidatedStep
  <1>9. CASE ~last
    <2>1. UNCHANGED <<state, signals, fds, wakes, open, armed>>
      BY <1>3, <1>9
    <2>2. /\ UNCHANGED <<flags, valid, disabled, setCount, inLists, errorCode, manager, native,
                         calls>>
          /\ UNCHANGED <<connected, readSignalled, writeSignalled, queue, signalled, fds, wakes,
                         armed, connects>>
      BY <1>7, <2>1 DEF state, signals, native
    <2> QED
      BY <1>5, <1>6, <2>2, PerformerParts, PerformerStep
  <1> QED
    BY <1>8, <1>9

\* What is to be enabled again, and for which directions.
Bits(t) ==
  client \cap ((IF performs[t].read THEN ReadType ELSE {})
               \cup (IF performs[t].write THEN {"write"} ELSE {}))
EnabledAgain(t) ==
  (IF Bits(t) \cap ReadType # {} /\ ReadType \cap disabled = {} THEN {"read"} ELSE {})
  \cup (IF "write" \in Bits(t) \ disabled THEN {"write"} ELSE {})

LEMMA AgainIs ==
  ASSUME NEW t \in Performers, Again(t)
  PROVE  /\ In(t, "again") /\ EnableCallBacks(Bits(t), FALSE, Scheduled)
         /\ armed' = IF valid /\ Scheduled THEN armed \cup EnabledAgain(t) ELSE armed
         /\ signalled' = (signalled \/ SignalsAgain)
         /\ performs' = [performs EXCEPT ![t] = Idle]
         /\ UNCHANGED <<flags, valid, setCount, readSignalled, writeSignalled, errorCode, queue,
                        manager, native, calls, delivered, connects>>
  BY Zenon DEF Again, Bits, EnabledAgain

LEMMA AgainStep ==
  ASSUME SocketAssumption, SocketInv, NEW t \in Performers, Again(t)
  PROVE  SocketInv'
  <1>1. /\ TypeOK /\ ListsOK /\ Nothing \in 0..Nothing /\ "connect" \notin client
        /\ setCount \in Nat
    BY TypesOfSocket DEF SocketInv
  <1>2. Bits(t) \in SUBSET types /\ "connect" \notin Bits(t) /\ Scheduled \in BOOLEAN
    BY <1>1 DEF Bits, Scheduled, TypeOK
  <1>3. EnableCallBacks(Bits(t), FALSE, Scheduled)
    BY AgainIs
  <1>4. Idle \in Performs
    BY <1>1 DEF Idle, Performs
  <1>5. performs' \in [Performers -> Performs]
    BY <1>4, AgainIs, PerformerParts
  <1>6. (signalled \/ SignalsAgain) \in BOOLEAN
    BY PerformerParts DEF SignalsAgain, SocketInv, TypeOK
  <1>7. EnabledAgain(t) \subseteq Directions
    BY DEF EnabledAgain, Directions
  <1>8. /\ armed' \subseteq Directions /\ (setCount = 0 => armed' = {})
        /\ signalled' \in BOOLEAN
    <2>1. signalled' = (signalled \/ SignalsAgain)
      BY AgainIs, Zenon
    <2>2. armed' = IF valid /\ Scheduled THEN armed \cup EnabledAgain(t) ELSE armed
      BY AgainIs, Zenon
    <2>3. signalled' \in BOOLEAN
      BY <1>6, <2>1
    <2>4. setCount = 0 => ~Scheduled /\ armed = {}
      BY PerformerParts DEF Scheduled
    <2> QED
      BY <1>7, <2>2, <2>3, <2>4, PerformerParts
  <1>9. /\ EnabledTyped /\ disabled' = disabled /\ inLists' = inLists
        /\ fds' \subseteq fds \cup TurnedOn(Bits(t), disabled)
        /\ ~Scheduled \/ ~valid => fds' = fds
    <2>1. EnabledTyped
      BY <1>1, <1>2, <1>3, EnableTyped
    <2>2. CASE Bits(t) = {} \/ ~valid \/ ~Scheduled
      <3>1. UNCHANGED <<disabled, connected, inLists, fds, wakes>>
        BY <1>1, <1>2, <1>3, <2>2, EnableEffect
      <3> QED
        BY <2>1, <3>1
    <2>3. CASE Bits(t) # {} /\ valid /\ Scheduled
      <3>1. /\ disabled' = Off(Bits(t), FALSE) /\ inLists' = inLists
            /\ fds' = fds \cup TurnedOn(Bits(t), Off(Bits(t), FALSE))
        BY <1>1, <1>2, <1>3, <2>3, EnableEffect
      <3>2. Off(Bits(t), FALSE) = disabled
        BY DEF Off
      <3> QED
        BY <2>1, <2>3, <3>1, <3>2
    <2> QED
      BY <2>2, <2>3
  <1>10. fds' \subseteq inLists
    <2>1. CASE Scheduled /\ valid
      <3>1. ASSUME "read" \in TurnedOn(Bits(t), disabled) PROVE "read" \in inLists
        <4>1. ReadType # {}
          BY <3>1, TurnedOnIs
        <4> QED
          BY <1>1, <2>1, <4>1 DEF ListsOK, Scheduled
      <3>2. ASSUME "write" \in TurnedOn(Bits(t), disabled) PROVE "write" \in inLists
        <4>1. "write" \in types
          BY <1>2, <3>2, TurnedOnIs
        <4> QED
          BY <1>1, <2>1, <4>1 DEF ListsOK, Scheduled
      <3>3. TurnedOn(Bits(t), disabled) \subseteq {"read", "write"}
        BY TurnedOnIs DEF Directions
      <3> QED
        BY <1>9, <3>1, <3>2, <3>3, PerformerParts
    <2> QED
      BY <1>9, <2>1, PerformerParts
  <1>11. connected' \in BOOLEAN /\ wakes' \in 0..MaxWakes
    BY <1>9 DEF EnabledTyped
  <1>12. /\ UNCHANGED <<flags, valid, disabled, setCount, inLists, errorCode, manager, native,
                        calls>>
         /\ UNCHANGED <<readSignalled, writeSignalled, queue, delivered, connects>>
    BY <1>9, AgainIs
  <1> QED
    BY <1>5, <1>8, <1>10, <1>11, <1>12, PerformerParts, PerformerStep

LEMMA OutsideStep ==
  ASSUME SocketAssumption, SocketInv, Arrive \/ End \/ BecomesWritable
  PROVE  SocketInv'
  <1>1. sent \in Nat /\ MaxMessages \in Nat
    BY TypesOfSocket DEF SocketInv
  <1>2. /\ UNCHANGED <<flags, state, performs, history, open>>
        /\ UNCHANGED <<readSignalled, writeSignalled, errorCode, queue, signalled, fds, wakes,
                       manager>>
    BY DEF Arrive, End, BecomesWritable, signals
  <1>3. CASE Arrive
    <2>1. sent + 1 \in 1..MaxMessages /\ sent' = sent + 1 /\ arrived' = Append(arrived, sent + 1)
          /\ writable' = writable /\ ended' = ended
      BY <1>1, <1>3 DEF Arrive
    <2>2. arrived' \in Seq(1..MaxMessages) /\ sent' \in 0..MaxMessages
      BY <1>1, <2>1, TypedParts, Appended
    <2> QED
      BY <1>2, <2>1, <2>2, TypedParts, ManagerStep
  <1>4. CASE End \/ BecomesWritable
    <2>1. writable' \in {writable, TRUE} /\ ended' \in {ended, TRUE} /\ UNCHANGED <<arrived, sent>>
      BY <1>4 DEF End, BecomesWritable
    <2> QED
      BY <1>2, <2>1, TypedParts, ManagerStep
  <1> QED
    BY <1>3, <1>4

LEMMA CloseNativeStep ==
  ASSUME SocketAssumption, SocketInv, CloseNative
  PROVE  SocketInv'
  <1>1. TypeOK /\ ListsOK
    BY DEF SocketInv
  <1>2. /\ UNCHANGED <<types, oriented, client, valid, disabled, connected, setCount, inLists,
                       readSignalled, writeSignalled, errorCode, queue, signalled, fds, wakes,
                       manager, performs, writable, arrived, ended, sent, armed,
                       delivered, connects>>
        /\ open' = FALSE
    BY DEF CloseNative, flags, state, signals
  <1>3. calls' \in 0..MaxCalls
    BY <1>1, CallTyped DEF CloseNative
  <1>4. TypeOK'
    BY <1>1, <1>2, <1>3 DEF TypeOK
  <1>5. ListsOK'
    BY <1>1, <1>2 DEF ListsOK, SetsAreOfLists, ReadType
  <1> QED
    BY <1>2, <1>4, <1>5 DEF SocketInv, Nothing

LEMMA StepKeeps ==
  ASSUME SocketAssumption, SocketInv, [Next]_vars
  PROVE  SocketInv'
  <1>1. CASE Client
    <2>1. ASSUME NEW some \in {types \cap DataType, types \cap {"write"}, types \cap {"connect"}},
                 Enable(some) \/ Disable(some)
          PROVE  SocketInv'
      <3>1. some \in SUBSET types
        OBVIOUS
      <3> QED
        BY <2>1, <3>1, EnableStep, DisableStep
    <2> QED
      BY <1>1, <2>1, SetFlagsStep, ScheduleStep, CancelStep, InvalidateStep, CloseNativeStep
         DEF Client
  <1>2. CASE Manager
    BY <1>2, CopyStep, SelectStep, ManageErrorStep, CollectStep, HandleWriteStep, TakeStep,
       HandleReadStep DEF Manager
  <1>3. CASE \E t \in Performers : Perform(t) \/ Connect(t) \/ Read(t) \/ Write(t) \/ Again(t)
    BY <1>3, PerformStep, ConnectStep, ReadStep, WriteStep, AgainStep
  <1>4. CASE Arrive \/ End \/ BecomesWritable
    BY <1>4, OutsideStep
  <1>5. CASE UNCHANGED vars
    <2>1. UNCHANGED <<flags, state, performs, history, open>>
      BY <1>5 DEF vars, native
    <2>2. UNCHANGED <<readSignalled, writeSignalled, errorCode, queue, signalled, fds, wakes,
                      manager, writable, arrived, ended, sent>>
      BY <1>5 DEF vars, signals, native
    <2> QED
      BY <2>1, <2>2, TypedParts, ManagerStep
  <1> QED
    BY <1>1, <1>2, <1>3, <1>4, <1>5 DEF Next

\* The variables have their types whatever the clients, the manager and the run
\* loops do in any order: among others no byte more is put into the wake-up
\* socket than it holds, and what is queued is always a message or the end.
THEOREM SocketTypeCorrect ==
  ASSUME SocketAssumption
  PROVE  Spec => []TypeOK
  <1>1. Init => SocketInv
    BY InitInv
  <1>2. SocketInv /\ [Next]_vars => SocketInv'
    BY StepKeeps
  <1>3. SocketInv => TypeOK
    BY DEF SocketInv
  <1> QED
    BY <1>1, <1>2, <1>3, PTL DEF Spec

\* "we assume that the sockets have already been added to the __CFReadSockets and
\* __CFWriteSockets arrays" (CFSocket.c:2848): a descriptor is in a set only while
\* the socket is in the set's list, although enabling again after a callback, and
\* restoring a descriptor after a read, put it into the set only.
THEOREM SetsAreOfTheLists ==
  ASSUME SocketAssumption
  PROVE  Spec => []SetsAreOfLists
  <1>1. Init => SocketInv
    BY InitInv
  <1>2. SocketInv /\ [Next]_vars => SocketInv'
    BY StepKeeps
  <1>3. SocketInv => SetsAreOfLists
    BY DEF SocketInv, ListsOK
  <1> QED
    BY <1>1, <1>2, <1>3, PTL DEF Spec

----------------------------------------------------------------------------
(* The manager does not sleep on old sets.                                   *)

LEMMA ClientMoves ==
  ASSUME SocketAssumption, SocketInv, Client
  PROVE  Moves /\ manager' = manager
  <1>1. TypeOK /\ Scheduled \in BOOLEAN
    BY DEF SocketInv, Scheduled
  <1>2. (fds' = fds /\ wakes' = wakes) => Moves
    BY <1>1 DEF Moves, TypeOK
  <1>3. manager' = manager
    BY DEF Client, Enable, Disable, SetSocketFlags, Schedule, Cancel, Invalidate, CloseNative
  <1>4. ASSUME NEW some \in SUBSET types, Enable(some) \/ Disable(some) PROVE Moves
    <2>1. ASSUME Enable(some) PROVE Moves
      <3>1. EnableCallBacks(some, TRUE, Scheduled)
        BY <2>1, Zenon DEF Enable
      <3> QED
        BY <1>1, <3>1, EnableEffect
    <2>2. ASSUME Disable(some) PROVE Moves
      <3>1. SetFds(fds \ Stopped(some)) /\ fds \ Stopped(some) \in SUBSET Directions
        BY <1>1, <2>2 DEF Disable, TypeOK
      <3> QED
        BY <1>1, <3>1, SetFdsMoves
    <2> QED
      BY <1>4, <2>1, <2>2
  <1>5. ASSUME NEW bits \in Reenabled, SetSocketFlags(bits) PROVE Moves
    BY <1>2, <1>5 DEF SetSocketFlags
  <1>6. ASSUME Schedule PROVE Moves
    <2>1. setCount = 0 => EnableCallBacks(types, TRUE, TRUE)
      BY <1>6, Zenon DEF Schedule
    <2>2. setCount # 0 => fds' = fds /\ wakes' = wakes
      BY <1>6 DEF Schedule
    <2> QED
      BY <1>1, <1>2, <2>1, <2>2, EnableEffect
  <1>7. ASSUME Cancel PROVE Moves
    <2>1. setCount = 1 => LeaveLists
      BY <1>7 DEF Cancel
    <2>2. setCount # 1 => fds' = fds /\ wakes' = wakes
      BY <1>7 DEF Cancel
    <2> QED
      BY <1>1, <1>2, <2>1, <2>2, LeaveEffect
  <1>8. ASSUME Invalidate PROVE Moves
    BY <1>8, InvalidatedEffect DEF Invalidate
  <1>9. ASSUME CloseNative PROVE Moves
    BY <1>2, <1>9 DEF CloseNative
  <1>10. ASSUME NEW some \in {types \cap DataType, types \cap {"write"}, types \cap {"connect"}}
         PROVE  some \in SUBSET types
    OBVIOUS
  <1> QED
    BY <1>3, <1>4, <1>5, <1>6, <1>7, <1>8, <1>9, <1>10 DEF Client

LEMMA PerformerMoves ==
  ASSUME SocketAssumption, SocketInv, NEW t \in Performers,
         Perform(t) \/ Connect(t) \/ Read(t) \/ Write(t) \/ Again(t)
  PROVE  Moves /\ manager' = manager
  <1>1. TypeOK /\ Scheduled \in BOOLEAN
    BY DEF SocketInv, Scheduled
  <1>2. (fds' = fds /\ wakes' = wakes) => Moves
    BY <1>1 DEF Moves, TypeOK
  <1>3. manager' = manager
    BY AgainIs DEF Perform, Connect, Read, Write
  <1>4. ASSUME Perform(t) \/ Connect(t) \/ Write(t) PROVE fds' = fds /\ wakes' = wakes
    BY <1>4 DEF Perform, Connect, Write
  <1>5. ASSUME Read(t) PROVE Moves
    <2>1. Invalidated(TRUE) \/ (fds' = fds /\ wakes' = wakes)
      BY <1>5 DEF Read
    <2> QED
      BY <1>2, <2>1, InvalidatedEffect
  <1>6. ASSUME Again(t) PROVE Moves
    <2>1. EnableCallBacks(Bits(t), FALSE, Scheduled) /\ Bits(t) \in SUBSET types
      BY <1>1, <1>6, AgainIs DEF Bits, TypeOK
    <2> QED
      BY <1>1, <2>1, EnableEffect
  <1> QED
    BY <1>2, <1>3, <1>4, <1>5, <1>6

CurrentInv == SocketInv /\ SelectIsCurrent

LEMMA CurrentStep ==
  ASSUME SocketAssumption, CurrentInv, [Next]_vars
  PROVE  SelectIsCurrent'
  <1>1. SocketInv /\ wakes \in Nat
    BY TypesOfSocket DEF CurrentInv, SocketInv, TypeOK
  <1>2. ASSUME Moves, manager' = manager PROVE SelectIsCurrent'
    BY <1>1, <1>2 DEF CurrentInv, SelectIsCurrent, Moves, At
  <1>3. (fds' = fds /\ wakes' = wakes) => Moves
    BY <1>1 DEF Moves, SocketInv, TypeOK
  <1>4. ASSUME Copy PROVE SelectIsCurrent'
    BY <1>4 DEF Copy, SelectIsCurrent, At
  <1>5. ASSUME Select \/ ManageSelectError \/ Collect \/ HandleWrite \/ Take \/ HandleRead
        PROVE  manager'.pc # "select"
    <2> manager \in [pc : ManagerPCs, fds : SUBSET Directions, got : 0..Nothing]
      BY <1>1, TypedParts
    <2>1. CASE Select
      BY <2>1 DEF Select, Goto, ManagerPCs
    <2>2. CASE ManageSelectError
      BY <2>2 DEF ManageSelectError, Goto, ManagerPCs
    <2>3. CASE Collect
      BY <2>3 DEF Collect
    <2>4. CASE HandleWrite
      BY <2>4 DEF HandleWrite
    <2>5. CASE Take
      BY <2>5 DEF Take
    <2>6. CASE HandleRead
      BY <2>6 DEF HandleRead
    <2> QED
      BY <1>5, <2>1, <2>2, <2>3, <2>4, <2>5, <2>6
  <1>6. CASE Manager
    BY <1>4, <1>5, <1>6 DEF Manager, SelectIsCurrent, At
  <1>7. CASE Client
    BY <1>1, <1>2, <1>7, ClientMoves
  <1>8. CASE \E t \in Performers : Perform(t) \/ Connect(t) \/ Read(t) \/ Write(t) \/ Again(t)
    BY <1>1, <1>2, <1>8, PerformerMoves
  <1>9. CASE Arrive \/ End \/ BecomesWritable \/ UNCHANGED vars
    <2>1. fds' = fds /\ wakes' = wakes /\ manager' = manager
      BY <1>9 DEF Arrive, End, BecomesWritable, vars
    <2> QED
      BY <1>2, <1>3, <2>1
  <1> QED
    BY <1>6, <1>7, <1>8, <1>9 DEF Next

\* Whoever changes the sets while the manager's thread is in select on a copy of
\* them leaves a byte in the wake-up socket, so that it does not sleep without a
\* descriptor that is in a set (CFSocket.c:1373-1413), although a full socket
\* takes no further bytes.
THEOREM ManagerIsCurrent ==
  ASSUME SocketAssumption
  PROVE  Spec => []SelectIsCurrent
  <1>1. Init => CurrentInv
    BY InitInv DEF CurrentInv, SelectIsCurrent, Init, At
  <1>2. CurrentInv /\ [Next]_vars => CurrentInv'
    BY StepKeeps, CurrentStep DEF CurrentInv
  <1>3. CurrentInv => SelectIsCurrent
    BY DEF CurrentInv
  <1> QED
    BY <1>1, <1>2, <1>3, PTL DEF Spec

----------------------------------------------------------------------------
(* What is read is called out for.                                           *)

QueueInv == SocketInv /\ QueueIsSignalled /\ (queue # <<>> => Queues)

LEMMA QueueStep ==
  ASSUME SocketAssumption, QueueInv, [Next]_vars
  PROVE  QueueInv'
  <1>1. /\ SocketInv /\ SocketInv' /\ valid \in BOOLEAN
        /\ performs \in [Performers -> Performs] /\ QueueIsSignalled /\ (queue # <<>> => Queues)
    BY StepKeeps, PerformerParts DEF QueueInv, SocketInv, TypeOK
  <1>2. types' = types
    BY AgainIs DEF Next, Client, Manager, Enable, Disable, SetSocketFlags, Schedule, Cancel,
       Invalidate, CloseNative, Copy, Select, ManageSelectError, Collect, HandleWrite, Take,
       HandleRead, Perform, Connect, Read, Write, Arrive, End, BecomesWritable, vars, flags
  <1>3. Queues' = Queues
    BY <1>2 DEF Queues, ReadType
  <1>4. ASSUME UNCHANGED <<queue, performs>>, valid' => valid, signalled => signalled'
        PROVE  QueueInv'
    <2>1. Performing' = Performing
      BY <1>4 DEF Performing
    <2>2. QueueIsSignalled'
      BY <1>1, <1>4, <2>1 DEF QueueIsSignalled
    <2> QED
      BY <1>1, <1>3, <1>4, <2>2 DEF QueueInv
  <1>5. ASSUME queue' = <<>> PROVE QueueInv'
    BY <1>1, <1>5 DEF QueueInv, QueueIsSignalled
  <1>6. CASE Client
    <2>1. CASE Invalidate
      BY <1>5, <2>1 DEF Invalidate, Invalidated
    <2>2. CASE ~Invalidate
      <3>1. UNCHANGED <<queue, performs, valid, signalled>>
        BY <1>6, <2>2 DEF Client, Enable, Disable, SetSocketFlags, Schedule, Cancel,
           CloseNative, signals, state
      <3> QED
        BY <1>4, <3>1
    <2> QED
      BY <2>1, <2>2
  <1>7. CASE Manager
    <2>1. CASE ManageSelectError
      <3>1. Invalidated(TRUE) \/ UNCHANGED <<queue, performs, valid, signalled>>
        BY <2>1 DEF ManageSelectError, signals, state
      <3> QED
        BY <1>4, <1>5, <3>1 DEF Invalidated
    <2>2. CASE Copy \/ Select \/ Collect \/ HandleWrite \/ Take
      <3>1. UNCHANGED <<queue, performs, valid>> /\ (signalled => signalled')
        <4>1. CASE HandleWrite
          BY <1>1, <4>1 DEF HandleWrite, state
        <4>2. CASE ~HandleWrite
          BY <2>2, <4>2 DEF Copy, Select, Collect, Take, signals, state
        <4> QED
          BY <4>1, <4>2
      <3> QED
        BY <1>4, <3>1
    <2>3. CASE HandleRead
      <3>1. UNCHANGED <<performs, valid>>
        BY <2>3 DEF HandleRead, state
      <3>2. CASE UNCHANGED <<signalled, queue>>
        BY <1>4, <3>1, <3>2
      <3>3. CASE ~UNCHANGED <<signalled, queue>>
        <4>1. signalled' = TRUE /\ (~Queues => queue' = queue)
          BY <2>3, <3>3 DEF HandleRead
        <4> QED
          BY <1>1, <1>3, <4>1 DEF QueueInv, QueueIsSignalled
      <3> QED
        BY <3>2, <3>3
    <2> QED
      BY <1>7, <2>1, <2>2, <2>3 DEF Manager
  <1>8. ASSUME NEW t \in Performers, Perform(t) \/ Connect(t) \/ Read(t) \/ Write(t) \/ Again(t)
        PROVE  QueueInv'
    <2>1. ASSUME NEW p, performs' = [performs EXCEPT ![t] = p], p.pc # "idle",
                 queue' # <<>> => Queues
          PROVE  QueueInv'
      <3>1. performs'[t] = p
        BY <1>1, <2>1
      <3>2. t \in Performing'
        BY <2>1, <3>1 DEF Performing
      <3> QED
        BY <1>1, <1>3, <2>1, <3>2 DEF QueueInv, QueueIsSignalled
    <2>2. CASE Perform(t)
      <3>1. performs' = [performs EXCEPT ![t] = Begun] /\ Begun.pc = "connect"
        BY <2>2, Zenon DEF Perform, Begun
      <3>2. queue' # <<>> => Queues
        BY <1>1, <2>2 DEF Perform
      <3> QED
        BY <2>1, <3>1, <3>2
    <2>3. CASE Connect(t) \/ Read(t) \/ Write(t)
      <3>0. PICK called : \E pc \in {"read", "write", "again"} : Then(t, pc, called)
        BY <2>3 DEF Connect, Read, Write
      <3>1. PICK pc \in {"read", "write", "again"} : Then(t, pc, called)
        BY <3>0
      <3> DEFINE p == [performs[t] EXCEPT !.pc = pc, !.called = performs[t].called \/ called]
      <3>2. performs' = [performs EXCEPT ![t] = p]
        BY <3>1, Zenon DEF Then
      <3>3. performs[t] \in Performs
        BY <1>1
      <3>4. p.pc = pc
        BY <3>3 DEF Performs
      <3> HIDE DEF p
      <3>5. queue' = queue \/ queue' = <<>>
        BY <2>3 DEF Connect, Read, Write, Invalidated, signals
      <3> QED
        BY <1>1, <2>1, <3>1, <3>2, <3>4, <3>5
    <2>4. CASE Again(t)
      <3>1. /\ UNCHANGED <<queue, valid>> /\ performs' = [performs EXCEPT ![t] = Idle]
            /\ signalled' = (signalled \/ SignalsAgain)
        BY <2>4, AgainIs, Zenon
      <3>2. valid /\ queue # <<>> => signalled'
        BY <1>1, <3>1 DEF SignalsAgain
      <3> QED
        BY <1>1, <1>3, <3>1, <3>2 DEF QueueInv, QueueIsSignalled
    <2> QED
      BY <1>8, <2>2, <2>3, <2>4
  <1>9. CASE Arrive \/ End \/ BecomesWritable \/ UNCHANGED vars
    <2>1. UNCHANGED <<queue, performs, valid, signalled>>
      BY <1>9 DEF Arrive, End, BecomesWritable, vars, signals, state
    <2> QED
      BY <1>4, <2>1
  <1> QED
    BY <1>6, <1>7, <1>8, <1>9 DEF Next

\* What was read is called out for (CFSocket.c:3083): of the run loops that take
\* messages off the queue of a valid socket the last leaves it signalled when the
\* queue is not empty, however their callbacks and further messages interleave.
THEOREM QueuedIsCalledFor ==
  ASSUME SocketAssumption
  PROVE  Spec => []QueueIsSignalled
  <1>1. Init => QueueInv
    BY InitInv DEF QueueInv, QueueIsSignalled, Init
  <1>2. QueueInv /\ [Next]_vars => QueueInv'
    BY QueueStep
  <1>3. QueueInv => QueueIsSignalled
    BY DEF QueueInv
  <1> QED
    BY <1>1, <1>2, <1>3, PTL DEF Spec

----------------------------------------------------------------------------
(* The connect callback.                                                     *)

\* The threads that are about to call out for the connection.
ToConnect == {t \in Performers : performs[t].pc = "connect" /\ performs[t].connect}

\* Only the thread that found the socket not connected calls out, and from then
\* on the socket is connected.
ConnectInv ==
  /\ SocketInv
  /\ ~connected => connects = 0 /\ ToConnect = {}
  /\ connects \in {0, 1} /\ (connects = 1 => ToConnect = {})
  /\ \A t, u \in ToConnect : t = u

LEMMA EnableConnects ==
  ASSUME SocketAssumption, SocketInv, NEW some \in SUBSET types, NEW force \in BOOLEAN,
         NEW scheduled \in BOOLEAN, EnableCallBacks(some, force, scheduled)
  PROVE  connected => connected'
  <1>1. TypeOK
    BY DEF SocketInv
  <1>2. connected' = connected \/ connected' = NowConnected
    BY <1>1, EnableEffect
  <1>3. ASSUME connected PROVE connected'
    <2>1. connected = TRUE
      BY <1>3, PerformerParts
    <2>2. NowConnected = TRUE
      BY <2>1 DEF NowConnected
    <2>3. connected' = TRUE
      BY <1>2, <2>1, <2>2
    <2> QED
      BY <2>3
  <1> QED
    BY <1>3

LEMMA ClientConnects ==
  ASSUME SocketAssumption, SocketInv, Client
  PROVE  (connected => connected') /\ UNCHANGED <<connects, performs>>
  <1>1. UNCHANGED <<connects, performs>>
    BY DEF Client, Enable, Disable, SetSocketFlags, Schedule, Cancel, Invalidate, CloseNative
  <1>2. connected \in BOOLEAN
    BY PerformerParts
  <1>3. ASSUME NEW some \in SUBSET types, Enable(some) PROVE connected => connected'
    <2>1. EnableCallBacks(some, TRUE, Scheduled) /\ Scheduled \in BOOLEAN
      <3>1. EnableCallBacks(some, TRUE, Scheduled)
        BY <1>3, Zenon DEF Enable
      <3>2. Scheduled \in BOOLEAN
        BY DEF Scheduled
      <3> QED
        BY <3>1, <3>2
    <2> QED
      BY <2>1, EnableConnects
  <1>4. ASSUME NEW some, Disable(some) PROVE connected => connected'
    BY <1>2, <1>4 DEF Disable, NowConnected
  <1>5. ASSUME Schedule PROVE connected => connected'
    <2>1. EnableCallBacks(types, TRUE, TRUE) \/ connected' = connected
      BY <1>5, Zenon DEF Schedule
    <2> QED
      BY <2>1, EnableConnects
  <1>6. ASSUME NEW bits, SetSocketFlags(bits) PROVE connected => connected'
    BY <1>6 DEF SetSocketFlags, state
  <1>7. ASSUME Cancel \/ Invalidate \/ CloseNative PROVE connected => connected'
    BY <1>7 DEF Cancel, Invalidate, Invalidated, CloseNative, state
  <1>8. ASSUME NEW some \in {types \cap DataType, types \cap {"write"}, types \cap {"connect"}}
        PROVE  some \in SUBSET types
    OBVIOUS
  <1> QED
    BY <1>1, <1>3, <1>4, <1>5, <1>6, <1>7, <1>8 DEF Client

LEMMA ConnectKept ==
  ASSUME ConnectInv, SocketInv', connects' = connects, connected => connected',
         ToConnect' \subseteq ToConnect
  PROVE  ConnectInv'
  BY DEF ConnectInv

LEMMA BeginsToConnect ==
  ASSUME SocketAssumption, ConnectInv, NEW t \in Performers, Perform(t), SocketInv'
  PROVE  ConnectInv'
  <1>1. /\ performs \in [Performers -> Performs] /\ connected \in BOOLEAN
        /\ writeSignalled \in BOOLEAN /\ errorCode \in BOOLEAN
    BY PerformerParts DEF ConnectInv
  <1>2. /\ performs' = [performs EXCEPT ![t] = Begun] /\ performs[t].pc = "idle"
        /\ connected' = (connected \/ writeSignalled) /\ connects' = connects
    BY Zenon DEF Perform, Begun, In
  <1>3. Begun.pc = "connect" /\ Begun.connect = (writeSignalled /\ ~connected)
    BY DEF Begun
  <1>4. t \notin ToConnect
    BY <1>2 DEF ToConnect
  <1>5. \A u \in Performers : u # t => performs'[u] = performs[u]
    BY <1>1, <1>2
  <1>6. performs'[t] = Begun
    BY <1>1, <1>2
  <1>7. CASE writeSignalled /\ ~connected
    <2>1. ToConnect' = {t}
      BY <1>3, <1>5, <1>6, <1>7 DEF ToConnect, ConnectInv
    <2>2. connects' = 0 /\ connected'
      BY <1>2, <1>7 DEF ConnectInv
    <2> QED
      BY <2>1, <2>2 DEF ConnectInv
  <1>8. CASE ~(writeSignalled /\ ~connected)
    <2>1. ToConnect' \subseteq ToConnect
      BY <1>3, <1>5, <1>6, <1>8 DEF ToConnect
    <2>2. connected => connected'
      BY <1>2
    <2> QED
      BY <1>2, <2>1, <2>2, ConnectKept
  <1> QED
    BY <1>7, <1>8

LEMMA CallsOutForIt ==
  ASSUME SocketAssumption, ConnectInv, NEW t \in Performers, Connect(t), SocketInv'
  PROVE  ConnectInv'
  <1> DEFINE calledOut == Calls(t, "connect" \in types /\ performs[t].connect)
  <1>1. /\ SocketInv /\ TypeOK /\ performs[t] \in Performs /\ valid \in BOOLEAN
        /\ performs[t].pc = "connect"
    BY PerformerParts DEF ConnectInv, SocketInv, TypeOK, Connect, In
  <1>2. calledOut \in BOOLEAN /\ (calledOut => performs[t].connect)
    BY <1>1 DEF Calls
  <1>3. /\ Then(t, "read", calledOut) /\ connected' = connected
        /\ connects' = IF calledOut THEN connects + 1 ELSE connects
    BY DEF Connect, state
  <1> HIDE DEF calledOut
  <1>4. /\ \A u \in Performers : u # t => performs'[u] = performs[u]
        /\ performs'[t].pc = "read"
    BY <1>1, <1>2, <1>3, ThenEffect
  <1>5. ToConnect' \subseteq ToConnect \ {t}
    BY <1>4 DEF ToConnect
  <1>6. CASE calledOut
    <2>1. t \in ToConnect
      BY <1>1, <1>2, <1>6 DEF ToConnect
    <2>2. ToConnect' = {} /\ connects = 0 /\ connected
      BY <1>5, <2>1 DEF ConnectInv
    <2>3. connects' = 1
      BY <1>3, <1>6, <2>2
    <2> QED
      BY <1>3, <2>2, <2>3 DEF ConnectInv
  <1>7. CASE ~calledOut
    BY <1>3, <1>5, <1>7, ConnectKept
  <1> QED
    BY <1>6, <1>7

LEMMA ConnectedStep ==
  ASSUME SocketAssumption, ConnectInv, [Next]_vars
  PROVE  ConnectInv'
  <1>1. SocketInv /\ SocketInv' /\ TypeOK
    BY StepKeeps DEF ConnectInv, SocketInv
  <1>2. ASSUME UNCHANGED <<connects, performs>>, connected => connected'
        PROVE  ConnectInv'
    <2>1. ToConnect' = ToConnect
      BY <1>2 DEF ToConnect
    <2> QED
      BY <1>1, <1>2, <2>1, ConnectKept
  <1>3. CASE Client
    BY <1>1, <1>2, <1>3, ClientConnects
  <1>4. CASE Manager
    <2>1. UNCHANGED <<connects, performs, connected>>
      BY <1>4 DEF Manager, Copy, Select, ManageSelectError, Collect, HandleWrite, Take,
         HandleRead, Invalidated, state, history
    <2> QED
      BY <1>2, <2>1
  <1>5. ASSUME NEW t \in Performers, Read(t) \/ Write(t) \/ Again(t)
        PROVE  ConnectInv'
    <2>1. connects' = connects
      BY <1>5, AgainIs DEF Read, Write, history
    <2>2. connected => connected'
      <3>1. CASE Again(t)
        <4>1. EnableCallBacks(Bits(t), FALSE, Scheduled) /\ Bits(t) \in SUBSET types
          BY <1>1, <3>1, AgainIs DEF Bits, TypeOK
        <4>2. Scheduled \in BOOLEAN
          BY DEF Scheduled
        <4> QED
          BY <1>1, <4>1, <4>2, EnableConnects
      <3>2. CASE Read(t) \/ Write(t)
        BY <3>2 DEF Read, Write, Invalidated, state
      <3> QED
        BY <1>5, <3>1, <3>2
    <2>3. /\ \A u \in Performers : u # t => performs'[u] = performs[u]
          /\ performs'[t].pc # "connect"
      <3>1. CASE Again(t)
        <4>1. performs' = [performs EXCEPT ![t] = Idle] /\ Idle.pc = "idle"
          BY <3>1, AgainIs DEF Idle
        <4> QED
          BY <1>1, <4>1 DEF TypeOK
      <3>2. CASE Read(t) \/ Write(t)
        <4>0. PICK called : \E pc \in {"write", "again"} : Then(t, pc, called)
          BY <3>2 DEF Read, Write
        <4>1. PICK pc \in {"write", "again"} : Then(t, pc, called)
          BY <4>0
        <4> DEFINE p == [performs[t] EXCEPT !.pc = pc, !.called = performs[t].called \/ called]
        <4>2. performs' = [performs EXCEPT ![t] = p]
          BY <4>1, Zenon DEF Then
        <4>3. performs[t] \in Performs /\ performs \in [Performers -> Performs]
          BY <1>1 DEF TypeOK
        <4>4. p.pc = pc
          BY <4>3 DEF Performs
        <4> HIDE DEF p
        <4> QED
          BY <4>1, <4>2, <4>3, <4>4
      <3> QED
        BY <1>5, <3>1, <3>2
    <2>4. ToConnect' \subseteq ToConnect
      BY <2>3 DEF ToConnect
    <2> QED
      BY <1>1, <2>1, <2>2, <2>4, ConnectKept
  <1>6. CASE \E t \in Performers : Perform(t) \/ Connect(t) \/ Read(t) \/ Write(t) \/ Again(t)
    BY <1>1, <1>5, <1>6, BeginsToConnect, CallsOutForIt
  <1>7. CASE Arrive \/ End \/ BecomesWritable \/ UNCHANGED vars
    <2>1. UNCHANGED <<connects, performs, connected>>
      BY <1>7 DEF Arrive, End, BecomesWritable, vars, state, history
    <2> QED
      BY <1>2, <2>1
  <1> QED
    BY <1>3, <1>4, <1>6, <1>7 DEF Next

\* "kCFSocketConnectCallBack will never be sent more than once" (CFSocket.h:48),
\* however many run loops perform the source and however often the callback is
\* enabled again.
THEOREM ConnectedOnce ==
  ASSUME SocketAssumption
  PROVE  Spec => []ConnectIsCalledOnce
  <1>1. Init => ConnectInv
    <2>1. ASSUME Init PROVE ToConnect = {} /\ connects = 0
      BY <2>1 DEF Init, ToConnect, Idle
    <2> QED
      BY <2>1, InitInv DEF ConnectInv
  <1>2. ConnectInv /\ [Next]_vars => ConnectInv'
    BY ConnectedStep
  <1>3. ConnectInv => ConnectIsCalledOnce
    BY DEF ConnectInv, ConnectIsCalledOnce
  <1> QED
    BY <1>1, <1>2, <1>3, PTL DEF Spec

----------------------------------------------------------------------------
(* A socket that is enabled is heard.                                        *)

Heard == fds \cup AtHand \cup (IF signalled THEN Signalled ELSE {})

\* What the history of the directions enabled has to do with what the client has
\* disabled: it is why the manager, which looks at the flags only, signals them.
ArmedIsEnabled ==
  /\ "read" \in armed => ReadType # {} /\ ReadType \cap disabled = {}
  /\ "write" \in armed => ~(types \cap {"write", "connect"} \subseteq disabled)

\* The manager has written first.
WriteIsHandled == manager.pc \in {"read", "queue"} => "write" \notin manager.fds

HeardInv == SocketInv /\ ExpectedIsHeard /\ ArmedIsEnabled /\ WriteIsHandled

LEMMA HeardIs ==
  /\ ExpectedIsHeard <=> (valid /\ open => armed \subseteq Heard)
  /\ "read" \in Heard <=>
       "read" \in fds \/ "read" \in AtHand \/ (signalled /\ readSignalled)
  /\ "write" \in Heard <=>
       "write" \in fds \/ "write" \in AtHand \/ (signalled /\ writeSignalled)
  BY DEF ExpectedIsHeard, Heard, Signalled

\* A step that enables nothing.
LEMMA HeardKept ==
  ASSUME HeardInv, SocketInv', types' = types, disabled' = disabled, armed' \subseteq armed,
         WriteIsHandled', valid' /\ open' => armed' \subseteq Heard'
  PROVE  HeardInv'
  <1>1. ExpectedIsHeard'
    BY DEF ExpectedIsHeard, Heard
  <1>2. ArmedIsEnabled'
    BY DEF HeardInv, ArmedIsEnabled, ReadType
  <1> QED
    BY <1>1, <1>2 DEF HeardInv

\* A step that takes nothing away.
LEMMA HeardMore ==
  ASSUME HeardInv, SocketInv', types' = types, disabled' = disabled, armed' = armed,
         manager' = manager, fds \subseteq fds', valid' => valid, open' => open,
         signalled => signalled', readSignalled => readSignalled',
         writeSignalled => writeSignalled'
  PROVE  HeardInv'
  <1>1. WriteIsHandled' /\ AtHand' = AtHand
    BY DEF HeardInv, WriteIsHandled, AtHand
  <1>2. Heard \subseteq Heard'
    BY <1>1 DEF Heard, Signalled
  <1>3. valid /\ open => armed \subseteq Heard
    BY DEF HeardInv, ExpectedIsHeard, Heard
  <1> QED
    BY <1>1, <1>2, <1>3, HeardKept

\* What is enabled, by a call or when the source is scheduled.
LEMMA HeardEnabled ==
  ASSUME SocketAssumption, HeardInv, SocketInv', NEW some \in SUBSET types,
         some \cap ReadType # {} => ReadType \subseteq some,
         UNCHANGED <<types, manager, valid, open, signalled, readSignalled, writeSignalled>>,
         NEW scheduled \in BOOLEAN, EnableCallBacks(some, TRUE, scheduled),
         armed' = Armed(some, TRUE, scheduled)
  PROVE  HeardInv'
  <1> DEFINE on == TurnedOn(some, Off(some, TRUE))
  <1>1. TypeOK /\ WriteIsHandled' /\ AtHand' = AtHand /\ Signalled' = Signalled
    BY DEF HeardInv, SocketInv, WriteIsHandled, AtHand, Signalled
  <1>2. (valid /\ open => armed \subseteq Heard) /\ ReadType' = ReadType
    BY DEF HeardInv, ExpectedIsHeard, Heard, ReadType
  <1>3. armed' = IF valid /\ scheduled THEN armed \cup on ELSE armed
    BY <1>1, ArmedIs
  <1>4. Off(some, TRUE) = disabled \ some
    BY DEF Off
  <1>5. /\ "read" \in on => some \cap ReadType # {}
        /\ "write" \in on => \E type \in {"write", "connect"} : type \in some
        /\ on \subseteq {"read", "write"}
    BY TurnedOnIs DEF Directions
  <1>6. some = {} => on = {}
    BY <1>5
  <1> HIDE DEF on
  <1>7. CASE some = {} \/ ~valid \/ ~scheduled
    <2>1. disabled' = disabled /\ fds' = fds /\ armed' = armed
      BY <1>1, <1>3, <1>6, <1>7, EnableEffect
    <2> QED
      BY <2>1, HeardMore
  <1>8. CASE some # {} /\ valid /\ scheduled
    <2>1. disabled' = disabled \ some /\ fds' = fds \cup on
      BY <1>1, <1>4, <1>8, EnableEffect DEF on
    <2>2. armed' = armed \cup on
      BY <1>3, <1>8
    <2>3. ExpectedIsHeard'
      BY <1>1, <1>2, <2>1, <2>2 DEF ExpectedIsHeard, Heard
    <2>4. ArmedIsEnabled'
      <3>1. ASSUME "read" \in armed' PROVE ReadType # {} /\ ReadType \cap disabled' = {}
        <4>1. CASE "read" \in armed
          BY <2>1, <4>1 DEF HeardInv, ArmedIsEnabled
        <4>2. CASE "read" \in on
          BY <1>5, <2>1, <4>2
        <4> QED
          BY <2>2, <3>1, <4>1, <4>2
      <3>2. ASSUME "write" \in armed' PROVE ~(types \cap {"write", "connect"} \subseteq disabled')
        <4>1. CASE "write" \in armed
          BY <2>1, <4>1 DEF HeardInv, ArmedIsEnabled
        <4>2. CASE "write" \in on
          BY <1>5, <2>1, <4>2
        <4> QED
          BY <2>2, <3>2, <4>1, <4>2
      <3> QED
        BY <1>2, <3>1, <3>2 DEF ArmedIsEnabled
    <2> QED
      BY <1>1, <2>3, <2>4 DEF HeardInv
  <1> QED
    BY <1>7, <1>8

LEMMA DisabledIsNotExpected ==
  ASSUME SocketAssumption, HeardInv, SocketInv', NEW some \in SUBSET types, Disable(some)
  PROVE  HeardInv'
  <1>1. /\ UNCHANGED <<types, manager, valid, open, signalled, readSignalled, writeSignalled>>
        /\ disabled' = disabled \cup some
        /\ fds' = fds \ Stopped(some)
        /\ armed' = armed \ (Stopped(some) \cup AllDisabled(disabled'))
    BY DEF Disable, SetFds, flags, signals, native
  <1>2. /\ WriteIsHandled' /\ AtHand' = AtHand /\ Signalled' = Signalled
        /\ ReadType' = ReadType /\ (valid /\ open => armed \subseteq Heard)
    BY <1>1 DEF HeardInv, WriteIsHandled, AtHand, Signalled, ReadType, ExpectedIsHeard, Heard
  <1>3. ExpectedIsHeard'
    BY <1>1, <1>2 DEF ExpectedIsHeard, Heard
  <1>4. ASSUME "read" \in armed' PROVE ReadType # {} /\ ReadType \cap disabled' = {}
    <2>1. "read" \in armed /\ "read" \notin Stopped(some)
      BY <1>1, <1>4
    <2>2. some \cap ReadType = {}
      BY <2>1 DEF Stopped
    <2> QED
      BY <1>1, <2>1, <2>2 DEF HeardInv, ArmedIsEnabled
  <1>5. ASSUME "write" \in armed' PROVE ~(types \cap {"write", "connect"} \subseteq disabled')
    <2>1. "write" \notin AllDisabled(disabled')
      BY <1>1, <1>5
    <2> QED
      BY <2>1 DEF AllDisabled
  <1>6. ArmedIsEnabled'
    BY <1>1, <1>2, <1>4, <1>5 DEF ArmedIsEnabled
  <1> QED
    BY <1>2, <1>3, <1>6 DEF HeardInv

\* Nothing is expected of a socket that has left the lists.
LEMMA NothingIsExpected ==
  ASSUME SocketInv', armed' = {}, WriteIsHandled'
  PROVE  HeardInv'
  BY DEF HeardInv, ExpectedIsHeard, ArmedIsEnabled

LEMMA HeardByClients ==
  ASSUME SocketAssumption, HeardInv, SocketInv', Client
  PROVE  HeardInv'
  <1>1. SocketInv /\ manager' = manager
    BY ClientMoves DEF HeardInv
  <1>2. WriteIsHandled'
    BY <1>1 DEF HeardInv, WriteIsHandled
  <1>3. ASSUME NEW some \in {types \cap DataType, types \cap {"write"}, types \cap {"connect"}},
               Enable(some)
        PROVE  HeardInv'
    <2>1. some \in SUBSET types /\ (some \cap ReadType # {} => ReadType \subseteq some)
      BY DEF ReadType, DataType
    <2>2. UNCHANGED <<types, manager, valid, open, signalled, readSignalled, writeSignalled>>
      BY <1>3 DEF Enable, flags, signals, native
    <2>3. EnableCallBacks(some, TRUE, Scheduled) /\ armed' = Armed(some, TRUE, Scheduled)
      BY <1>3, Zenon DEF Enable
    <2>4. Scheduled \in BOOLEAN
      BY DEF Scheduled
    <2> QED
      BY <2>1, <2>2, <2>3, <2>4, HeardEnabled
  <1>4. ASSUME NEW some \in {types \cap DataType, types \cap {"write"}, types \cap {"connect"}},
               Disable(some)
        PROVE  HeardInv'
    BY <1>4, DisabledIsNotExpected DEF Disable
  <1>5. ASSUME NEW bits \in Reenabled, SetSocketFlags(bits) PROVE HeardInv'
    <2>1. UNCHANGED <<types, disabled, armed, manager, fds, valid, open, signalled,
                      readSignalled, writeSignalled>>
      BY <1>5 DEF SetSocketFlags, state, signals, native
    <2> QED
      BY <2>1, HeardMore
  <1>6. CASE Schedule
    <2>1. UNCHANGED <<types, manager, valid, open, signalled, readSignalled, writeSignalled>>
      BY <1>6 DEF Schedule, flags, signals, native
    <2>2. CASE setCount = 0
      <3>1. EnableCallBacks(types, TRUE, TRUE) /\ armed' = Armed(types, TRUE, TRUE)
        BY <1>6, <2>2, Zenon DEF Schedule
      <3>2. ReadType \subseteq types
        BY DEF ReadType
      <3> QED
        BY <2>1, <3>1, <3>2, HeardEnabled
    <2>3. CASE setCount # 0
      <3>1. UNCHANGED <<disabled, fds, armed>>
        BY <1>6, <2>3 DEF Schedule
      <3> QED
        BY <2>1, <3>1, HeardMore
    <2> QED
      BY <2>2, <2>3
  <1>7. CASE Cancel
    <2>1. CASE setCount = 1
      BY <1>2, <1>7, <2>1, NothingIsExpected DEF Cancel
    <2>2. CASE setCount # 1
      <3>1. UNCHANGED <<types, disabled, armed, manager, fds, valid, open, signalled,
                        readSignalled, writeSignalled>>
        BY <1>7, <2>2 DEF Cancel, flags, signals, native
      <3> QED
        BY <3>1, HeardMore
    <2> QED
      BY <2>1, <2>2
  <1>8. CASE Invalidate
    BY <1>2, <1>8, NothingIsExpected DEF Invalidate, Invalidated
  <1>9. CASE CloseNative
    <2>1. UNCHANGED <<types, disabled, armed, manager, fds, valid, signalled,
                      readSignalled, writeSignalled>> /\ open' = FALSE
      BY <1>9 DEF CloseNative, flags, state, signals
    <2> QED
      BY <2>1, HeardMore
  <1> QED
    BY <1>3, <1>4, <1>5, <1>6, <1>7, <1>8, <1>9 DEF Client

LEMMA HeardByManager ==
  ASSUME SocketAssumption, HeardInv, SocketInv', Manager
  PROVE  HeardInv'
  <1>1. /\ manager \in [pc : ManagerPCs, fds : SUBSET Directions, got : 0..Nothing]
        /\ (valid /\ open => armed \subseteq Heard) /\ armed \subseteq Directions
        /\ disabled \subseteq types /\ types \subseteq {"read", "accept", "connect", "write"}
        /\ SocketInv
    BY TypesOfSocket DEF HeardInv, SocketInv, TypeOK, ExpectedIsHeard, Heard
  <1>2. types' = types
    BY DEF Manager, Copy, Select, ManageSelectError, Collect, HandleWrite, Take, HandleRead, flags
  <1>3. CASE Copy \/ Select
    <2>1. UNCHANGED <<disabled, armed, fds, valid, open, signalled, readSignalled, writeSignalled>>
      BY <1>3 DEF Copy, Select, state, signals, native, history
    <2>2. /\ manager.pc \in {"copy", "select"} /\ manager'.pc \in {"select", "error", "collect"}
      <3>1. CASE Copy
        BY <3>1 DEF Copy, At
      <3>2. CASE Select
        BY <1>1, <3>2 DEF Select, At, Goto, ManagerPCs
      <3> QED
        BY <1>3, <3>1, <3>2
    <2>3. AtHand = {} /\ AtHand' = {} /\ WriteIsHandled'
      BY <2>2 DEF AtHand, WriteIsHandled
    <2>4. Heard' = Heard
      BY <2>1, <2>3 DEF Heard, Signalled
    <2> QED
      BY <1>1, <1>2, <2>1, <2>3, <2>4, HeardKept
  <1>4. CASE ManageSelectError
    <2>1. manager.pc = "error" /\ manager'.pc = "copy"
      BY <1>1, <1>4 DEF ManageSelectError, At, Goto, ManagerPCs
    <2>2. AtHand = {} /\ AtHand' = {} /\ WriteIsHandled'
      BY <2>1 DEF AtHand, WriteIsHandled
    <2>3. CASE inLists # {} /\ ~open
      BY <1>4, <2>2, <2>3, NothingIsExpected DEF ManageSelectError, Invalidated
    <2>4. CASE ~(inLists # {} /\ ~open)
      <3>1. /\ UNCHANGED <<disabled, armed, valid, open, signalled, readSignalled, writeSignalled>>
            /\ open => fds' = fds
        BY <1>4, <2>4 DEF ManageSelectError, state, signals
      <3>2. open => Heard' = Heard
        BY <2>2, <3>1 DEF Heard, Signalled
      <3> QED
        BY <1>1, <1>2, <2>2, <3>1, <3>2, HeardKept
    <2> QED
      BY <2>3, <2>4
  <1>5. CASE Collect
    <2>1. /\ UNCHANGED <<disabled, armed, valid, open, signalled, readSignalled, writeSignalled>>
          /\ manager.pc = "collect" /\ manager'.pc = "write"
          /\ manager'.fds = manager.fds \cap inLists /\ fds' = fds \ (manager.fds \cap inLists)
      BY <1>5 DEF Collect, At, state, signals, native, history
    <2>2. AtHand = {} /\ AtHand' = manager.fds \cap inLists /\ WriteIsHandled'
      BY <2>1 DEF AtHand, WriteIsHandled
    <2>3. Heard \subseteq Heard'
      BY <2>1, <2>2 DEF Heard, Signalled
    <2> QED
      BY <1>1, <1>2, <2>1, <2>2, <2>3, HeardKept
  <1>6. CASE HandleWrite
    <2>1. /\ UNCHANGED <<disabled, armed, valid, open, readSignalled, fds>>
          /\ manager.pc = "write"
          /\ "write" \in manager.fds /\ valid /\ WriteIsAvailable =>
               writeSignalled' = TRUE /\ signalled' = TRUE
          /\ ~("write" \in manager.fds /\ valid /\ WriteIsAvailable) =>
               UNCHANGED <<writeSignalled, signalled>>
      BY <1>6 DEF HandleWrite, At, state, native, history
    <2>2. manager'.pc = "read" /\ manager'.fds = manager.fds \ {"write"}
      BY <1>1, <1>6 DEF HandleWrite, ManagerPCs
    <2>3. /\ AtHand = manager.fds /\ AtHand' = manager.fds \ {"write"} /\ WriteIsHandled'
      BY <2>1, <2>2 DEF AtHand, WriteIsHandled
    <2>4. "write" \in armed => WriteIsAvailable
      <3>1. "connect" \notin client
        BY <1>1 DEF SocketInv
      <3> QED
        BY <3>1 DEF HeardInv, ArmedIsEnabled, WriteIsAvailable
    <2>5. valid' /\ open' => armed' \subseteq Heard'
      <3> SUFFICES ASSUME valid, open PROVE armed \subseteq Heard'
        BY <2>1
      <3>1. CASE "write" \in manager.fds /\ WriteIsAvailable
        <4>1. writeSignalled' /\ signalled'
          BY <2>1, <3>1
        <4> QED
          BY <1>1, <2>1, <2>3, <4>1 DEF Heard, Signalled
      <3>2. CASE ~("write" \in manager.fds /\ WriteIsAvailable)
        <4>1. UNCHANGED <<writeSignalled, signalled>>
          BY <2>1, <3>2
        <4> QED
          BY <1>1, <2>1, <2>3, <2>4, <3>2, <4>1 DEF Heard, Signalled
      <3> QED
        BY <3>1, <3>2
    <2> QED
      BY <1>2, <2>1, <2>3, <2>5, HeardKept
  <1>7. CASE Take
    <2>1. /\ UNCHANGED <<disabled, armed, valid, open, fds, signalled, readSignalled,
                         writeSignalled>>
          /\ manager.pc = "read"
      BY <1>7 DEF Take, At, state, signals, history
    <2>2. manager'.pc = "queue" /\ manager'.fds = manager.fds
      BY <1>1, <1>7 DEF Take, ManagerPCs
    <2>3. AtHand' = AtHand /\ WriteIsHandled'
      BY <2>1, <2>2 DEF HeardInv, AtHand, WriteIsHandled
    <2>4. Heard' = Heard
      BY <2>1, <2>3 DEF Heard, Signalled
    <2> QED
      BY <1>1, <1>2, <2>1, <2>3, <2>4, HeardKept
  <1>8. CASE HandleRead
    <2> DEFINE quiet == ~valid \/ "read" \notin manager.fds \/ (~Queues /\ "read" \in disabled)
    <2>1. /\ UNCHANGED <<disabled, armed, valid, open, writeSignalled>>
          /\ manager.pc \in {"read", "queue"} /\ manager'.pc = "copy" /\ manager'.fds = {}
          /\ quiet => UNCHANGED <<readSignalled, signalled, fds>>
          /\ ~quiet => readSignalled' = TRUE /\ signalled' = TRUE /\ fds \subseteq fds'
      <3>1. ~quiet => fds \subseteq fds'
        BY <1>8 DEF HandleRead, SetFds
      <3> QED
        BY <1>8, <3>1 DEF HandleRead, At, state, native, history
    <2>2. AtHand = manager.fds /\ "write" \notin manager.fds /\ AtHand' = {} /\ WriteIsHandled'
      BY <2>1 DEF HeardInv, AtHand, WriteIsHandled
    <2>3. AtHand \subseteq {"read"}
      BY <1>1, <2>2 DEF Directions
    <2>4. "read" \in armed => ~(~Queues /\ "read" \in disabled)
      <3>1. ReadType # {} /\ ~Queues => "read" \in ReadType
        BY DEF ReadType, Queues, DataType, AcceptType
      <3> QED
        BY <3>1 DEF HeardInv, ArmedIsEnabled
    <2> HIDE DEF quiet
    <2>5. valid' /\ open' => armed' \subseteq Heard'
      <3> SUFFICES ASSUME valid, open PROVE armed \subseteq Heard'
        BY <2>1
      <3>1. CASE ~quiet
        <4>1. readSignalled' /\ signalled' /\ fds \subseteq fds' /\ writeSignalled' = writeSignalled
          BY <2>1, <3>1
        <4> QED
          BY <1>1, <2>3, <4>1 DEF Heard, Signalled
      <3>2. CASE quiet
        <4>1. UNCHANGED <<readSignalled, signalled, fds, writeSignalled>>
          BY <2>1, <3>2
        <4>2. "read" \in armed => "read" \notin AtHand
          BY <2>2, <2>4, <3>2 DEF quiet
        <4> QED
          BY <1>1, <2>3, <4>1, <4>2 DEF Heard, Signalled
      <3> QED
        BY <3>1, <3>2
    <2> QED
      BY <1>2, <2>1, <2>2, <2>5, HeardKept
  <1> QED
    BY <1>3, <1>4, <1>5, <1>6, <1>7, <1>8 DEF Manager

LEMMA HeardByPerformers ==
  ASSUME SocketAssumption, HeardInv, SocketInv', NEW t \in Performers,
         Perform(t) \/ Connect(t) \/ Read(t) \/ Write(t) \/ Again(t)
  PROVE  HeardInv'
  <1>1. /\ SocketInv /\ TypeOK /\ manager' = manager
        /\ (valid /\ open => armed \subseteq Heard)
    BY PerformerMoves DEF HeardInv, SocketInv, ExpectedIsHeard, Heard
  <1>2. WriteIsHandled' /\ AtHand' = AtHand
    BY <1>1 DEF HeardInv, WriteIsHandled, AtHand
  <1>3. types' = types
    BY AgainIs DEF Perform, Connect, Read, Write, flags
  <1>4. CASE Perform(t)
    <2>1. /\ UNCHANGED <<disabled, valid, open, fds>>
          /\ armed' = armed \ (Signalled \ (fds \cup AtHand))
      BY <1>4 DEF Perform, native
    <2>2. valid' /\ open' => armed' \subseteq Heard'
      BY <1>1, <1>2, <2>1 DEF Heard
    <2> QED
      BY <1>2, <1>3, <2>1, <2>2, HeardKept
  <1>5. CASE Connect(t) \/ Write(t)
    <2>1. UNCHANGED <<disabled, armed, fds, valid, open, signalled, readSignalled, writeSignalled>>
      BY <1>5 DEF Connect, Write, state, signals, native, history
    <2> QED
      BY <1>1, <1>3, <2>1, HeardMore
  <1>6. CASE Read(t)
    <2>1. Invalidated(TRUE) \/ UNCHANGED <<state, signals, fds, open, armed>>
      BY <1>6 DEF Read
    <2>2. CASE Invalidated(TRUE)
      BY <1>2, <2>2, NothingIsExpected DEF Invalidated
    <2>3. CASE UNCHANGED <<state, signals, fds, open, armed>>
      <3>1. UNCHANGED <<disabled, armed, fds, valid, open, signalled, readSignalled,
                        writeSignalled>>
        BY <2>3 DEF state, signals
      <3> QED
        BY <1>1, <1>3, <3>1, HeardMore
    <2> QED
      BY <2>1, <2>2, <2>3
  <1>7. CASE Again(t)
    <2>1. /\ EnableCallBacks(Bits(t), FALSE, Scheduled)
          /\ armed' = IF valid /\ Scheduled THEN armed \cup EnabledAgain(t) ELSE armed
          /\ signalled' = (signalled \/ SignalsAgain)
      BY <1>7, AgainIs, Zenon
    <2>2. UNCHANGED <<valid, open, readSignalled, writeSignalled>>
      BY <1>7, AgainIs DEF native
    <2>3. /\ Bits(t) \in SUBSET types /\ "connect" \notin Bits(t) /\ Scheduled \in BOOLEAN
          /\ signalled => signalled'
      BY <1>1, <2>1 DEF Bits, Scheduled, SocketInv, TypeOK
    <2>4. CASE valid /\ Scheduled /\ Bits(t) # {}
      <3>1. Off(Bits(t), FALSE) = disabled
        BY DEF Off
      <3>2. disabled' = disabled /\ fds' = fds \cup TurnedOn(Bits(t), disabled)
        BY <1>1, <2>1, <2>3, <2>4, <3>1, EnableEffect
      <3>3. armed' = armed \cup EnabledAgain(t)
        BY <2>1, <2>4
      <3>4. EnabledAgain(t) \subseteq TurnedOn(Bits(t), disabled)
        <4>1. ReadType \cap disabled = {} /\ ReadType # {} => "read" \notin disabled
          BY <1>1 DEF TypeOK, ReadType, DataType
        <4>2. "read" \in EnabledAgain(t) =>
                Bits(t) \cap ReadType # {} /\ ReadType \cap disabled = {}
          BY DEF EnabledAgain
        <4>3. "read" \in EnabledAgain(t) => "read" \in TurnedOn(Bits(t), disabled)
          BY <4>1, <4>2, TurnedOnIs
        <4>4. "write" \in EnabledAgain(t) => "write" \in Bits(t) \ disabled
          BY DEF EnabledAgain
        <4>5. "write" \in EnabledAgain(t) => "write" \in TurnedOn(Bits(t), disabled)
          BY <2>3, <4>4, TurnedOnIs
        <4>6. EnabledAgain(t) \subseteq {"read", "write"}
          BY DEF EnabledAgain
        <4> QED
          BY <4>3, <4>5, <4>6
      <3>5. Heard \cup EnabledAgain(t) \subseteq Heard'
        BY <1>2, <2>2, <2>3, <3>2, <3>4 DEF Heard, Signalled
      <3>6. ExpectedIsHeard'
        BY <1>1, <2>2, <3>3, <3>5 DEF ExpectedIsHeard, Heard
      <3>7. ArmedIsEnabled'
        <4>1. ReadType' = ReadType
          BY <1>3 DEF ReadType
        <4>2. "read" \in EnabledAgain(t) => ReadType # {} /\ ReadType \cap disabled = {}
          BY DEF EnabledAgain
        <4>3. "write" \in EnabledAgain(t) => "write" \in types \ disabled
          BY <2>3 DEF EnabledAgain
        <4> QED
          BY <1>3, <3>2, <3>3, <4>1, <4>2, <4>3 DEF HeardInv, ArmedIsEnabled
      <3> QED
        BY <1>2, <3>6, <3>7 DEF HeardInv
    <2>5. CASE ~(valid /\ Scheduled /\ Bits(t) # {})
      <3>1. disabled' = disabled /\ fds' = fds
        BY <1>1, <2>1, <2>3, <2>5, EnableEffect
      <3>2. armed' = armed
        <4>1. Bits(t) = {} => EnabledAgain(t) = {}
          BY DEF EnabledAgain
        <4> QED
          BY <2>1, <2>5, <4>1
      <3> QED
        BY <1>1, <1>3, <2>2, <2>3, <3>1, <3>2, HeardMore
    <2> QED
      BY <2>4, <2>5
  <1> QED
    BY <1>4, <1>5, <1>6, <1>7

LEMMA HeardStep ==
  ASSUME SocketAssumption, HeardInv, [Next]_vars
  PROVE  HeardInv'
  <1>1. SocketInv'
    BY StepKeeps DEF HeardInv
  <1>2. CASE Arrive \/ End \/ BecomesWritable \/ UNCHANGED vars
    <2>1. UNCHANGED <<types, disabled, armed, manager, fds, valid, open, signalled,
                      readSignalled, writeSignalled>>
      BY <1>2 DEF Arrive, End, BecomesWritable, vars, flags, state, signals, native, history
    <2> QED
      BY <1>1, <2>1, HeardMore
  <1> QED
    BY <1>1, <1>2, HeardByClients, HeardByManager, HeardByPerformers DEF Next

\* A socket whose callbacks a client has enabled, or that are enabled again after a
\* callback, is heard until it is called for them (CFSocket.c:2177-2406, 3115): its
\* descriptor is in the set, or the manager has taken it out to signal it, or it is
\* signalled, in whatever order clients enable and disable, the manager collects and
\* reads, and the run loops perform.
THEOREM EnabledIsHeard ==
  ASSUME SocketAssumption
  PROVE  Spec => []ExpectedIsHeard
  <1>1. Init => HeardInv
    <2>1. ASSUME Init PROVE armed = {} /\ WriteIsHandled
      BY <2>1 DEF Init, WriteIsHandled
    <2> QED
      BY <2>1, InitInv DEF HeardInv, ExpectedIsHeard, ArmedIsEnabled
  <1>2. HeardInv /\ [Next]_vars => HeardInv'
    BY HeardStep
  <1>3. HeardInv => ExpectedIsHeard
    BY DEF HeardInv
  <1> QED
    BY <1>1, <1>2, <1>3, PTL DEF Spec
=============================================================================
