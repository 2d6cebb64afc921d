----------------------- MODULE RunLoopRegistryProofs -----------------------
(* A thread has its own run loop and none when it has ended, for any       *)
(* instance of RunLoopRegistry in which a thread is the first to ask for   *)
(* its loop, and the destructors of its other data ask for it only in the  *)
(* first pass and before the loop's own slot.                              *)
EXTENDS RunLoopRegistry, FiniteSetTheorems, TLAPS

\* The counter of a thread that has a loop tells how many passes are left to
\* come before the last but one, which lets the loop go and frees the table.
InCountdown(where, counter) ==
  \/ where = Running /\ counter = Iterations - 1
  \/ \E p \in 1..(Iterations - 1) :
       where = <<p, "below">> /\ counter = Iterations - p
  \/ \E p \in 1..(Iterations - 2) :
       where = <<p, "above">> /\ counter = Iterations - p - 1

LoopsAreCountedDown ==
  \A a \in Addresses : dict[a] # None =>
    /\ slotLoop[a] = dict[a] /\ a \notin torn /\ held[a] = None
    /\ maker[dict[a]] = <<a, life[a]>> /\ refs[dict[a]] = 1
    /\ InCountdown(place[a], slotCntr[a])

\* A thread without one has either not asked for it, or is past the pass that
\* let it go.
OthersHaveNone ==
  \A a \in Addresses : dict[a] = None =>
    /\ slotCntr[a] = 0
    /\ place[a] \in {Running, <<1, "below">>} =>
         slotLoop[a] = None /\ held[a] = None /\ a \notin torn
    /\ held[a] # None =>
         /\ maker[held[a]][1] = a /\ refs[held[a]] = 1
         /\ place[a] = <<Iterations - 1, "above">>

\* Only the dictionary and the finalizer of its own thread refer to a loop.
LoopsHaveAnOwner ==
  \A l \in loops :
    /\ maker[l] \in Addresses \X (1..MaxLives)
    /\ refs[l] # 0 => dict[maker[l][1]] = l \/ held[maker[l][1]] = l

AnswersAreCurrent ==
  \A a \in Addresses : answer[a] # None =>
    place[a] # Ended /\ (place[a] = Running => answer[a] = dict[a])

RegistryInv ==
  /\ TypeOK
  /\ maker \in [Made -> (Addresses \X (1..MaxLives)) \cup {None}]
  /\ answer \in [Addresses -> Made \cup {None}]
  /\ loops \subseteq Made /\ \E n \in Nat : loops = 1..n
  /\ LoopsAreCountedDown /\ OthersHaveNone /\ LoopsHaveAnOwner /\ AnswersAreCurrent

\* How the instance is restricted.
AsksInTime ==
  /\ RegistryAssumption /\ ~AsksEarly /\ Moments \subseteq {<<1, "below">>}

----------------------------------------------------------------------------
\* Where a thread is.
LEMMA Places ==
  ASSUME RegistryAssumption, RegistryInv, NEW a \in Addresses
  PROVE  \/ place[a] = Running \/ place[a] = Ended
         \/ \E p \in 1..Iterations : place[a] = <<p, "below">>
         \/ \E p \in 1..Iterations : place[a] = <<p, "above">>
  <1> DEFINE Passes == (1..Iterations) \X {"below", "above"}
  <1>1. place[a] \in Passes \cup {Running, Ended}
    BY Zenon DEF RegistryInv, TypeOK
  <1>2. CASE place[a] \in Passes
    <2>1. PICK p \in 1..Iterations, w \in {"below", "above"} : place[a] = <<p, w>>
      BY <1>2
    <2> QED
      BY <2>1
  <1> QED
    BY <1>1, <1>2

LEMMA PlacesDiffer ==
  ASSUME NEW p \in Nat, NEW q \in Nat, p # 0
  PROVE  /\ Running # Ended /\ <<p, "below">> # Running /\ <<p, "above">> # Running
         /\ <<p, "below">> # Ended /\ <<p, "above">> # Ended
         /\ <<p, "below">> # <<q, "above">>
         /\ p # q => <<p, "below">> # <<q, "below">> /\ <<p, "above">> # <<q, "above">>
         /\ Running[2] = "running" /\ Ended[2] = "ended"
         /\ <<p, "below">>[2] = "below" /\ <<p, "above">>[2] = "above"
         /\ <<p, "below">>[1] = p /\ <<p, "above">>[1] = p
  BY DEF Running, Ended

\* A loop that is made is a new one.
LEMMA FreshIsNew ==
  ASSUME RegistryAssumption, RegistryInv
  PROVE  /\ Fresh \notin loops /\ (Fresh \in Made => Fresh # None)
         /\ \E n \in Nat : loops \cup {Fresh} = 1..n
  <1>1. PICK n \in Nat : loops = 1..n
    BY DEF RegistryInv
  <1>2. Cardinality(loops) = n
    BY <1>1, FS_Interval
  <1>3. Fresh = n + 1
    BY <1>2 DEF Fresh
  <1>4. Fresh \notin loops /\ loops \cup {Fresh} = 1..(n + 1)
    BY <1>1, <1>3
  <1> QED
    BY <1>1, <1>4 DEF RegistryAssumption, Made

LEMMA InitRegistry ==
  ASSUME RegistryAssumption
  PROVE  Init => RegistryInv
  <1> SUFFICES ASSUME Init PROVE RegistryInv
    OBVIOUS
  <1>1. loops = {} /\ loops = 1..0 /\ 0 \in Nat
    BY DEF Init
  <1>2. TypeOK
    BY DEF Init, TypeOK, Freed, RegistryAssumption, Made
  <1>3. LoopsAreCountedDown /\ LoopsHaveAnOwner /\ AnswersAreCurrent
    BY DEF Init, LoopsAreCountedDown, LoopsHaveAnOwner, AnswersAreCurrent
  <1>4. OthersHaveNone
    BY DEF Init, OthersHaveNone
  <1> QED
    BY <1>1, <1>2, <1>3, <1>4 DEF RegistryInv, Init, Made

\* What the counter of a thread that has a loop says of each place.
LEMMA CountdownByPlace ==
  ASSUME RegistryAssumption, RegistryInv, NEW a \in Addresses, dict[a] # None
  PROVE  /\ slotLoop[a] = dict[a] /\ a \notin torn /\ held[a] = None
         /\ maker[dict[a]] = <<a, life[a]>> /\ refs[dict[a]] = 1
         /\ place[a] # Ended
         /\ place[a] = Running => slotCntr[a] = Iterations - 1
         /\ \A p \in Nat : place[a] = <<p, "below">> =>
              p \in 1..(Iterations - 1) /\ slotCntr[a] = Iterations - p
         /\ \A p \in Nat : place[a] = <<p, "above">> =>
              p \in 1..(Iterations - 2) /\ slotCntr[a] = Iterations - p - 1
  <1>1. /\ slotLoop[a] = dict[a] /\ a \notin torn /\ held[a] = None
        /\ maker[dict[a]] = <<a, life[a]>> /\ refs[dict[a]] = 1
        /\ \/ place[a] = Running /\ slotCntr[a] = Iterations - 1
           \/ \E p \in 1..(Iterations - 1) :
                place[a] = <<p, "below">> /\ slotCntr[a] = Iterations - p
           \/ \E p \in 1..(Iterations - 2) :
                place[a] = <<p, "above">> /\ slotCntr[a] = Iterations - p - 1
    BY DEF RegistryInv, LoopsAreCountedDown, InCountdown
  <1>2. CASE place[a] = Running /\ slotCntr[a] = Iterations - 1
    BY <1>1, <1>2 DEF Running, Ended
  <1>3. CASE \E p \in 1..(Iterations - 1) :
               place[a] = <<p, "below">> /\ slotCntr[a] = Iterations - p
    BY <1>1, <1>3 DEF Running, Ended
  <1>4. CASE \E p \in 1..(Iterations - 2) :
               place[a] = <<p, "above">> /\ slotCntr[a] = Iterations - p - 1
    BY <1>1, <1>4 DEF Running, Ended
  <1> QED
    BY <1>1, <1>2, <1>3, <1>4

----------------------------------------------------------------------------
(* Every step preserves the invariant. *)

\* A thread that asks is before the passes that touch its loop.
LEMMA AskingIsEarly ==
  ASSUME AsksInTime, RegistryInv, NEW a \in Addresses, MayAsk(a)
  PROVE  /\ place[a] \in {Running, <<1, "below">>}
         /\ IF dict[a] = None
            THEN slotLoop[a] = None /\ a \notin torn /\ held[a] = None /\ slotCntr[a] = 0
            ELSE slotLoop[a] = dict[a] /\ a \notin torn /\ held[a] = None
  BY DEF AsksInTime, RegistryInv, MayAsk, Runs, OthersHaveNone, LoopsAreCountedDown

LEMMA AnswerKnown ==
  ASSUME AsksInTime, RegistryInv, NEW a \in Addresses, GetCurrent(a), dict[a] # None
  PROVE  RegistryInv'
  <1>1. slotLoop[a] = dict[a] /\ dict[a] \in loops /\ dict[a] \in Made /\ place[a] # Ended
    <2>1. place[a] # Ended /\ slotLoop[a] = dict[a]
      BY AskingIsEarly, PlacesDiffer DEF GetCurrent
    <2>2. dict[a] \in loops /\ loops \subseteq Made
      BY DEF RegistryInv, TypeOK
    <2> QED
      BY <2>1, <2>2
  <1>2. answer' = [answer EXCEPT ![a] = dict[a]]
    BY <1>1, AskingIsEarly DEF GetCurrent
  <1>3. /\ UNCHANGED <<loops, maker, refs, dict, slotLoop, slotCntr>>
        /\ UNCHANGED <<torn, place, life, held>>
    BY <1>1, AskingIsEarly DEF GetCurrent, data
  <1>4. /\ answer' \in [Addresses -> Made \cup {None}]
        /\ \A b \in Addresses : answer'[b] = IF b = a THEN dict[a] ELSE answer[b]
    BY <1>1, <1>2 DEF RegistryInv
  <1>5. TypeOK'
    BY <1>3 DEF RegistryInv, TypeOK, Freed
  <1>6. LoopsAreCountedDown' /\ OthersHaveNone' /\ LoopsHaveAnOwner'
    BY <1>3 DEF RegistryInv, LoopsAreCountedDown, OthersHaveNone, LoopsHaveAnOwner
  <1>7. AnswersAreCurrent'
    BY <1>1, <1>3, <1>4 DEF RegistryInv, AnswersAreCurrent
  <1> QED
    BY <1>3, <1>4, <1>5, <1>6, <1>7 DEF RegistryInv

LEMMA AnswerMade ==
  ASSUME AsksInTime, RegistryInv, NEW a \in Addresses, GetCurrent(a), dict[a] = None
  PROVE  RegistryInv'
  <1> DEFINE l == Fresh
  <1>1. /\ slotLoop[a] = None /\ a \notin torn /\ held[a] = None /\ slotCntr[a] = 0
        /\ place[a] \in {Running, <<1, "below">>} /\ place[a] # Ended
    BY AskingIsEarly, PlacesDiffer DEF GetCurrent
  <1>2. LookUp(a) /\ answer' = [answer EXCEPT ![a] = l]
    BY <1>1 DEF GetCurrent, LoopFor
  <1>3. /\ l \in Made /\ loops' = loops \cup {l}
        /\ maker' = [maker EXCEPT ![l] = <<a, life[a]>>]
        /\ refs' = [refs EXCEPT ![l] = 1] /\ dict' = [dict EXCEPT ![a] = l]
    BY <1>2 DEF LookUp
  <1>4. /\ slotLoop' = [slotLoop EXCEPT ![a] = l]
        /\ slotCntr' = [slotCntr EXCEPT ![a] = Iterations - 1]
        /\ UNCHANGED <<torn, place, life, held>>
    BY <1>1 DEF GetCurrent, LoopFor, Counter
  <1>5. l \notin loops /\ l # None /\ \E n \in Nat : loops' = 1..n
    BY <1>3, FreshIsNew DEF AsksInTime
  <1> HIDE DEF l
  <1>6. Iterations \in Nat /\ Iterations > 1 /\ MaxLives \in Nat
    BY DEF AsksInTime, RegistryAssumption
  <1>7. /\ \A b \in Addresses : /\ dict'[b] = IF b = a THEN l ELSE dict[b]
                                /\ slotLoop'[b] = IF b = a THEN l ELSE slotLoop[b]
                                /\ slotCntr'[b] = IF b = a THEN Iterations - 1 ELSE slotCntr[b]
                                /\ answer'[b] = IF b = a THEN l ELSE answer[b]
        /\ \A k \in Made : /\ refs'[k] = IF k = l THEN 1 ELSE refs[k]
                           /\ maker'[k] = IF k = l THEN <<a, life[a]>> ELSE maker[k]
    BY <1>2, <1>3, <1>4 DEF RegistryInv, TypeOK
  <1>8. life[a] \in 1..MaxLives
    BY DEF RegistryInv, TypeOK
  <1>9. /\ maker' \in [Made -> (Addresses \X (1..MaxLives)) \cup {None}]
        /\ answer' \in [Addresses -> Made \cup {None}] /\ loops' \subseteq Made
    BY <1>2, <1>3, <1>8 DEF RegistryInv
  <1>10. TypeOK'
    <2>1. /\ dict' \in [Addresses -> loops' \cup {None}]
          /\ slotLoop' \in [Addresses -> loops' \cup {None}]
          /\ slotCntr' \in [Addresses -> 0..Iterations]
          /\ refs' \in [Made -> 0..1]
          /\ held' \in [Addresses -> loops' \cup {None}]
      BY <1>3, <1>4, <1>6 DEF RegistryInv, TypeOK
    <2>2. \A b \in Addresses : dict'[b] \notin Freed'
      BY <1>3, <1>5, <1>7 DEF RegistryInv, TypeOK, Freed
    <2> QED
      BY <2>1, <2>2, <1>4 DEF RegistryInv, TypeOK
  <1>11. \A b \in Addresses : dict[b] # l /\ held[b] # l
    BY <1>5 DEF RegistryInv, TypeOK
  <1>12. LoopsAreCountedDown'
    <2>1. SUFFICES ASSUME NEW b \in Addresses, dict'[b] # None
                   PROVE  /\ slotLoop'[b] = dict'[b] /\ b \notin torn' /\ held'[b] = None
                          /\ maker'[dict'[b]] = <<b, life'[b]>> /\ refs'[dict'[b]] = 1
                          /\ InCountdown(place'[b], slotCntr'[b])
      BY DEF LoopsAreCountedDown
    <2>2. CASE b = a
      <3>1. InCountdown(place[a], Iterations - 1)
        BY <1>1, <1>6 DEF InCountdown
      <3> QED
        BY <2>2, <3>1, <1>1, <1>3, <1>4, <1>7
    <2>3. CASE b # a
      <3>1. dict[b] # None /\ dict[b] # l /\ dict[b] \in Made
        BY <2>1, <2>3, <1>7, <1>11 DEF RegistryInv, TypeOK
      <3>2. /\ slotLoop[b] = dict[b] /\ b \notin torn /\ held[b] = None
            /\ maker[dict[b]] = <<b, life[b]>> /\ refs[dict[b]] = 1
            /\ InCountdown(place[b], slotCntr[b])
        BY <3>1 DEF RegistryInv, LoopsAreCountedDown
      <3> QED
        BY <2>3, <3>1, <3>2, <1>4, <1>7
    <2> QED
      BY <2>2, <2>3
  <1>13. OthersHaveNone'
    BY <1>4, <1>5, <1>7, <1>11 DEF RegistryInv, TypeOK, OthersHaveNone
  <1>14. LoopsHaveAnOwner'
    <2>1. SUFFICES ASSUME NEW k \in loops'
                   PROVE  /\ maker'[k] \in Addresses \X (1..MaxLives)
                          /\ refs'[k] # 0 => \/ dict'[maker'[k][1]] = k
                                             \/ held'[maker'[k][1]] = k
      BY Zenon DEF LoopsHaveAnOwner
    <2>2. CASE k = l
      BY <2>2, <1>3, <1>7, <1>8
    <2>3. CASE k # l
      <3>1. k \in loops /\ k \in Made /\ k # None
        BY <2>3, <1>3 DEF AsksInTime, RegistryAssumption, Made, RegistryInv
      <3>2. /\ maker[k] \in Addresses \X (1..MaxLives)
            /\ refs[k] # 0 => dict[maker[k][1]] = k \/ held[maker[k][1]] = k
        BY <3>1 DEF RegistryInv, LoopsHaveAnOwner
      <3>3. maker[k][1] \in Addresses /\ maker'[k] = maker[k] /\ refs'[k] = refs[k]
        BY <2>3, <3>1, <3>2, <1>7
      <3>4. dict[maker[k][1]] = k => maker[k][1] # a
        BY <3>1
      <3> QED
        BY <3>2, <3>3, <3>4, <1>4, <1>7
    <2> QED
      BY <2>2, <2>3
  <1>15. AnswersAreCurrent'
    BY <1>1, <1>4, <1>7 DEF RegistryInv, AnswersAreCurrent
  <1> QED
    BY <1>5, <1>9, <1>10, <1>12, <1>13, <1>14, <1>15 DEF RegistryInv

LEMMA AskedByOther ==
  ASSUME AsksInTime, RegistryInv, NEW a \in Addresses, NEW b \in Addresses, GetOther(a, b)
  PROVE  RegistryInv'
  <1>1. dict[b] # None
    BY DEF AsksInTime, GetOther, Runs, RegistryInv, OthersHaveNone
  <1>2. UNCHANGED vars
    BY <1>1 DEF GetOther, LookUp, data, vars
  <1> QED
    BY <1>2 DEF vars, data, RegistryInv, TypeOK, Freed, LoopsAreCountedDown,
       OthersHaveNone, LoopsHaveAnOwner, AnswersAreCurrent

LEMMA CurrentIsSetNone ==
  ASSUME AsksInTime, RegistryInv, NEW a \in Addresses, SetCurrentNone(a)
  PROVE  RegistryInv'
  <1> DEFINE l == dict[a]
  <1>1. /\ place[a] = Running /\ l # None
        /\ refs' = [refs EXCEPT ![l] = @ - 1] /\ dict' = [dict EXCEPT ![a] = None]
        /\ slotLoop' = [slotLoop EXCEPT ![a] = None]
        /\ slotCntr' = [slotCntr EXCEPT ![a] = 0]
        /\ answer' = [answer EXCEPT ![a] = None]
        /\ UNCHANGED <<torn, place, life, maker, loops, held>>
    BY DEF SetCurrentNone, Runs, ClearedSlot
  <1>2. /\ l \in loops /\ l \in Made /\ refs[l] = 1 /\ maker[l] = <<a, life[a]>>
        /\ held[a] = None /\ a \notin torn
    BY <1>1 DEF RegistryInv, TypeOK, LoopsAreCountedDown
  <1>3. /\ \A b \in Addresses : /\ dict'[b] = IF b = a THEN None ELSE dict[b]
                                /\ slotLoop'[b] = IF b = a THEN None ELSE slotLoop[b]
                                /\ slotCntr'[b] = IF b = a THEN 0 ELSE slotCntr[b]
                                /\ answer'[b] = IF b = a THEN None ELSE answer[b]
        /\ \A k \in Made : refs'[k] = IF k = l THEN 0 ELSE refs[k]
    BY <1>1, <1>2 DEF RegistryInv, TypeOK
  <1>4. \A b \in Addresses : b # a => dict[b] # l
    BY <1>1, <1>2 DEF RegistryInv, LoopsAreCountedDown
  <1>5. \A b \in Addresses : held[b] # l
    <2>1. SUFFICES ASSUME NEW b \in Addresses, held[b] = l PROVE FALSE
      OBVIOUS
    <2>2. held[b] # None /\ b # a
      BY <1>1, <1>2, <2>1
    <2>3. dict[b] = None
      BY <2>2 DEF RegistryInv, LoopsAreCountedDown
    <2>4. maker[l][1] = b
      BY <2>1, <2>2, <2>3 DEF RegistryInv, OthersHaveNone
    <2> QED
      BY <1>2, <2>2, <2>4
  <1>6. answer' \in [Addresses -> Made \cup {None}]
    BY <1>1 DEF RegistryInv
  <1> HIDE DEF l
  <1>7. TypeOK'
    <2>1. /\ dict' \in [Addresses -> loops' \cup {None}]
          /\ slotLoop' \in [Addresses -> loops' \cup {None}]
          /\ slotCntr' \in [Addresses -> 0..Iterations]
      BY <1>1 DEF AsksInTime, RegistryAssumption, RegistryInv, TypeOK
    <2>2. refs' \in [Made -> 0..1]
      BY <1>1, <1>2, <1>3 DEF RegistryInv, TypeOK
    <2>3. \A b \in Addresses : dict'[b] \notin Freed'
      <3>1. SUFFICES ASSUME NEW b \in Addresses, dict'[b] \in loops', refs'[dict'[b]] = 0
                     PROVE  FALSE
        BY DEF Freed
      <3>2. None \notin loops
        BY DEF AsksInTime, RegistryAssumption, RegistryInv, Made
      <3>3. b # a /\ dict[b] \in loops /\ dict[b] \in Made /\ dict[b] # l
        BY <3>1, <3>2, <1>1, <1>3, <1>4 DEF RegistryInv
      <3>4. refs[dict[b]] = 0
        BY <3>1, <3>3, <1>3
      <3> QED
        BY <3>3, <3>4 DEF RegistryInv, TypeOK, Freed
    <2> QED
      BY <2>1, <2>2, <2>3, <1>1 DEF RegistryInv, TypeOK
  <1>8. LoopsAreCountedDown'
    <2>1. SUFFICES ASSUME NEW b \in Addresses, dict'[b] # None
                   PROVE  b # a /\ dict[b] # None /\ dict[b] # l /\ dict[b] \in Made
      BY <1>1, <1>3 DEF RegistryInv, LoopsAreCountedDown
    <2> QED
      BY <2>1, <1>3, <1>4 DEF RegistryInv, TypeOK
  <1>9. OthersHaveNone'
    <2>1. \A b \in Addresses : held[b] # None => held[b] \in Made /\ held[b] # l
      BY <1>5 DEF RegistryInv, TypeOK
    <2> QED
      BY <2>1, <1>1, <1>2, <1>3 DEF RegistryInv, OthersHaveNone
  <1>10. LoopsHaveAnOwner'
    <2>1. SUFFICES ASSUME NEW k \in loops, refs'[k] # 0
                   PROVE  dict'[maker[k][1]] = k \/ held[maker[k][1]] = k
      BY <1>1 DEF RegistryInv, LoopsHaveAnOwner
    <2>2. k # l /\ k \in Made /\ refs[k] # 0
      BY <2>1, <1>3 DEF RegistryInv
    <2>3. /\ maker[k][1] \in Addresses
          /\ dict[maker[k][1]] = k \/ held[maker[k][1]] = k
      BY <2>2, <2>1 DEF RegistryInv, LoopsHaveAnOwner
    <2>4. dict[maker[k][1]] = k => maker[k][1] # a
      BY <2>2 DEF l
    <2> QED
      BY <2>3, <2>4, <1>3
  <1>11. AnswersAreCurrent'
    BY <1>1, <1>3 DEF RegistryInv, AnswersAreCurrent
  <1> QED
    BY <1>1, <1>6, <1>7, <1>8, <1>9, <1>10, <1>11 DEF RegistryInv

LEMMA ThreadExits ==
  ASSUME AsksInTime, RegistryInv, NEW a \in Addresses, Exit(a)
  PROVE  RegistryInv'
  <1>1. /\ place[a] = Running /\ place' = [place EXCEPT ![a] = <<1, "below">>]
        /\ UNCHANGED <<dict, slotLoop, slotCntr, torn, life, maker, loops, refs, held, answer>>
    BY DEF Exit, Runs, data
  <1>2. /\ Iterations \in Nat /\ 1 \in 1..(Iterations - 1) /\ 1 \in 1..Iterations
        /\ <<1, "below">> # Ended /\ <<1, "below">> # Running
    BY PlacesDiffer DEF AsksInTime, RegistryAssumption
  <1>3. \A b \in Addresses : place'[b] = IF b = a THEN <<1, "below">> ELSE place[b]
    BY <1>1 DEF RegistryInv, TypeOK
  <1>4. TypeOK'
    <2>1. <<1, "below">> \in (1..Iterations) \X {"below", "above"}
      BY <1>2
    <2>2. place' \in [Addresses ->
            ((1..Iterations) \X {"below", "above"}) \cup {Running, Ended}]
      BY <1>1, <2>1 DEF RegistryInv, TypeOK
    <2> QED
      BY <1>1, <2>2 DEF RegistryInv, TypeOK, Freed
  <1>5. LoopsAreCountedDown'
    <2>1. CASE dict[a] = None
      BY <2>1, <1>1, <1>3 DEF RegistryInv, LoopsAreCountedDown
    <2>2. CASE dict[a] # None
      <3>2. /\ slotLoop[a] = dict[a] /\ a \notin torn /\ held[a] = None
            /\ maker[dict[a]] = <<a, life[a]>> /\ refs[dict[a]] = 1
            /\ slotCntr[a] = Iterations - 1
        BY <2>2, <1>1, CountdownByPlace DEF AsksInTime
      <3>3. InCountdown(place'[a], slotCntr'[a])
        BY <3>2, <1>1, <1>2, <1>3 DEF InCountdown
      <3>4. ASSUME NEW b \in Addresses, b # a PROVE place'[b] = place[b]
        BY <3>4, <1>3
      <3> QED
        BY <3>2, <3>3, <3>4, <1>1 DEF RegistryInv, LoopsAreCountedDown
    <2> QED
      BY <2>1, <2>2
  <1>6. OthersHaveNone'
    <2>1. <<Iterations - 1, "above">> # Running
      BY <1>2, PlacesDiffer
    <2> QED
      BY <2>1, <1>1, <1>3 DEF RegistryInv, OthersHaveNone
  <1>7. LoopsHaveAnOwner' /\ AnswersAreCurrent'
    BY <1>1, <1>2, <1>3 DEF RegistryInv, LoopsHaveAnOwner, AnswersAreCurrent
  <1> QED
    BY <1>1, <1>4, <1>5, <1>6, <1>7 DEF RegistryInv

\* The pass comes to the counter's slot: of a thread that has no loop, in the
\* last pass but one, or before it.
LEMMA CounterOfNone ==
  ASSUME AsksInTime, RegistryInv, NEW a \in Addresses, CounterSlot(a), dict[a] = None
  PROVE  RegistryInv'
  <1>1. PICK p \in 1..Iterations : place[a] = <<p, "below">>
    BY Places DEF CounterSlot, AsksInTime, Running, Ended
  <1>2. /\ place' = [place EXCEPT ![a] = <<p, "above">>]
        /\ UNCHANGED <<slotLoop, torn, life, maker, loops, refs, answer>>
    BY <1>1 DEF CounterSlot
  <1>3. slotCntr[a] = 0
    BY DEF RegistryInv, OthersHaveNone
  <1>4. UNCHANGED <<slotCntr, dict, held>>
    BY <1>3 DEF CounterSlot
  <1>5. /\ p \in Nat /\ p # 0 /\ <<p, "above">> # Running /\ <<p, "above">> # Ended
        /\ <<p, "above">> # <<1, "below">> /\ <<p, "below">> # <<Iterations - 1, "above">>
        /\ <<p, "above">> \in (1..Iterations) \X {"below", "above"}
    BY PlacesDiffer DEF AsksInTime, RegistryAssumption
  <1>6. held[a] = None
    BY <1>1, <1>5 DEF RegistryInv, OthersHaveNone
  <1>7. \A b \in Addresses : place'[b] = IF b = a THEN <<p, "above">> ELSE place[b]
    BY <1>2 DEF RegistryInv, TypeOK
  <1>8. TypeOK'
    BY <1>2, <1>4, <1>5 DEF RegistryInv, TypeOK, Freed
  <1>9. LoopsAreCountedDown' /\ LoopsHaveAnOwner'
    BY <1>2, <1>4, <1>7 DEF RegistryInv, LoopsAreCountedDown, LoopsHaveAnOwner
  <1>10. OthersHaveNone'
    BY <1>2, <1>4, <1>5, <1>6, <1>7 DEF RegistryInv, OthersHaveNone
  <1>11. AnswersAreCurrent'
    BY <1>2, <1>4, <1>5, <1>7 DEF RegistryInv, AnswersAreCurrent
  <1> QED
    BY <1>2, <1>8, <1>9, <1>10, <1>11 DEF RegistryInv

LEMMA CounterGoesDown ==
  ASSUME AsksInTime, RegistryInv, NEW a \in Addresses, CounterSlot(a), dict[a] # None,
         ~IsLastCall(slotCntr[a])
  PROVE  RegistryInv'
  <1>1. PICK p \in 1..Iterations : place[a] = <<p, "below">>
    BY Places DEF CounterSlot, AsksInTime, Running, Ended
  <1>2. /\ place' = [place EXCEPT ![a] = <<p, "above">>]
        /\ UNCHANGED <<slotLoop, torn, life, maker, loops, refs, answer>>
    BY <1>1 DEF CounterSlot
  <1>3. /\ p \in 1..(Iterations - 1) /\ slotCntr[a] = Iterations - p
        /\ a \notin torn /\ held[a] = None /\ Iterations \in Nat
    BY <1>1, CountdownByPlace DEF AsksInTime, RegistryAssumption
  <1>4. /\ slotCntr' = [slotCntr EXCEPT ![a] = @ - 1] /\ UNCHANGED <<dict, held>>
        /\ p \in 1..(Iterations - 2)
    BY <1>3 DEF CounterSlot, IsLastCall
  <1>5. /\ <<p, "above">> # Running /\ <<p, "above">> # Ended
        /\ <<p, "above">> \in (1..Iterations) \X {"below", "above"}
    BY <1>3, PlacesDiffer
  <1>6. \A b \in Addresses :
          /\ place'[b] = IF b = a THEN <<p, "above">> ELSE place[b]
          /\ slotCntr'[b] = IF b = a THEN Iterations - p - 1 ELSE slotCntr[b]
    BY <1>2, <1>3, <1>4 DEF RegistryInv, TypeOK
  <1>7. TypeOK'
    <2>1. Iterations - p - 1 \in 0..Iterations
      BY <1>3
    <2>2. slotCntr' = [slotCntr EXCEPT ![a] = Iterations - p - 1]
      BY <1>3, <1>4
    <2> QED
      BY <2>1, <2>2, <1>2, <1>4, <1>5 DEF RegistryInv, TypeOK, Freed
  <1>8. LoopsAreCountedDown'
    <2>1. /\ slotLoop[a] = dict[a] /\ maker[dict[a]] = <<a, life[a]>> /\ refs[dict[a]] = 1
      BY DEF RegistryInv, LoopsAreCountedDown
    <2>2. InCountdown(place'[a], slotCntr'[a])
      BY <1>4, <1>6 DEF InCountdown
    <2>3. ASSUME NEW b \in Addresses, b # a
          PROVE  place'[b] = place[b] /\ slotCntr'[b] = slotCntr[b]
      BY <2>3, <1>6
    <2> QED
      BY <2>1, <2>2, <2>3, <1>2, <1>3, <1>4 DEF RegistryInv, LoopsAreCountedDown
  <1>9. OthersHaveNone' /\ LoopsHaveAnOwner'
    BY <1>2, <1>4, <1>6 DEF RegistryInv, OthersHaveNone, LoopsHaveAnOwner
  <1>10. AnswersAreCurrent'
    BY <1>2, <1>4, <1>5, <1>6 DEF RegistryInv, AnswersAreCurrent
  <1> QED
    BY <1>2, <1>7, <1>8, <1>9, <1>10 DEF RegistryInv

LEMMA CounterRunsOut ==
  ASSUME AsksInTime, RegistryInv, NEW a \in Addresses, CounterSlot(a), dict[a] # None,
         IsLastCall(slotCntr[a])
  PROVE  RegistryInv'
  <1> DEFINE l == dict[a]
  <1>1. PICK p \in 1..Iterations : place[a] = <<p, "below">>
    BY Places DEF CounterSlot, AsksInTime, Running, Ended
  <1>2. /\ place' = [place EXCEPT ![a] = <<p, "above">>]
        /\ UNCHANGED <<slotLoop, torn, life, maker, loops, refs, answer>>
    BY <1>1 DEF CounterSlot
  <1>3. /\ p \in 1..(Iterations - 1) /\ slotCntr[a] = Iterations - p
        /\ a \notin torn /\ held[a] = None /\ Iterations \in Nat
        /\ maker[l] = <<a, life[a]>> /\ refs[l] = 1
    BY <1>1, CountdownByPlace DEF AsksInTime, RegistryAssumption
  <1>4. /\ slotCntr' = [slotCntr EXCEPT ![a] = 0] /\ held' = [held EXCEPT ![a] = l]
        /\ dict' = [dict EXCEPT ![a] = None]
        /\ p = Iterations - 1
    BY <1>3 DEF CounterSlot, IsLastCall, TakenOff
  <1>5. /\ <<p, "above">> # Running /\ <<p, "above">> # Ended /\ <<p, "above">> # <<1, "below">>
        /\ <<p, "above">> \in (1..Iterations) \X {"below", "above"}
    BY <1>3, PlacesDiffer
  <1>6. l \in loops /\ l \in Made /\ l # None /\ None \notin loops
    BY DEF RegistryInv, TypeOK, AsksInTime, RegistryAssumption, Made
  <1> HIDE DEF l
  <1>7. \A b \in Addresses :
          /\ place'[b] = IF b = a THEN <<p, "above">> ELSE place[b]
          /\ slotCntr'[b] = IF b = a THEN 0 ELSE slotCntr[b]
          /\ held'[b] = IF b = a THEN l ELSE held[b]
          /\ dict'[b] = IF b = a THEN None ELSE dict[b]
    BY <1>2, <1>4 DEF RegistryInv, TypeOK
  <1>8. TypeOK'
    <2>1. /\ dict' \in [Addresses -> loops' \cup {None}]
          /\ held' \in [Addresses -> loops' \cup {None}]
          /\ slotCntr' \in [Addresses -> 0..Iterations]
      BY <1>2, <1>3, <1>4, <1>6 DEF RegistryInv, TypeOK
    <2>2. \A b \in Addresses : dict'[b] \notin Freed'
      BY <1>2, <1>6, <1>7 DEF RegistryInv, TypeOK, Freed
    <2> QED
      BY <2>1, <2>2, <1>2, <1>5 DEF RegistryInv, TypeOK
  <1>9. LoopsAreCountedDown'
    <2>1. ASSUME NEW b \in Addresses, dict'[b] # None
          PROVE  /\ b # a /\ dict'[b] = dict[b] /\ held'[b] = held[b]
                 /\ place'[b] = place[b] /\ slotCntr'[b] = slotCntr[b]
      BY <2>1, <1>7
    <2> QED
      BY <2>1, <1>2, ZenonT(30) DEF RegistryInv, LoopsAreCountedDown
  <1>10. OthersHaveNone'
    <2>1. ASSUME NEW b \in Addresses, b # a
          PROVE  /\ dict'[b] = dict[b] /\ held'[b] = held[b]
                 /\ place'[b] = place[b] /\ slotCntr'[b] = slotCntr[b]
      BY <2>1, <1>7
    <2>2. /\ slotCntr'[a] = 0 /\ held'[a] = l /\ maker[l][1] = a /\ refs[l] = 1
          /\ place'[a] = <<Iterations - 1, "above">>
          /\ place'[a] \notin {Running, <<1, "below">>}
      BY <1>3, <1>4, <1>5, <1>7
    <2> QED
      BY <2>1, <2>2, <1>2 DEF RegistryInv, OthersHaveNone
  <1>11. LoopsHaveAnOwner'
    <2>1. ASSUME NEW k \in loops, refs[k] # 0
          PROVE  dict'[maker[k][1]] = k \/ held'[maker[k][1]] = k
      <3>1. /\ maker[k][1] \in Addresses
            /\ dict[maker[k][1]] = k \/ held[maker[k][1]] = k
        BY <2>1 DEF RegistryInv, LoopsHaveAnOwner
      <3>2. k # None
        BY <1>6
      <3> QED
        BY <3>1, <3>2, <1>3, <1>7 DEF l
    <2> QED
      BY <2>1, <1>2 DEF RegistryInv, LoopsHaveAnOwner
  <1>12. AnswersAreCurrent'
    BY <1>2, <1>5, <1>7 DEF RegistryInv, AnswersAreCurrent
  <1> QED
    BY <1>2, <1>8, <1>9, <1>10, <1>11, <1>12 DEF RegistryInv

LEMMA FinalizerReleases ==
  ASSUME AsksInTime, RegistryInv, NEW a \in Addresses, FinalizeReleases(a)
  PROVE  RegistryInv'
  <1> DEFINE l == held[a]
  <1>1. /\ l # None /\ refs' = [refs EXCEPT ![l] = @ - 1]
        /\ held' = [held EXCEPT ![a] = None]
        /\ UNCHANGED <<dict, slotLoop, slotCntr, torn, place, life, maker, loops, answer>>
    BY DEF FinalizeReleases, data
  <1>2. dict[a] = None
    BY <1>1 DEF RegistryInv, LoopsAreCountedDown
  <1>3. l \in loops /\ l \in Made /\ maker[l][1] = a /\ refs[l] = 1
    BY <1>1, <1>2 DEF RegistryInv, TypeOK, OthersHaveNone
  <1>4. \A b \in Addresses : dict[b] # l
    <2>1. ASSUME NEW b \in Addresses, dict[b] = l PROVE FALSE
      <3>1. maker[l] = <<b, life[b]>>
        BY <1>1, <2>1 DEF RegistryInv, LoopsAreCountedDown
      <3> QED
        BY <3>1, <1>1, <1>2, <1>3, <2>1
    <2> QED
      BY <2>1
  <1>5. \A b \in Addresses : held[b] # None /\ b # a => held[b] # l
    <2>1. ASSUME NEW b \in Addresses, held[b] = l, b # a PROVE FALSE
      <3>1. dict[b] = None
        BY <1>1, <2>1 DEF RegistryInv, LoopsAreCountedDown
      <3>2. maker[l][1] = b
        BY <1>1, <2>1, <3>1 DEF RegistryInv, OthersHaveNone
      <3> QED
        BY <3>2, <1>3, <2>1
    <2> QED
      BY <2>1
  <1> HIDE DEF l
  <1>6. /\ \A b \in Addresses : held'[b] = IF b = a THEN None ELSE held[b]
        /\ \A k \in Made : refs'[k] = IF k = l THEN 0 ELSE refs[k]
    BY <1>1, <1>3 DEF RegistryInv, TypeOK
  <1>7. TypeOK'
    <2>1. refs' \in [Made -> 0..1] /\ held' \in [Addresses -> loops' \cup {None}]
      BY <1>1, <1>3 DEF RegistryInv, TypeOK
    <2>2. \A b \in Addresses : dict'[b] \notin Freed'
      <3>1. SUFFICES ASSUME NEW b \in Addresses, dict[b] \in loops, refs'[dict[b]] = 0
                     PROVE  FALSE
        BY <1>1 DEF Freed
      <3>2. dict[b] \in Made /\ refs[dict[b]] = 0
        BY <3>1, <1>4, <1>6 DEF RegistryInv
      <3> QED
        BY <3>1, <3>2 DEF RegistryInv, TypeOK, Freed
    <2> QED
      BY <2>1, <2>2, <1>1 DEF RegistryInv, TypeOK
  <1>8. LoopsAreCountedDown'
    <2>1. ASSUME NEW b \in Addresses, dict[b] # None
          PROVE  refs'[dict[b]] = refs[dict[b]] /\ held'[b] = held[b]
      BY <2>1, <1>2, <1>4, <1>6 DEF RegistryInv, TypeOK
    <2> QED
      BY <2>1, <1>1 DEF RegistryInv, LoopsAreCountedDown
  <1>9. OthersHaveNone'
    <2>1. \A b \in Addresses : held[b] # None => held[b] \in Made
      BY DEF RegistryInv, TypeOK
    <2> QED
      BY <2>1, <1>1, <1>5, <1>6 DEF RegistryInv, OthersHaveNone
  <1>10. LoopsHaveAnOwner'
    <2>1. ASSUME NEW k \in loops, refs'[k] # 0
          PROVE  dict[maker[k][1]] = k \/ held'[maker[k][1]] = k
      <3>1. k # l /\ refs[k] # 0
        BY <2>1, <1>6 DEF RegistryInv
      <3>2. /\ maker[k][1] \in Addresses
            /\ dict[maker[k][1]] = k \/ held[maker[k][1]] = k
        BY <3>1, <2>1 DEF RegistryInv, LoopsHaveAnOwner
      <3> QED
        BY <3>1, <3>2, <1>6 DEF l
    <2> QED
      BY <2>1, <1>1 DEF RegistryInv, LoopsHaveAnOwner
  <1>11. AnswersAreCurrent'
    BY <1>1 DEF RegistryInv, AnswersAreCurrent
  <1> QED
    BY <1>1, <1>7, <1>8, <1>9, <1>10, <1>11 DEF RegistryInv

LEMMA PassIsOver ==
  ASSUME AsksInTime, RegistryInv, NEW a \in Addresses, PassEnds(a)
  PROVE  RegistryInv'
  <1>1. PICK p \in 1..Iterations : place[a] = <<p, "above">>
    BY Places DEF PassEnds, AsksInTime, Running, Ended
  <1> DEFINE next == IF p = Iterations THEN Ended ELSE <<p + 1, "below">>
  <1>2. /\ held[a] = None /\ place' = [place EXCEPT ![a] = next]
        /\ torn' = IF TornAfter(p) THEN torn \cup {a} ELSE torn
        /\ answer' = IF p = Iterations THEN [answer EXCEPT ![a] = None] ELSE answer
        /\ UNCHANGED <<dict, slotLoop, slotCntr, life, maker, loops, refs, held>>
    BY <1>1 DEF PassEnds, data
  <1>3. Iterations \in Nat /\ Iterations > 1 /\ p \in Nat
    BY DEF AsksInTime, RegistryAssumption
  <1>4. /\ next # Running /\ next # <<1, "below">>
        /\ next = Ended => p = Iterations
        /\ next \in ((1..Iterations) \X {"below", "above"}) \cup {Running, Ended}
    <2>1. CASE p = Iterations
      BY <2>1 DEF Running, Ended
    <2>2. CASE p # Iterations
      BY <2>2, <1>3 DEF Running, Ended
    <2> QED
      BY <2>1, <2>2
  <1>5. ASSUME dict[a] # None
        PROVE  InCountdown(next, slotCntr[a]) /\ ~TornAfter(p)
    <2>1. p \in 1..(Iterations - 2) /\ slotCntr[a] = Iterations - p - 1
      BY <1>1, <1>3, <1>5, CountdownByPlace DEF AsksInTime
    <2>2. /\ p + 1 \in 1..(Iterations - 1) /\ slotCntr[a] = Iterations - (p + 1)
          /\ next = <<p + 1, "below">> /\ p # Iterations - 1
      BY <2>1, <1>3
    <2> HIDE DEF next
    <2> QED
      BY <2>2 DEF InCountdown, TornAfter
  <1> HIDE DEF next
  <1>6. \A b \in Addresses : place'[b] = IF b = a THEN next ELSE place[b]
    BY <1>2 DEF RegistryInv, TypeOK
  <1>7. /\ answer' \in [Addresses -> Made \cup {None}]
        /\ \A b \in Addresses :
             answer'[b] = IF b = a /\ p = Iterations THEN None ELSE answer[b]
    BY <1>2 DEF RegistryInv
  <1>8. torn' \subseteq torn \cup {a}
    BY <1>2
  <1>9. TypeOK'
    <2>1. place' \in [Addresses ->
            ((1..Iterations) \X {"below", "above"}) \cup {Running, Ended}]
      BY <1>2, <1>4 DEF RegistryInv, TypeOK
    <2> QED
      BY <2>1, <1>2, <1>8 DEF RegistryInv, TypeOK, Freed
  <1>10. LoopsAreCountedDown'
    <2>1. ASSUME NEW b \in Addresses, dict[b] # None
          PROVE  InCountdown(place'[b], slotCntr[b]) /\ b \notin torn'
      <3>1. InCountdown(place[b], slotCntr[b]) /\ b \notin torn
        BY <2>1 DEF RegistryInv, LoopsAreCountedDown
      <3>2. CASE b = a
        BY <3>1, <3>2, <2>1, <1>2, <1>5, <1>6
      <3>3. CASE b # a
        BY <3>1, <3>3, <1>6, <1>8
      <3> QED
        BY <3>2, <3>3
    <2> QED
      BY <2>1, <1>2 DEF RegistryInv, LoopsAreCountedDown
  <1>11. OthersHaveNone'
    BY <1>2, <1>4, <1>6, <1>8 DEF RegistryInv, OthersHaveNone
  <1>12. LoopsHaveAnOwner'
    BY <1>2 DEF RegistryInv, LoopsHaveAnOwner
  <1>13. AnswersAreCurrent'
    BY <1>2, <1>4, <1>6, <1>7 DEF RegistryInv, AnswersAreCurrent
  <1> QED
    BY <1>2, <1>7, <1>9, <1>10, <1>11, <1>12, <1>13 DEF RegistryInv

LEMMA AddressIsUsedAgain ==
  ASSUME AsksInTime, RegistryInv, NEW a \in Addresses, Restart(a)
  PROVE  RegistryInv'
  <1>1. /\ place[a] = Ended /\ life[a] < MaxLives
        /\ life' = [life EXCEPT ![a] = @ + 1]
        /\ place' = [place EXCEPT ![a] = Running]
        /\ slotLoop' = [slotLoop EXCEPT ![a] = None]
        /\ slotCntr' = [slotCntr EXCEPT ![a] = 0]
        /\ torn' = torn \ {a}
        /\ UNCHANGED <<dict, maker, loops, refs, held, answer>>
    BY DEF Restart
  <1>2. dict[a] = None
    BY <1>1, CountdownByPlace DEF AsksInTime
  <1>3. held[a] = None
    BY <1>1, <1>2 DEF RegistryInv, OthersHaveNone, Ended
  <1>4. answer[a] = None
    BY <1>1 DEF RegistryInv, AnswersAreCurrent
  <1>5. \A b \in Addresses :
          /\ place'[b] = IF b = a THEN Running ELSE place[b]
          /\ slotLoop'[b] = IF b = a THEN None ELSE slotLoop[b]
          /\ slotCntr'[b] = IF b = a THEN 0 ELSE slotCntr[b]
          /\ life'[b] = IF b = a THEN life[a] + 1 ELSE life[b]
    BY <1>1 DEF RegistryInv, TypeOK
  <1>6. TypeOK'
    <2>1. /\ life' \in [Addresses -> 1..MaxLives]
          /\ slotCntr' \in [Addresses -> 0..Iterations]
          /\ slotLoop' \in [Addresses -> loops' \cup {None}]
          /\ place' \in [Addresses ->
               ((1..Iterations) \X {"below", "above"}) \cup {Running, Ended}]
      <3>1. life[a] + 1 \in 1..MaxLives /\ 0 \in 0..Iterations
        BY <1>1 DEF RegistryInv, TypeOK, AsksInTime, RegistryAssumption
      <3> QED
        BY <3>1, <1>1 DEF RegistryInv, TypeOK
    <2> QED
      BY <2>1, <1>1 DEF RegistryInv, TypeOK, Freed
  <1>7. LoopsAreCountedDown'
    BY <1>1, <1>2, <1>5 DEF RegistryInv, LoopsAreCountedDown
  <1>8. OthersHaveNone'
    BY <1>1, <1>3, <1>5 DEF RegistryInv, OthersHaveNone
  <1>9. LoopsHaveAnOwner'
    BY <1>1 DEF RegistryInv, LoopsHaveAnOwner
  <1>10. AnswersAreCurrent'
    BY <1>1, <1>4, <1>5 DEF RegistryInv, AnswersAreCurrent
  <1> QED
    BY <1>1, <1>6, <1>7, <1>8, <1>9, <1>10 DEF RegistryInv

LEMMA NextRegistry ==
  ASSUME AsksInTime
  PROVE  RegistryInv /\ [Next]_vars => RegistryInv'
  <1> SUFFICES ASSUME RegistryInv, [Next]_vars PROVE RegistryInv'
    OBVIOUS
  <1>1. CASE UNCHANGED vars
    BY <1>1 DEF vars, data, RegistryInv, TypeOK, Freed, LoopsAreCountedDown,
       OthersHaveNone, LoopsHaveAnOwner, AnswersAreCurrent
  <1>2. ASSUME NEW a \in Addresses, CounterSlot(a) PROVE RegistryInv'
    BY <1>2, CounterOfNone, CounterGoesDown, CounterRunsOut
  <1>3. ASSUME NEW a \in Addresses, GetCurrent(a) PROVE RegistryInv'
    BY <1>3, AnswerKnown, AnswerMade
  <1> QED
    BY <1>1, <1>2, <1>3, AskedByOther, CurrentIsSetNone, ThreadExits, FinalizerReleases,
       PassIsOver, AddressIsUsedAgain DEF Next

----------------------------------------------------------------------------
\* Every reachable state is typed, and no loop in the dictionary is freed.
THEOREM RegistryTypeCorrect == ASSUME AsksInTime PROVE Spec => []TypeOK
  <1>1. RegistryInv => TypeOK
    BY DEF RegistryInv
  <1> QED
    BY <1>1, InitRegistry, NextRegistry, PTL DEF Spec, AsksInTime

\* A thread is given the loop that was made for it, and never one that is
\* freed (CFRunLoop.c:1513, 1562).
THEOREM ThreadsHaveTheirOwn == ASSUME AsksInTime PROVE Spec => []CurrentIsOwn
  <1>1. RegistryInv => CurrentIsOwn
    <2> SUFFICES ASSUME RegistryInv, NEW a \in Addresses, answer[a] # None, Runs(a)
                 PROVE  answer[a] \notin Freed /\ maker[answer[a]] = <<a, life[a]>>
      BY DEF CurrentIsOwn
    <2>1. answer[a] = dict[a] /\ dict[a] # None
      BY DEF RegistryInv, AnswersAreCurrent, Runs
    <2> QED
      BY <2>1 DEF RegistryInv, TypeOK, LoopsAreCountedDown
  <1>2. Init => RegistryInv
    BY InitRegistry DEF AsksInTime
  <1> QED
    BY <1>1, <1>2, NextRegistry, PTL DEF Spec

\* A thread that has ended has left no loop: the finalizer is "Called for each
\* thread as it exits", whatever the number of passes (CFRunLoop.c:1562).
THEOREM NoLoopIsLeft == ASSUME AsksInTime PROVE Spec => []EndedThreadsHaveNoLoop
  <1>1. RegistryInv => EndedThreadsHaveNoLoop
    <2> SUFFICES ASSUME RegistryInv, NEW a \in Addresses, place[a] = Ended
                 PROVE  /\ dict[a] = None
                        /\ \A l \in loops : maker[l] # None /\ maker[l][1] = a => l \in Freed
      BY DEF EndedThreadsHaveNoLoop
    <2>1. dict[a] = None
      BY CountdownByPlace DEF AsksInTime
    <2>2. held[a] = None
      BY <2>1 DEF RegistryInv, OthersHaveNone, Ended
    <2>3. None \notin loops
      BY DEF RegistryInv, AsksInTime, RegistryAssumption, Made
    <2> QED
      BY <2>1, <2>2, <2>3 DEF RegistryInv, LoopsHaveAnOwner, Freed
  <1>2. Init => RegistryInv
    BY InitRegistry DEF AsksInTime
  <1> QED
    BY <1>1, <1>2, NextRegistry, PTL DEF Spec

\* All of it: each thread has its own loop as long as it runs.
THEOREM RegistryCorrect == ASSUME AsksInTime PROVE Spec => []ThreadsHaveTheirLoop
  <1>1. TypeOK /\ CurrentIsOwn /\ EndedThreadsHaveNoLoop => ThreadsHaveTheirLoop
    BY DEF ThreadsHaveTheirLoop
  <1> QED
    BY <1>1, RegistryTypeCorrect, ThreadsHaveTheirOwn, NoLoopIsLeft, PTL
=============================================================================
