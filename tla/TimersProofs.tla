---------------------------- MODULE TimersProofs ----------------------------
(***************************************************************************)
(* Proofs about Timers, for any number of timers and modules and any range *)
(* of the clock: the list stays in order behind its head, the pointers of  *)
(* CheckTimers stay in the list, and a pass overlooks no timer but those   *)
(* hidden behind a head that is not due.                                   *)
(***************************************************************************)
EXTENDS Timers, Lemmas, FiniteSetTheorems

-----------------------------------------------------------------------------
(* Invariants *)

\* No node is in the list twice.
OnceEach == \A i, j \in DOMAIN timers : timers[i] = timers[j] => i = j

InOrder == \A i, j \in 2 .. Len(timers) :
    i < j => deadline[timers[i]] <= deadline[timers[j]]

\* A timer the pass began with has been called if it is gone, and a node that
\* is being worked on has been called.
CalledOrListed ==
    /\ \A t \in checked : t \in Listed \/ fired[t] # 0
    /\ ~Idle => fired[running] # 0

\* Of the timers the pass began with, the loop has dealt with those before the
\* node it goes on with.
LoopAt(i) ==
    /\ timers[i] = running
    /\ \/ /\ next = NoTimer
          /\ \A k \in DOMAIN timers : timers[k] \in checked => k = i
       \/ \E j \in DOMAIN timers :
             /\ i < j /\ timers[j] = next
             /\ \A k \in DOMAIN timers : timers[k] \in checked => k = i \/ k >= j
LoopOK == ~Idle => \E i \in DOMAIN timers : LoopAt(i)

\* The inductive invariant.
IInv ==
    /\ TypeOK
    /\ OnceEach
    /\ InOrder
    /\ CalledOrListed
    /\ LoopOK
    /\ DueWaitsForHead

-----------------------------------------------------------------------------
(* The operations of the model *)

\* What is listed is what stands at some place.
LEMMA ListFacts ==
    ASSUME timers \in Seq(Timer)
    PROVE  /\ Len(timers) \in Nat /\ DOMAIN timers = 1 .. Len(timers)
           /\ \A i \in DOMAIN timers : timers[i] \in Timer /\ timers[i] \in Listed
           /\ \A t \in Listed : \E i \in DOMAIN timers : timers[i] = t
           /\ timers # << >> => 1 \in DOMAIN timers /\ Head(timers) = timers[1]
<1>1. Listed = {timers[i] : i \in DOMAIN timers}
  BY DEF Listed, ToSet
<1> QED
  BY <1>1

\* A node in the list has one place.
LEMMA PlaceOfListed ==
    ASSUME timers \in Seq(Timer), OnceEach, NEW i \in DOMAIN timers
    PROVE  PlaceOf(timers[i]) = i
BY DEF PlaceOf, OnceEach

\* The place addtimer finds exists: behind the timers that are due before the
\* new one, the head apart.
LEMMA InsertAfterShape ==
    ASSUME TypeOK, timers # << >>, NEW d \in Nat
    PROVE  /\ InsertAfter(d) \in 1 .. Len(timers)
           /\ \A j \in 2 .. InsertAfter(d) : deadline[timers[j]] <= d
           /\ InsertAfter(d) < Len(timers) => deadline[timers[InsertAfter(d) + 1]] > d
<1> DEFINE n == Len(timers)
           T == {i \in 1 .. n : i < n => deadline[timers[i + 1]] > d}
<1>1. n \in Nat /\ n >= 1 /\ DOMAIN timers = 1 .. n
      /\ \A i \in 1 .. n : timers[i] \in Timer /\ deadline[timers[i]] \in Nat
  BY TimersAssumption, EmptySeq, LenProperties DEF TypeOK
<1> HIDE DEF n
<1>2. n \in T /\ T \subseteq Nat
  BY <1>1
<1>3. PICK i \in T : \A k \in T : i <= k
  BY <1>2, LeastNumber
<1>4. ASSUME NEW j \in 2 .. i
      PROVE  deadline[timers[j]] <= d
  <2>1. j - 1 \in 1 .. n /\ j - 1 < i /\ (j - 1) + 1 = j /\ j \in 1 .. n
    BY <1>1, <1>4
  <2>2. j - 1 \notin T
    <3>1. ~(i <= j - 1)
      BY <1>1, <1>3, <2>1
    <3> QED
      BY <1>3, <3>1
  <2> QED
    BY <1>1, <2>1, <2>2
<1>5. \E k \in DOMAIN timers : /\ \A j \in 2 .. k : deadline[timers[j]] <= d
                               /\ k < Len(timers) => deadline[timers[k + 1]] > d
  BY <1>1, <1>3, <1>4 DEF n
<1> QED
  BY <1>1, <1>5 DEF InsertAfter, n

\* What addtimer makes of the list: the new timer behind the head, behind all
\* that are due no later and before all that are due later.
LEMMA AddShape ==
    ASSUME TypeOK, NEW t \in Timer, NEW m \in Module, NEW d \in 0 .. MaxTime, addtimer(t, m, d)
    PROVE  \E p \in 1 .. Len(timers) + 1 :
              /\ timers' \in Seq(Timer)
              /\ Len(timers') = Len(timers) + 1
              /\ DOMAIN timers' = 1 .. Len(timers) + 1
              /\ \A j \in 1 .. Len(timers) + 1 :
                    timers'[j] = IF j < p THEN timers[j]
                                 ELSE IF j = p THEN t ELSE timers[j - 1]
              /\ timers # << >> => p >= 2
              /\ \A j \in 2 .. p - 1 : deadline[timers[j]] <= d
              /\ p <= Len(timers) => p >= 2 /\ deadline[timers[p]] > d
<1> DEFINE n == Len(timers)
           q == InsertAfter(d)
           p == q + 1
<1>1. n \in Nat /\ timers \in Seq(Timer) /\ d \in Nat
  BY TimersAssumption DEF TypeOK
<1>2. timers' = InsertAt(timers, p, t)
  BY DEF addtimer
<1>a. ASSUME NEW k \in 1 .. n + 1, timers' = InsertAt(timers, k, t)
      PROVE  /\ timers' \in Seq(Timer)
             /\ Len(timers') = n + 1
             /\ DOMAIN timers' = 1 .. n + 1
             /\ \A j \in 1 .. n + 1 :
                   timers'[j] = IF j < k THEN timers[j]
                                ELSE IF j = k THEN t ELSE timers[j - 1]
  <2> DEFINE r == InsertAt(timers, k, t)
  <2>1. /\ r \in Seq(Timer) /\ Len(r) = n + 1 /\ DOMAIN r = 1 .. n + 1
        /\ \A j \in 1 .. n + 1 : r[j] = IF j < k THEN timers[j]
                                       ELSE IF j = k THEN t ELSE timers[j - 1]
    BY <1>1, InsertAtShape
  <2> HIDE DEF r, n
  <2> QED
    BY <1>a, <2>1 DEF r
<1> HIDE DEF n
<1>3. CASE timers = << >>
  <2>1. p = 1 /\ n = 0
    BY <1>3 DEF InsertAfter, n
  <2> HIDE DEF p
  <2>2. p \in 1 .. n + 1 /\ ~(p <= n) /\ \A j \in 2 .. p - 1 : FALSE
    BY <2>1
  <2> QED
    BY <1>2, <1>3, <1>a, <2>2 DEF n
<1>4. CASE timers # << >>
  <2>1. /\ q \in 1 .. n
        /\ \A j \in 2 .. q : deadline[timers[j]] <= d
        /\ q < n => deadline[timers[q + 1]] > d
    BY <1>1, <1>4, InsertAfterShape DEF n
  <2> HIDE DEF q
  <2>2. /\ p \in 1 .. n + 1 /\ p >= 2 /\ p - 1 = q
        /\ p <= n => q < n
    BY <1>1, <2>1
  <2>3. /\ \A j \in 2 .. p - 1 : deadline[timers[j]] <= d
        /\ p <= n => deadline[timers[p]] > d
    BY <2>1, <2>2
  <2> HIDE DEF p
  <2> QED
    BY <1>2, <1>a, <2>2, <2>3 DEF n
<1> QED
  BY <1>3, <1>4

-----------------------------------------------------------------------------
(* Type correctness *)

\* No timers at first.
LEMMA InitTypeOK == Init => TypeOK
BY TimersAssumption, EmptySeq DEF Init, TypeOK

\* The node behind another, or null at the end.
LEMMA AfterType ==
    ASSUME timers \in Seq(Timer), NEW i \in DOMAIN timers, OnceEach
    PROVE  After(timers[i]) = IF i < Len(timers) THEN timers[i + 1] ELSE NoTimer
BY PlaceOfListed DEF After

\* The list without the node whose function has returned.
LEMMA UnlinkShape ==
    ASSUME timers \in Seq(Timer), OnceEach, NEW i \in DOMAIN timers
    PROVE  LET r == RemoveAt(timers, PlaceOf(timers[i])) IN
           /\ r \in Seq(Timer)
           /\ Len(r) = Len(timers) - 1
           /\ DOMAIN r = 1 .. Len(timers) - 1
           /\ \A j \in 1 .. Len(timers) - 1 :
                 r[j] = IF j < i THEN timers[j] ELSE timers[j + 1]
BY PlaceOfListed, RemoveAtShape

\* Every step keeps the types.
LEMMA NextTypeOK == IInv /\ [Next]_vars => TypeOK'
<1> SUFFICES ASSUME IInv, [Next]_vars
             PROVE  TypeOK'
  OBVIOUS
<1>0. TypeOK /\ OnceEach /\ timers \in Seq(Timer) /\ MaxTime \in Nat
  BY TimersAssumption DEF IInv, TypeOK
<1>1. CASE UNCHANGED vars
  BY <1>0, <1>1 DEF vars, TypeOK
<1>2. ASSUME NEW t \in Timer, NEW m \in Module, NEW delay \in 0 .. MaxTime,
             NEW now \in 0 .. MaxTime, schedulein(t, m, delay, now)
      PROVE  TypeOK'
  <2>1. now + delay \in 0 .. MaxTime /\ addtimer(t, m, now + delay)
    BY <1>0, <1>2 DEF schedulein
  <2>2. timers' \in Seq(Timer)
    BY <1>0, <2>1, AddShape
  <2>3. deadline' \in [Timer -> 0 .. MaxTime] /\ module' \in [Timer -> Module]
    BY <1>0, <2>1 DEF addtimer, TypeOK
  <2>4. currtime' \in 0 .. MaxTime /\ passtime' \in 0 .. currtime'
    BY <1>0, <1>2 DEF schedulein, TypeOK
  <2> QED
    BY <1>0, <1>2, <2>2, <2>3, <2>4 DEF schedulein, TypeOK
<1>3. ASSUME NEW now \in 0 .. MaxTime, ReadClock(now)
      PROVE  TypeOK'
  BY <1>0, <1>3 DEF ReadClock, TypeOK
<1>4. ASSUME NEW m \in Module, NEW d \in 0 .. MaxTime, deltimer(m, d)
      PROVE  TypeOK'
  BY <1>0, <1>4, RemoveAtShape, SMTT(30) DEF deltimer, TypeOK
<1>5. ASSUME NEW m \in Module, deltimermodule(m)
      PROVE  TypeOK'
  <2>1. PICK place \in [1 .. Cardinality(Kept(m)) -> Kept(m)] :
          timers' = [k \in DOMAIN place |-> timers[place[k]]]
    BY <1>5 DEF deltimermodule
  <2>2. \A k \in DOMAIN place : timers[place[k]] \in Timer
    BY <1>0 DEF Kept
  <2>3. Kept(m) \subseteq DOMAIN timers /\ IsFiniteSet(DOMAIN timers)
    BY <1>0, FS_Interval DEF Kept
  <2>4. Cardinality(Kept(m)) \in Nat
    BY <2>3, FS_Subset, FS_CardinalityType
  <2>5. timers' \in Seq(Timer)
    BY <2>1, <2>2, <2>4
  <2> QED
    BY <1>0, <1>5, <2>5 DEF deltimermodule, TypeOK
<1>6. ASSUME NEW now \in 0 .. MaxTime, CheckTimers(now)
      PROVE  TypeOK'
  <2>1. currtime' \in 0 .. MaxTime /\ passtime' \in 0 .. currtime' /\ checked' \subseteq Timer
    <3>1. Listed \subseteq Timer
      BY <1>0, ListFacts
    <3> QED
      BY <1>6, <3>1 DEF CheckTimers
  <2>2. CASE UNCHANGED <<running, next, fired>>
    BY <1>0, <1>6, <2>1, <2>2 DEF CheckTimers, TypeOK
  <2>3. CASE timers # << >> /\ Call(Head(timers))
    <3>1. 1 \in DOMAIN timers /\ Head(timers) = timers[1] /\ timers[1] \in Timer
          /\ Len(timers) \in Nat /\ DOMAIN timers = 1 .. Len(timers)
      BY <1>0, <2>3, ListFacts
    <3>2. After(timers[1]) \in Timer \cup {NoTimer}
      BY <1>0, <3>1, AfterType
    <3> QED
      BY <1>0, <1>6, <2>1, <2>3, <3>1, <3>2, SMTT(30) DEF CheckTimers, Call, TypeOK
  <2> QED
    BY <1>6, <2>2, <2>3 DEF CheckTimers
<1>7. CASE Return
  <2>1. PICK i \in DOMAIN timers : LoopAt(i)
    BY <1>7 DEF Return, IInv, LoopOK
  <2>2. timers' \in Seq(Timer)
    BY <1>0, <1>7, <2>1, UnlinkShape DEF Return, LoopAt
  <2>3. ASSUME next # NoTimer, Call(next)
        PROVE  TypeOK'
    <3>1. PICK j \in DOMAIN timers : timers[j] = next
      BY <2>1, <2>3 DEF LoopAt
    <3>2. After(next) \in Timer \cup {NoTimer}
      BY <1>0, <3>1, AfterType, ListFacts
    <3>3. running' \in Timer \cup {NoTimer} /\ next' \in Timer \cup {NoTimer}
          /\ fired' \in [Timer -> Nat]
      <4>1. next \in Timer /\ fired \in [Timer -> Nat] /\ fired[next] + 1 \in Nat
        BY <1>0, <2>3 DEF TypeOK
      <4> QED
        BY <2>3, <3>2, <4>1 DEF Call
    <3> QED
      BY <1>0, <1>7, <2>2, <3>3 DEF Return, TypeOK
  <2> QED
    BY <1>0, <1>7, <2>2, <2>3 DEF Return, TypeOK
<1> QED
  BY <1>1, <1>2, <1>3, <1>4, <1>5, <1>6, <1>7 DEF Next

-----------------------------------------------------------------------------
(* A timer is added *)

\* addtimer keeps the list free of doubles and, behind its head, in order.
LEMMA AddKeepsList ==
    ASSUME IInv, NEW t \in Timer, NEW m \in Module, NEW d \in 0 .. MaxTime,
           addtimer(t, m, d)
    PROVE  OnceEach' /\ InOrder'
<1>0. /\ TypeOK /\ timers \in Seq(Timer) /\ Len(timers) \in Nat
      /\ DOMAIN timers = 1 .. Len(timers)
      /\ \A k \in 1 .. Len(timers) : timers[k] \in Timer /\ timers[k] # t
  BY ListFacts DEF IInv, TypeOK, addtimer
<1>1. PICK p \in 1 .. Len(timers) + 1 :
              /\ timers' \in Seq(Timer)
              /\ Len(timers') = Len(timers) + 1
              /\ DOMAIN timers' = 1 .. Len(timers) + 1
              /\ \A j \in 1 .. Len(timers) + 1 :
                    timers'[j] = IF j < p THEN timers[j]
                                 ELSE IF j = p THEN t ELSE timers[j - 1]
              /\ timers # << >> => p >= 2
              /\ \A j \in 2 .. p - 1 : deadline[timers[j]] <= d
              /\ p <= Len(timers) => p >= 2 /\ deadline[timers[p]] > d
  BY <1>0, AddShape
<1> DEFINE n == Len(timers)
           old(k) == IF k < p THEN k ELSE k - 1
<1>2. \A k \in 1 .. n + 1 : k # p => old(k) \in 1 .. n /\ timers'[k] = timers[old(k)]
  BY <1>0, <1>1
<1>3. timers'[p] = t
  BY <1>1
<1>4. \A j, k \in 1 .. n + 1 : j # p /\ k # p /\ j < k => old(j) < old(k)
  BY <1>0, <1>1
<1>5. n \in Nat /\ p \in 1 .. n + 1 /\ DOMAIN timers' = 1 .. n + 1 /\ Len(timers') = n + 1
  BY <1>0, <1>1
<1> HIDE DEF n, old
<1>6. OnceEach'
  <2> SUFFICES ASSUME NEW j \in 1 .. n + 1, NEW k \in 1 .. n + 1, j < k
               PROVE  timers'[j] # timers'[k]
    BY <1>5 DEF OnceEach
  <2>1. CASE j = p \/ k = p
    BY <1>0, <1>2, <1>3, <1>5, <2>1 DEF n
  <2>2. CASE j # p /\ k # p
    <3>1. old(j) # old(k) /\ old(j) \in DOMAIN timers /\ old(k) \in DOMAIN timers
      BY <1>0, <1>2, <1>4, <1>5, <2>2 DEF n
    <3> QED
      BY <1>2, <2>2, <3>1 DEF IInv, OnceEach
  <2> QED
    BY <2>1, <2>2
<1>7. InOrder'
  <2> SUFFICES ASSUME NEW j \in 2 .. n + 1, NEW k \in 2 .. n + 1, j < k
               PROVE  deadline'[timers'[j]] <= deadline'[timers'[k]]
    BY <1>5 DEF InOrder
  <2>1. /\ deadline'[t] = d /\ \A u \in Timer \ {t} : deadline'[u] = deadline[u]
        /\ d \in Int
    BY <1>0 DEF addtimer, TypeOK
  <2>2. j \in 1 .. n + 1 /\ k \in 1 .. n + 1 /\ n >= 1
    BY <1>5
  <2>3. p >= 2
    BY <1>1, <2>2, EmptySeq, <1>0 DEF n
  <2>4. /\ j # p => old(j) \in 2 .. n
        /\ k # p => old(k) \in 2 .. n
    BY <1>2, <1>5, <2>2, <2>3 DEF old
  <2>5. ASSUME NEW i \in 2 .. n
        PROVE  timers[i] \in Timer \ {t} /\ deadline'[timers[i]] = deadline[timers[i]]
    BY <1>0, <1>5, <2>1 DEF n
  <2>a. \A x \in 2 .. n : timers[x] \in Timer /\ deadline[timers[x]] \in Int
    BY <1>0, <1>5 DEF n, TypeOK
  <2>6. \A x, y \in 2 .. n : x <= y => deadline[timers[x]] <= deadline[timers[y]]
    BY <2>a, <1>5 DEF IInv, InOrder, n
  <2>7. CASE j = p
    <3>1. k - 1 \in 2 .. n /\ p \in 2 .. n /\ p <= k - 1 /\ old(k) = k - 1 /\ k # p
      BY <1>5, <2>3, <2>7 DEF old
    <3>2. deadline[timers[p]] > d /\ deadline[timers[p]] <= deadline[timers[k - 1]]
      BY <1>1, <2>6, <3>1 DEF n
    <3>3. deadline[timers[p]] \in Int /\ deadline[timers[k - 1]] \in Int
      BY <2>a, <3>1
    <3> QED
      BY <1>2, <1>3, <2>1, <2>2, <2>5, <2>7, <3>1, <3>2, <3>3
  <2>8. CASE k = p
    <3>1. j \in 2 .. p - 1 /\ old(j) = j /\ j # p
      BY <1>5, <2>8 DEF old
    <3>2. deadline[timers[j]] <= d /\ timers'[j] = timers[j] /\ j \in 2 .. n
      BY <1>1, <1>2, <2>2, <2>4, <3>1
    <3> QED
      BY <1>3, <2>1, <2>5, <2>8, <3>2
  <2>9. CASE j # p /\ k # p
    <3>1. old(j) <= old(k)
      BY <1>4, <1>5, <2>2, <2>4, <2>9
    <3> QED
      BY <1>2, <2>2, <2>4, <2>5, <2>6, <2>9, <3>1
  <2> QED
    BY <2>7, <2>8, <2>9
<1> QED
  BY <1>6, <1>7

\* schedulein from the bot's handlers or from the function CheckTimers calls.
LEMMA ScheduleKeeps ==
    ASSUME IInv, NEW t \in Timer, NEW m \in Module, NEW delay \in 0 .. MaxTime,
           NEW now \in 0 .. MaxTime, schedulein(t, m, delay, now)
    PROVE  IInv'
<1>0. /\ TypeOK /\ timers \in Seq(Timer) /\ Len(timers) \in Nat
      /\ DOMAIN timers = 1 .. Len(timers)
      /\ \A k \in 1 .. Len(timers) : timers[k] \in Timer /\ timers[k] # t
  BY ListFacts DEF IInv, TypeOK, schedulein, addtimer
<1> DEFINE d == now + delay
<1>1. d \in 0 .. MaxTime /\ addtimer(t, m, d)
      /\ UNCHANGED <<passtime, running, next, checked, fired>>
  BY TimersAssumption DEF schedulein
<1> HIDE DEF d
<1>2. TypeOK'
  BY NextTypeOK DEF Next
<1>3. OnceEach' /\ InOrder'
  BY <1>1, AddKeepsList
<1>4. PICK p \in 1 .. Len(timers) + 1 :
              /\ timers' \in Seq(Timer)
              /\ Len(timers') = Len(timers) + 1
              /\ DOMAIN timers' = 1 .. Len(timers) + 1
              /\ \A j \in 1 .. Len(timers) + 1 :
                    timers'[j] = IF j < p THEN timers[j]
                                 ELSE IF j = p THEN t ELSE timers[j - 1]
              /\ timers # << >> => p >= 2
  BY <1>0, <1>1, AddShape
<1> DEFINE n == Len(timers)
           new(k) == IF k < p THEN k ELSE k + 1
<1>5. \A k \in 1 .. n : new(k) \in 1 .. n + 1 /\ timers'[new(k)] = timers[k]
  BY <1>0, <1>4
<1>6. \A k \in 1 .. n + 1 : \/ k = p /\ timers'[k] = t
                            \/ \E i \in 1 .. n : k = new(i) /\ timers'[k] = timers[i]
  <2> SUFFICES ASSUME NEW k \in 1 .. n + 1, k # p
               PROVE  \E i \in 1 .. n : k = new(i) /\ timers'[k] = timers[i]
    BY <1>4
  <2>1. CASE k < p
    BY <1>0, <1>4, <2>1
  <2>2. CASE k > p
    <3>1. k - 1 \in 1 .. n /\ k = new(k - 1) /\ timers'[k] = timers[k - 1]
      BY <1>0, <1>4, <2>2
    <3> QED
      BY <3>1
  <2> QED
    BY <1>4, <2>1, <2>2
<1>7. \A i, k \in 1 .. n : i < k => new(i) < new(k)
  BY <1>0, <1>4
<1>8. n \in Nat /\ DOMAIN timers' = 1 .. n + 1 /\ DOMAIN timers = 1 .. n
  BY <1>0, <1>4
<1> HIDE DEF n, new
<1>9. Listed' = Listed \cup {t}
  <2>1. Listed' = {timers'[i] : i \in 1 .. n + 1} /\ Listed = {timers[i] : i \in 1 .. n}
    BY <1>8 DEF Listed, ToSet
  <2>2. p \in 1 .. n + 1 /\ timers'[p] = t
    BY <1>4 DEF n
  <2> QED
    BY <1>5, <1>6, <2>1, <2>2
<1>10. t \notin checked /\ t \notin Listed
  BY <1>1 DEF IInv, CalledOrListed, addtimer
<1>11. CalledOrListed'
  BY <1>1, <1>9 DEF IInv, CalledOrListed, Idle
<1>12. LoopOK'
  <2> SUFFICES ASSUME ~Idle
               PROVE  \E i \in DOMAIN timers' : LoopAt(i)'
    BY <1>1 DEF LoopOK, Idle
  <2>1. PICK i \in 1 .. n : LoopAt(i)
    BY <1>8 DEF IInv, LoopOK
  <2>2. ASSUME NEW k \in 1 .. n + 1, timers'[k] \in checked
        PROVE  \E l \in 1 .. n : k = new(l) /\ timers[l] \in checked
    BY <1>6, <1>10, <2>2
  <2>3. CASE next = NoTimer
    <3>1. \A l \in 1 .. n : timers[l] \in checked => l = i
      BY <1>8, <2>1, <2>3, TimersAssumption, <1>0 DEF LoopAt, n
    <3> QED
      BY <1>1, <1>5, <1>8, <2>1, <2>2, <2>3, <3>1 DEF LoopAt
  <2>4. CASE next # NoTimer
    <3>1. PICK j \in 1 .. n :
             /\ i < j /\ timers[j] = next
             /\ \A l \in 1 .. n : timers[l] \in checked => l = i \/ l >= j
      BY <1>8, <2>1, <2>4 DEF LoopAt
    <3>2. new(i) < new(j) /\ timers'[new(j)] = next /\ new(j) \in 1 .. n + 1
      BY <1>5, <1>7, <3>1
    <3>3. \A l \in 1 .. n : l >= j => new(l) >= new(j)
      BY <1>4, <1>8 DEF new, n
    <3>4. \A k \in 1 .. n + 1 : timers'[k] \in checked => k = new(i) \/ k >= new(j)
      BY <2>2, <3>1, <3>3
    <3> QED
      BY <1>1, <1>5, <1>8, <2>1, <3>2, <3>4 DEF LoopAt
  <2> QED
    BY <2>3, <2>4
<1>13. DueWaitsForHead'
  <2> SUFFICES ASSUME Idle, NEW u \in checked, u \in Listed', deadline'[u] <= passtime
               PROVE  deadline'[Head(timers')] > passtime
    BY <1>1 DEF DueWaitsForHead, Idle
  <2>1. u \in Listed /\ u # t
    BY <1>9, <1>10
  <2>2. PICK i \in 1 .. n : timers[i] = u
    BY <2>1, <1>0, ListFacts DEF n
  <2>3. timers # << >> /\ p >= 2 /\ n >= 1
    BY <1>4, <1>8, <2>2, EmptySeq DEF n
  <2>4. Head(timers') = timers[1] /\ Head(timers) = timers[1] /\ 1 \in 1 .. n
    BY <1>0, <1>4, <1>8, <2>3 DEF n
  <2>5. timers[1] \in Timer \ {t} /\ u \in Timer \ {t}
    BY <1>0, <2>2, <2>4 DEF n
  <2>6. deadline'[timers[1]] = deadline[timers[1]] /\ deadline'[u] = deadline[u]
    BY <1>0, <1>1, <2>5 DEF addtimer, TypeOK
  <2> QED
    BY <2>1, <2>4, <2>6 DEF IInv, DueWaitsForHead
<1> QED
  BY <1>2, <1>3, <1>11, <1>12, <1>13 DEF IInv

-----------------------------------------------------------------------------
(* A timer goes *)

\* The nodes that stay keep their order, whichever goes.
LEMMA RemoveKeepsList ==
    ASSUME IInv, NEW i \in DOMAIN timers, timers' = RemoveAt(timers, i), UNCHANGED deadline
    PROVE  OnceEach' /\ InOrder'
<1> DEFINE n == Len(timers)
           old(k) == IF k < i THEN k ELSE k + 1
<1>1. /\ n \in Nat /\ i \in 1 .. n /\ DOMAIN timers = 1 .. n
      /\ Len(timers') = n - 1 /\ DOMAIN timers' = 1 .. n - 1
      /\ \A k \in 1 .. n - 1 : timers'[k] = timers[old(k)]
  <2> DEFINE r == RemoveAt(timers, i)
  <2>1. timers \in Seq(Timer) /\ i \in DOMAIN timers
    BY DEF IInv, TypeOK
  <2>2. /\ Len(r) = n - 1 /\ DOMAIN r = 1 .. n - 1
        /\ \A k \in 1 .. n - 1 : r[k] = timers[old(k)]
    BY <2>1, RemoveAtShape
  <2> HIDE DEF r
  <2> QED
    BY <2>1, <2>2 DEF r
<1>2. \A k \in 1 .. n - 1 : old(k) \in 1 .. n /\ (k >= 2 => old(k) >= 2)
  BY <1>1
<1>3. \A j, k \in 1 .. n - 1 : j < k => old(j) < old(k)
  BY <1>1
<1>4. \A j, k \in 1 .. n - 1 : old(j) = old(k) => j = k
  BY <1>1
<1> HIDE DEF n, old
<1>5. OnceEach'
  BY <1>1, <1>2, <1>4 DEF IInv, OnceEach
<1>6. \A k \in 2 .. n - 1 : k \in 1 .. n - 1 /\ old(k) \in 2 .. n
  BY <1>1, <1>2
<1>7. InOrder'
  BY <1>1, <1>3, <1>6 DEF IInv, InOrder, n
<1> QED
  BY <1>5, <1>7

\* deltimer, which runs between two passes, keeps the invariant.
LEMMA DeltimerKeeps ==
    ASSUME IInv, NEW m \in Module, NEW d \in 0 .. MaxTime, deltimer(m, d)
    PROVE  IInv'
<1>1. TypeOK'
  BY NextTypeOK DEF Next
<1>2. OnceEach' /\ InOrder'
  BY RemoveKeepsList DEF deltimer
<1>3. CalledOrListed' /\ LoopOK' /\ DueWaitsForHead'
  BY DEF deltimer, CalledOrListed, LoopOK, DueWaitsForHead, Idle
<1> QED
  BY <1>1, <1>2, <1>3 DEF IInv

\* deltimermodule drops any number of nodes and keeps the order of the rest.
LEMMA DeltimermoduleKeeps ==
    ASSUME IInv, NEW m \in Module, deltimermodule(m)
    PROVE  IInv'
<1>1. TypeOK'
  BY NextTypeOK DEF Next
<1> DEFINE n == Len(timers)
           l == Cardinality(Kept(m))
<1>2. n \in Nat /\ DOMAIN timers = 1 .. n
  BY DEF IInv, TypeOK
<1>3. l \in Nat
  <2>1. Kept(m) \subseteq 1 .. n
    BY <1>2 DEF Kept
  <2>2. IsFiniteSet(1 .. n)
    BY <1>2, FS_Interval
  <2> QED
    BY <2>1, <2>2, FS_Subset, FS_CardinalityType
<1>4. PICK place \in [1 .. l -> Kept(m)] :
          /\ \A j, k \in DOMAIN place : j < k => place[j] < place[k]
          /\ timers' = [k \in DOMAIN place |-> timers[place[k]]]
  BY DEF deltimermodule
<1> HIDE DEF n, l
<1>5. \A k \in 1 .. l : place[k] \in 1 .. n /\ timers'[k] = timers[place[k]]
  BY <1>2, <1>4 DEF Kept
<1>6. \A j, k \in 1 .. l : j < k => place[j] < place[k]
  BY <1>4
<1>7. DOMAIN timers' = 1 .. l /\ Len(timers') = l
  <2>1. DOMAIN timers' = 1 .. l
    BY <1>4
  <2> QED
    BY <1>1, <1>3, <2>1 DEF TypeOK
<1>8. OnceEach'
  <2> SUFFICES ASSUME NEW j \in 1 .. l, NEW k \in 1 .. l, j < k
               PROVE  timers[place[j]] # timers[place[k]]
    BY <1>3, <1>5, <1>7 DEF OnceEach
  <2>1. place[j] # place[k]
    BY <1>2, <1>5, <1>6
  <2> QED
    BY <1>2, <1>5, <2>1 DEF IInv, OnceEach
<1>9. InOrder'
  <2> SUFFICES ASSUME NEW j \in 2 .. l, NEW k \in 2 .. l, j < k
               PROVE  deadline[timers[place[j]]] <= deadline[timers[place[k]]]
    <3>1. deadline' = deadline
      BY DEF deltimermodule
    <3>2. \A k \in 2 .. l : timers'[k] = timers[place[k]]
      BY <1>3, <1>5
    <3> QED
      BY <1>7, <3>1, <3>2 DEF InOrder
  <2>1. 1 \in 1 .. l /\ j \in 1 .. l /\ k \in 1 .. l /\ 1 < j
    BY <1>3
  <2>2. place[1] < place[j] /\ place[j] < place[k]
    BY <1>6, <2>1
  <2>3. place[1] \in 1 .. n /\ place[j] \in 1 .. n /\ place[k] \in 1 .. n
    BY <1>5, <2>1
  <2>4. place[j] \in 2 .. n /\ place[k] \in 2 .. n
    BY <1>2, <2>2, <2>3
  <2> QED
    BY <2>2, <2>4 DEF IInv, InOrder, n
<1>10. CalledOrListed' /\ LoopOK' /\ DueWaitsForHead'
  BY DEF deltimermodule, CalledOrListed, LoopOK, DueWaitsForHead, Idle
<1> QED
  BY <1>1, <1>8, <1>9, <1>10 DEF IInv

-----------------------------------------------------------------------------
(* CheckTimers *)

\* A pass begins: it ends at once at a head that is not due, or calls the head.
LEMMA CheckKeeps ==
    ASSUME IInv, NEW now \in 0 .. MaxTime, CheckTimers(now)
    PROVE  IInv'
<1>0. /\ TypeOK /\ timers \in Seq(Timer) /\ Len(timers) \in Nat
      /\ DOMAIN timers = 1 .. Len(timers)
      /\ OnceEach /\ Idle /\ UNCHANGED <<timers, deadline>> /\ passtime' = now
      /\ checked' = Listed
  BY ListFacts DEF IInv, TypeOK, CheckTimers
<1>1. TypeOK'
  BY NextTypeOK DEF Next
<1>2. OnceEach' /\ InOrder'
  BY <1>0 DEF IInv, OnceEach, InOrder
<1>3. CASE timers # << >> /\ deadline[Head(timers)] <= now
  <2>1. 1 \in DOMAIN timers /\ Head(timers) = timers[1] /\ timers[1] \in Timer
    BY <1>0, <1>3, ListFacts
  <2>2. /\ running' = timers[1] /\ next' = After(timers[1])
        /\ fired' = [fired EXCEPT ![timers[1]] = @ + 1]
    BY <1>3, <2>1 DEF CheckTimers, Call
  <2>3. fired'[timers[1]] # 0
    BY <2>1, <2>2, <1>0 DEF TypeOK
  <2>4. CalledOrListed'
    BY <1>0, <2>2, <2>3 DEF CalledOrListed, Listed
  <2>5. next' = IF 1 < Len(timers) THEN timers[2] ELSE NoTimer
    BY <1>0, <2>1, <2>2, AfterType
  <2>6. LoopAt(1)'
    <3>1. CASE 1 < Len(timers)
      <4>1. 2 \in DOMAIN timers /\ timers[2] = next' /\ 1 < 2
            /\ \A k \in DOMAIN timers : k = 1 \/ k >= 2
        BY <1>0, <2>5, <3>1
      <4> QED
        BY <1>0, <2>2, <4>1 DEF LoopAt
    <3>2. CASE ~(1 < Len(timers))
      <4>1. next' = NoTimer /\ \A k \in DOMAIN timers : k = 1
        BY <1>0, <2>5, <3>2
      <4> QED
        BY <1>0, <2>2, <4>1 DEF LoopAt
    <3> QED
      BY <3>1, <3>2
  <2>7. ~Idle'
    BY <2>1, <2>2, TimersAssumption DEF Idle
  <2> QED
    BY <1>0, <1>1, <1>2, <2>1, <2>4, <2>6, <2>7 DEF IInv, LoopOK, DueWaitsForHead
<1>4. CASE ~(timers # << >> /\ deadline[Head(timers)] <= now)
  <2>1. UNCHANGED <<running, next, fired>>
    BY <1>4 DEF CheckTimers
  <2>2. CalledOrListed' /\ LoopOK'
    BY <1>0, <2>1 DEF CalledOrListed, LoopOK, Idle, Listed
  <2>3. DueWaitsForHead'
    <3> SUFFICES ASSUME NEW u \in Listed
                 PROVE  deadline[Head(timers)] > now
      BY <1>0 DEF DueWaitsForHead, Listed
    <3>1. timers # << >>
      BY <1>0, ListFacts, EmptySeq
    <3>2. Head(timers) \in Timer /\ deadline[Head(timers)] \in Int
      BY <1>0, <3>1, ListFacts DEF TypeOK
    <3> QED
      BY <1>4, <3>1, <3>2
  <2> QED
    BY <1>1, <1>2, <2>2, <2>3 DEF IInv
<1> QED
  BY <1>3, <1>4

\* A function has returned: the loop unlinks its node and goes on.
LEMMA ReturnKeeps ==
    ASSUME IInv, Return
    PROVE  IInv'
<1>0. /\ TypeOK /\ timers \in Seq(Timer) /\ OnceEach /\ ~Idle
      /\ UNCHANGED <<currtime, passtime, deadline, checked>>
  BY DEF IInv, TypeOK, Return
<1>1. TypeOK'
  BY NextTypeOK DEF Next
<1>2. PICK i \in DOMAIN timers : LoopAt(i)
  BY <1>0 DEF IInv, LoopOK
<1>3. timers' = RemoveAt(timers, i) /\ timers[i] = running
  BY <1>0, <1>2, PlaceOfListed DEF Return, LoopAt
<1>4. OnceEach' /\ InOrder'
  BY <1>0, <1>3, RemoveKeepsList
<1> DEFINE n == Len(timers)
           new(k) == IF k < i THEN k ELSE k - 1
<1>5. /\ n \in Nat /\ i \in 1 .. n /\ DOMAIN timers = 1 .. n
      /\ Len(timers') = n - 1 /\ DOMAIN timers' = 1 .. n - 1
      /\ \A k \in 1 .. n - 1 : timers'[k] = IF k < i THEN timers[k] ELSE timers[k + 1]
  <2> DEFINE r == RemoveAt(timers, i)
  <2>1. /\ Len(r) = n - 1 /\ DOMAIN r = 1 .. n - 1
        /\ \A k \in 1 .. n - 1 : r[k] = IF k < i THEN timers[k] ELSE timers[k + 1]
    BY <1>0, RemoveAtShape
  <2> HIDE DEF r
  <2> QED
    BY <1>0, <1>3, <2>1 DEF r
<1>6. \A k \in 1 .. n : k # i => new(k) \in 1 .. n - 1 /\ timers'[new(k)] = timers[k]
  BY <1>5
<1>7. ASSUME NEW k \in 1 .. n - 1
      PROVE  \E l \in 1 .. n : l # i /\ k = new(l) /\ timers'[k] = timers[l]
  <2>1. CASE k < i
    BY <1>5, <2>1
  <2>2. CASE k >= i
    <3>1. k + 1 \in 1 .. n /\ k + 1 # i /\ k = new(k + 1) /\ timers'[k] = timers[k + 1]
      BY <1>5, <2>2
    <3> QED
      BY <3>1
  <2> QED
    BY <1>5, <2>1, <2>2
<1>8. \A j, k \in 1 .. n : j # i /\ k # i /\ j < k => new(j) < new(k)
  BY <1>5
<1> HIDE DEF n, new
<1>9. \A t \in Listed : t = running \/ t \in Listed'
  <2> SUFFICES ASSUME NEW k \in 1 .. n, timers[k] # running
               PROVE  timers[k] \in Listed'
    BY <1>5 DEF Listed, ToSet
  <2>1. k # i /\ new(k) \in 1 .. n - 1 /\ timers'[new(k)] = timers[k]
    BY <1>3, <1>6
  <2> QED
    BY <1>5, <2>1 DEF Listed, ToSet
<1>10. fired[running] # 0 /\ running \in Timer
  BY <1>0, <1>3 DEF IInv, CalledOrListed, TypeOK
<1>11. CASE next # NoTimer /\ Due(next) /\ Call(next)
  <2>1. PICK j \in 1 .. n :
           /\ i < j /\ timers[j] = next
           /\ \A k \in 1 .. n : timers[k] \in checked => k = i \/ k >= j
    BY <1>2, <1>5, <1>11 DEF LoopAt
  <2>2. /\ running' = next /\ next' = After(next) /\ next \in Timer
        /\ fired' = [fired EXCEPT ![next] = @ + 1]
    BY <1>0, <1>11 DEF Call, TypeOK
  <2>3. next' = IF j < n THEN timers[j + 1] ELSE NoTimer
    BY <1>0, <1>5, <2>1, <2>2, AfterType DEF n
  <2>4. j # i /\ new(j) \in 1 .. n - 1 /\ timers'[new(j)] = running'
    BY <1>5, <1>6, <2>1, <2>2
  <2>5. ASSUME NEW k \in 1 .. n - 1, timers'[k] \in checked
        PROVE  \E l \in 1 .. n : l # i /\ k = new(l) /\ l >= j
    BY <1>7, <2>1, <2>5
  <2>6. LoopAt(new(j))'
    <3>1. CASE j < n
      <4>1. j + 1 \in 1 .. n /\ j + 1 # i
        BY <1>5, <2>1, <3>1
      <4>2. new(j) < new(j + 1) /\ new(j + 1) \in 1 .. n - 1 /\ timers'[new(j + 1)] = next'
        BY <1>5, <1>6, <1>8, <2>1, <2>3, <2>4, <3>1, <4>1
      <4>3. \A l \in 1 .. n : l # i /\ l >= j => l = j \/ new(l) >= new(j + 1)
        BY <1>5, <2>1 DEF new
      <4>4. \A k \in 1 .. n - 1 : timers'[k] \in checked' => k = new(j) \/ k >= new(j + 1)
        BY <1>0, <2>5, <4>3
      <4> QED
        BY <1>5, <2>4, <4>2, <4>4 DEF LoopAt
    <3>2. CASE ~(j < n)
      <4>1. \A l \in 1 .. n : l >= j => l = j
        BY <1>5, <3>2
      <4>2. \A k \in 1 .. n - 1 : timers'[k] \in checked' => k = new(j)
        BY <1>0, <2>5, <4>1
      <4> QED
        BY <1>5, <2>3, <2>4, <3>2, <4>2 DEF LoopAt
    <3> QED
      BY <3>1, <3>2
  <2>7. LoopOK'
    BY <1>5, <2>4, <2>6 DEF LoopOK
  <2>8. \A t \in Timer : fired[t] # 0 => fired'[t] # 0
    BY <1>0, <2>2 DEF TypeOK
  <2>9. fired'[running'] # 0
    BY <1>0, <2>2 DEF TypeOK
  <2>10. CalledOrListed'
    BY <1>0, <1>9, <1>10, <2>8, <2>9 DEF IInv, CalledOrListed, TypeOK
  <2>11. ~Idle'
    BY <2>2, TimersAssumption DEF Idle
  <2> QED
    BY <1>1, <1>4, <2>7, <2>10, <2>11 DEF IInv, DueWaitsForHead
<1>12. CASE ~(next # NoTimer /\ Due(next)) /\ running' = NoTimer /\ UNCHANGED fired
  <2>1. CalledOrListed' /\ LoopOK'
    BY <1>0, <1>9, <1>10, <1>12 DEF IInv, CalledOrListed, LoopOK, Idle
  <2>2. DueWaitsForHead'
    <3> SUFFICES ASSUME NEW t \in checked, t \in Listed'
                 PROVE  ~(deadline[t] <= passtime)
      BY <1>0 DEF DueWaitsForHead
    <3>1. PICK k \in 1 .. n : k # i /\ timers[k] = t
      BY <1>5, <1>7 DEF Listed, ToSet
    <3>2. next # NoTimer
      <4>1. \A j \in 1 .. n : timers[j] # NoTimer
        BY <1>0, <1>5, TimersAssumption
      <4> QED
        BY <1>2, <1>5, <3>1, <4>1 DEF LoopAt
    <3>3. PICK j \in 1 .. n :
             /\ i < j /\ timers[j] = next
             /\ \A l \in 1 .. n : timers[l] \in checked => l = i \/ l >= j
      BY <1>2, <1>5, <3>2 DEF LoopAt
    <3>4. k >= j /\ k \in 2 .. n /\ j \in 2 .. n
      BY <1>5, <3>1, <3>3
    <3>5. /\ \A l \in 1 .. n : deadline[timers[l]] \in Int
          /\ currtime \in Int /\ passtime \in Int /\ passtime <= currtime
      BY <1>0, <1>5, TimersAssumption DEF TypeOK
    <3>6. deadline[next] > currtime
      BY <1>12, <3>2, <3>3, <3>5 DEF Due
    <3>7. deadline[next] <= deadline[t]
      BY <3>1, <3>3, <3>4, <3>5 DEF IInv, InOrder, n
    <3> QED
      BY <3>1, <3>3, <3>5, <3>6, <3>7
  <2> QED
    BY <1>1, <1>4, <2>1, <2>2 DEF IInv
<1> QED
  BY <1>11, <1>12 DEF Return

-----------------------------------------------------------------------------
(* Theorems *)

\* The empty list is in order.
LEMMA InitIInv == Init => IInv
<1> SUFFICES ASSUME Init
             PROVE  IInv
  OBVIOUS
<1>1. TypeOK
  BY InitTypeOK
<1>2. DOMAIN timers = {} /\ Len(timers) = 0
  BY DEF Init
<1>3. OnceEach /\ InOrder
  BY <1>2 DEF OnceEach, InOrder
<1>4. CalledOrListed /\ LoopOK /\ DueWaitsForHead
  BY DEF Init, CalledOrListed, LoopOK, DueWaitsForHead, Idle
<1> QED
  BY <1>1, <1>3, <1>4 DEF IInv

\* Every operation, pass and turn keeps the invariant.
LEMMA NextIInv == IInv /\ [Next]_vars => IInv'
<1> SUFFICES ASSUME IInv, [Next]_vars
             PROVE  IInv'
  OBVIOUS
<1>1. CASE UNCHANGED vars
  BY <1>1 DEF vars, IInv, TypeOK, OnceEach, InOrder, CalledOrListed, LoopOK, LoopAt,
     DueWaitsForHead, Idle, Listed
<1>2. ASSUME NEW now \in 0 .. MaxTime, ReadClock(now)
      PROVE  IInv'
  <2>1. TypeOK'
    BY <1>2, NextTypeOK DEF Next
  <2> QED
    BY <1>2, <2>1 DEF ReadClock, IInv, OnceEach, InOrder, CalledOrListed, LoopOK, LoopAt,
       DueWaitsForHead, Idle, Listed
<1> QED
  BY <1>1, <1>2, ScheduleKeeps, DeltimerKeeps, DeltimermoduleKeeps, CheckKeeps, ReturnKeeps
     DEF Next

\* The inductive invariant of the timer list and of the loop in CheckTimers.
THEOREM Invariance == Spec => []IInv
<1>1. Init => IInv
  BY InitIInv
<1>2. IInv /\ [Next]_vars => IInv'
  BY NextIInv
<1> QED
  BY <1>1, <1>2, PTL DEF Spec

\* From its second node on the list stays in order of the deadlines.
THEOREM AlwaysSorted == Spec => []TailSorted
<1>1. IInv => TailSorted
  BY DEF IInv, InOrder, TailSorted
<1> QED
  BY <1>1, Invariance, PTL

\* Whatever the functions CheckTimers calls schedule, the nodes it will touch
\* when they return are in the list, the one to go on with after the other.
THEOREM PointersStayListed == Spec => []LoopPointersListed
<1>1. IInv => LoopPointersListed
  BY DEF IInv, LoopOK, LoopAt, LoopPointersListed
<1> QED
  BY <1>1, Invariance, PTL

\* A pass of CheckTimers overlooks no timer that is due but those behind a
\* head that is not.
THEOREM PassOverlooksNone == Spec => []DueWaitsForHead
<1>1. IInv => DueWaitsForHead
  BY DEF IInv
<1> QED
  BY <1>1, Invariance, PTL

=============================================================================
