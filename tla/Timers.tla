------------------------------- MODULE Timers -------------------------------
(***************************************************************************)
(* The timer list of src/src/timer.c: addtimer, schedulein, deltimer,      *)
(* deltimermodule and the CheckTimers call of the main loop.               *)
(*                                                                         *)
(* CheckTimers calls each due timer's function and unlinks the timer when  *)
(* the function has returned; the function may schedule timers while the   *)
(* loop holds pointers into the list.  A call is therefore a frame of its  *)
(* own: `running' is the node whose function runs and `next' the node the  *)
(* loop goes on with, read before the call.  Functions that delete timers  *)
(* are left out (see the README).                                          *)
(***************************************************************************)
EXTENDS Integers, Sequences, FiniteSets, SequencesExt

CONSTANTS
    Timer,      \* allocations of struct timerstruct, each used once
    NoTimer,    \* the null pointer
    Module,     \* modules that own timers
    MaxTime,    \* bound: the clock stops here
    MaxLate     \* "several seconds"

ASSUME TimersAssumption ==
    /\ NoTimer \notin Timer
    /\ Module # {}
    /\ MaxTime \in Nat
    /\ MaxLate \in Nat

VARIABLES
    currtime,   \* the time as time() last put it there
    passtime,   \* the time at which the last pass of CheckTimers began
    timers,     \* the list, from its head
    deadline,   \* timers_curr->deadline of each allocation
    module,     \* timers_curr->module of each allocation
    running,    \* the timer whose function CheckTimers is calling
    next,       \* the timer CheckTimers goes on with
    checked,    \* the timers the last pass began with, if none was deleted since
    fired       \* how often each timer's function has been called

vars == <<currtime, passtime, timers, deadline, module, running, next, checked, fired>>

Listed == ToSet(timers)
Due(t) == deadline[t] <= currtime

Idle == running = NoTimer

\* Where the loop stands: the place of a node that is on the list.
PlaceOf(t) == CHOOSE i \in DOMAIN timers : timers[i] = t

-----------------------------------------------------------------------------
(* Operations on the list *)

\* Wrong on purpose: a new timer goes to the end.
InsertLast(d) == Len(timers)

\* The place of a new timer: the search starts at the head without looking
\* at the head's own deadline, so a new timer is never put first.
InsertAfter(d) ==
    IF timers = << >> THEN 0
    ELSE CHOOSE i \in DOMAIN timers :
            /\ \A j \in 2 .. i : deadline[timers[j]] <= d
            /\ i < Len(timers) => deadline[timers[i + 1]] > d

addtimer(t, m, d) ==
    /\ t \in Timer \ Listed
    /\ fired[t] = 0
    /\ timers' = InsertAt(timers, InsertAfter(d) + 1, t)
    /\ deadline' = [deadline EXCEPT ![t] = d]
    /\ module' = [module EXCEPT ![t] = m]

\* schedulein, from the bot's handlers or from a timer's function.  It reads
\* the clock itself, in the middle of a pass of CheckTimers too.
schedulein(t, m, delay, now) ==
    /\ now >= currtime
    /\ now + delay <= MaxTime
    /\ currtime' = now
    /\ addtimer(t, m, now + delay)
    /\ UNCHANGED <<passtime, running, next, checked, fired>>

\* time(&currtime) anywhere else: at the start of a round of the main loop,
\* and in whatever logs or answers, a timer's function included.
ReadClock(now) ==
    /\ now >= currtime
    /\ currtime' = now
    /\ UNCHANGED <<passtime, timers, deadline, module, running, next, checked, fired>>

\* deltimer removes the first timer of the module with that deadline.
deltimer(m, d) ==
    /\ Idle
    /\ \E i \in DOMAIN timers :
          /\ module[timers[i]] = m
          /\ deadline[timers[i]] = d
          /\ \A j \in DOMAIN timers :
                j < i => module[timers[j]] # m \/ deadline[timers[j]] # d
          /\ timers' = RemoveAt(timers, i)
    /\ checked' = {}
    /\ UNCHANGED <<currtime, passtime, deadline, module, running, next, fired>>

\* The places of the timers of other modules.
Kept(m) == {i \in DOMAIN timers : module[timers[i]] # m}

\* deltimermodule, when a module is unloaded: the others stay in their order.
deltimermodule(m) ==
    /\ Idle
    /\ \E place \in [1 .. Cardinality(Kept(m)) -> Kept(m)] :
          /\ \A j, k \in DOMAIN place : j < k => place[j] < place[k]
          /\ timers' = [k \in DOMAIN place |-> timers[place[k]]]
    /\ checked' = {}
    /\ UNCHANGED <<currtime, passtime, deadline, module, running, next, fired>>

-----------------------------------------------------------------------------
(* CheckTimers *)

After(t) == IF PlaceOf(t) < Len(timers) THEN timers[PlaceOf(t) + 1] ELSE NoTimer

Call(t) ==
    /\ running' = t
    /\ next' = After(t)
    /\ fired' = [fired EXCEPT ![t] = @ + 1]

\* Wrong on purpose: the timer is unlinked before its function is called.
CheckUnlinking(now) ==
    /\ Idle
    /\ now \in currtime .. MaxTime
    /\ currtime' = now /\ passtime' = now
    /\ checked' = Listed
    /\ IF timers # << >> /\ deadline[Head(timers)] <= now
         THEN Call(Head(timers)) /\ timers' = Tail(timers)
         ELSE UNCHANGED <<running, next, fired, timers>>
    /\ UNCHANGED <<deadline, module>>

\* Wrong on purpose: the pass goes by the clock as it was last read.
CheckByOldClock(now) ==
    /\ Idle
    /\ now \in currtime .. MaxTime
    /\ passtime' = currtime
    /\ checked' = Listed
    /\ IF timers # << >> /\ deadline[Head(timers)] <= currtime
         THEN Call(Head(timers))
         ELSE UNCHANGED <<running, next, fired>>
    /\ UNCHANGED <<currtime, timers, deadline, module>>

\* A pass begins: the clock is read, and the head's function is called if the
\* head is due.
CheckTimers(now) ==
    /\ Idle
    /\ now \in currtime .. MaxTime
    /\ currtime' = now /\ passtime' = now
    /\ checked' = Listed
    /\ IF timers # << >> /\ deadline[Head(timers)] <= now
         THEN Call(Head(timers))
         ELSE UNCHANGED <<running, next, fired>>
    /\ UNCHANGED <<timers, deadline, module>>

\* Wrong on purpose: a pass calls one timer and no more.
ReturnAtOnce ==
    /\ ~Idle
    /\ timers' = RemoveAt(timers, PlaceOf(running))
    /\ running' = NoTimer
    /\ next' = NoTimer
    /\ UNCHANGED <<currtime, passtime, deadline, module, checked, fired>>

\* The function has returned: its timer goes, and the loop looks at `next'.
Return ==
    /\ ~Idle
    /\ timers' = RemoveAt(timers, PlaceOf(running))
    /\ IF next # NoTimer /\ Due(next)
         THEN Call(next)
         ELSE running' = NoTimer /\ next' = NoTimer /\ UNCHANGED fired
    /\ UNCHANGED <<currtime, passtime, deadline, module, checked>>

-----------------------------------------------------------------------------
Init ==
    /\ currtime = 0 /\ passtime = 0
    /\ timers = << >>
    /\ deadline = [t \in Timer |-> 0]
    /\ module = [t \in Timer |-> CHOOSE m \in Module : TRUE]
    /\ running = NoTimer
    /\ next = NoTimer
    /\ checked = {}
    /\ fired = [t \in Timer |-> 0]

Next ==
    \/ \E t \in Timer, m \in Module, delay, now \in 0 .. MaxTime : schedulein(t, m, delay, now)
    \/ \E now \in 0 .. MaxTime : ReadClock(now)
    \/ \E m \in Module, d \in 0 .. MaxTime : deltimer(m, d)
    \/ \E m \in Module : deltimermodule(m)
    \/ \E now \in 0 .. MaxTime : CheckTimers(now)
    \/ Return

Spec == Init /\ [][Next]_vars

\* The main loop goes round, functions return, and the clock goes on.
LiveSpec ==
    /\ Spec
    /\ WF_vars(Return)
    /\ WF_vars(CheckTimers(currtime))
    /\ SF_vars(\E now \in 0 .. MaxTime : now > currtime /\ CheckTimers(now))

-----------------------------------------------------------------------------
(* Properties *)

\* Type correctness of the timer list, the clock and the loop in CheckTimers.
TypeOK ==
    /\ currtime \in 0 .. MaxTime
    /\ passtime \in 0 .. currtime
    /\ timers \in Seq(Timer)
    /\ deadline \in [Timer -> 0 .. MaxTime]
    /\ module \in [Timer -> Module]
    /\ running \in Timer \cup {NoTimer}
    /\ next \in Timer \cup {NoTimer}
    /\ checked \subseteq Timer
    /\ fired \in [Timer -> Nat]

\* From its second node on the list is in order of the deadlines; CheckTimers
\* stops at the first timer that is not due because of that.
TailSorted ==
    /\ TypeOK
    /\ \A i, j \in 2 .. Len(timers) :
          i < j => deadline[timers[i]] <= deadline[timers[j]]

\* While CheckTimers calls a function, both nodes it will touch when the
\* function returns are in the list, the one to go on with after the other.
LoopPointersListed ==
    ~Idle => \E i \in DOMAIN timers :
                /\ timers[i] = running
                /\ next # NoTimer => \E j \in DOMAIN timers : i < j /\ timers[j] = next

\* A timer that was due when a pass of CheckTimers began and that the whole
\* pass has left on the list was hidden behind a head that was not due: the
\* pass overlooks no other.
DueWaitsForHead ==
    Idle => \A t \in checked \cap Listed :
                deadline[t] <= passtime => deadline[Head(timers)] > passtime

\* A timer is called because its time has come, and its node goes afterwards:
\* nothing that deltimer or deltimermodule does not take stays for ever.
EveryTimerGoes == \A t \in Timer : t \in Listed ~> t \notin Listed

\* "Note that these are not exact and may be several seconds late": no timer
\* that a pass of CheckTimers has left on the list is later than that.
SecondsLate ==
    Idle => \A t \in checked \cap Listed : passtime - deadline[t] <= MaxLate

=============================================================================
