------------------------ MODULE LocalSchedulerProofs ------------------------
(***************************************************************************)
(* Proofs about LocalScheduler, for every set of ids, schedules, options   *)
(* and tagged tasks and for every bound.                                   *)
(***************************************************************************)
EXTENDS LocalScheduler, TLAPS

-----------------------------------------------------------------------------
(* The helpers on an object's timing. *)

\* Numbers are compared, never lost: the later of two instants is one of them.
LEMMA MaxOfTimes == ASSUME NEW a \in Times, NEW b \in Times
                    PROVE  /\ MaxOf(a, b) \in Times
                           /\ MaxOf(a, b) >= a /\ MaxOf(a, b) >= b
  BY SchedulerAssumption DEF MaxOf, Times

\* A timing whose pending timers are exactly the one its timeout handle names.
Held(t) ==
    \A p \in t.pending :
        /\ p.handle = t.timeout
        /\ \A q \in t.pending : p = q
        /\ t.target # Undefined

\* clearTimer() keeps the type and leaves no timer behind, provided the handle
\* named the only one.
LEMMA ClearTimerLemma ==
    ASSUME NEW t \in Timing
    PROVE  /\ clearTimer(t) \in Timing
           /\ clearTimer(t).target = t.target
           /\ Held(t) => clearTimer(t).pending = {}
  <1> DEFINE kept == {p \in t.pending : p.handle # t.timeout}
             cleared == [t EXCEPT !.pending = kept, !.timeout = Undefined]
  <1>1. clearTimer(t) = IF t.timeout = Undefined THEN t ELSE cleared
    BY DEF clearTimer
  <1>2. /\ t.pending \in SUBSET [handle : Handles, left : 0 .. MAX_TIMEOUT_DELAY]
        /\ kept \subseteq t.pending
    BY DEF Timing
  <1>3. Held(t) => kept = {}
    BY DEF Held
  <1>4. Held(t) /\ t.timeout = Undefined => t.pending = {}
    <2>1. \A p \in t.pending : p.handle # 0
      BY <1>2 DEF Handles
    <2> QED BY <2>1 DEF Held, Undefined
  <1> HIDE DEF kept
  <1>5. cleared \in Timing /\ cleared.target = t.target /\ cleared.pending = kept
    BY <1>2 DEF Timing
  <1> QED BY <1>1, <1>3, <1>4, <1>5

\* setChunkedTimeout() arms one timer, no longer than the platform's maximum.
LEMMA SetChunkedTimeoutLemma ==
    ASSUME NEW t \in Timing, now \in Times
    PROVE  /\ setChunkedTimeout(t) \in Timing
           /\ setChunkedTimeout(t).target = t.target
           /\ t.pending = {} => Held(setChunkedTimeout(t))
  <1> DEFINE delay == IF t.target > now THEN t.target - now ELSE 0
             handle == IF \E p \in t.pending : p.handle = 1 THEN 2 ELSE 1
             timer == [handle |-> handle, left |-> MinOf(delay, MAX_TIMEOUT_DELAY)]
             armed == [t EXCEPT !.timeout = handle, !.pending = @ \cup {timer}]
  <1>1. t.target \in Nat /\ now \in Nat /\ MAX_TIMEOUT_DELAY \in Nat \ {0}
    BY SchedulerAssumption DEF Timing, Times
  <1>2. MinOf(delay, MAX_TIMEOUT_DELAY) \in 0 .. MAX_TIMEOUT_DELAY
    BY <1>1 DEF MinOf
  <1>3. handle \in Handles
    BY DEF Handles
  <1>4. timer \in [handle : Handles, left : 0 .. MAX_TIMEOUT_DELAY]
    BY <1>2, <1>3
  <1> HIDE DEF timer, handle, delay
  <1>5. armed \in Timing /\ armed.target = t.target
    BY <1>3, <1>4 DEF Timing
  <1>6. ASSUME t.pending = {}, t.target # Undefined PROVE Held(armed)
    <2>1. armed.pending = {timer} /\ armed.timeout = handle /\ armed.target = t.target
      BY <1>6 DEF Timing
    <2>2. timer.handle = handle
      BY DEF timer
    <2> QED BY <2>1, <2>2, <1>6 DEF Held
  <1>7. ASSUME t.pending = {} PROVE t.target = Undefined => Held(t)
    BY <1>7 DEF Held
  <1>8. setChunkedTimeout(t) = IF t.target = Undefined THEN t ELSE armed
    BY DEF setChunkedTimeout, armed, timer, handle, delay
  <1> QED BY <1>5, <1>6, <1>7, <1>8

\* armFrom() works towards the date the schedule names from its base, or none.
LEMMA ArmFromLemma ==
    ASSUME NEW t \in Timing, NEW s \in Schedules, NEW base \in Times, now \in Times
    PROVE  /\ armFrom(t, s, base) \in Timing
           /\ armFrom(t, s, base).target = NextExecutionDate[s][base]
           /\ t.pending = {} => Held(armFrom(t, s, base))
  <1> DEFINE next == NextExecutionDate[s][base]
  <1>1. next \in Times
    BY NextExecutionDateAssumption
  <1>2. [t EXCEPT !.target = next] \in Timing
    BY <1>1 DEF Timing
  <1>3. [t EXCEPT !.target = next].target = next /\ [t EXCEPT !.target = next].pending = t.pending
    BY DEF Timing
  <1>4. CASE next = Undefined
    <2>1. armFrom(t, s, base) = [t EXCEPT !.target = next]
      BY <1>4 DEF armFrom
    <2> QED BY <2>1, <1>2, <1>3, <1>4 DEF Held
  <1>5. CASE next # Undefined
    <2>1. armFrom(t, s, base) = setChunkedTimeout([t EXCEPT !.target = next])
      BY <1>5 DEF armFrom
    <2>2. armFrom(t, s, base).target = next
      BY <2>1, <1>2, <1>3, SetChunkedTimeoutLemma
    <2> HIDE DEF next
    <2>3. armFrom(t, s, base) \in Timing /\ (t.pending = {} => Held(armFrom(t, s, base)))
      BY <2>1, <1>1, <1>2, <1>3, <1>5, SetChunkedTimeoutLemma
    <2> QED BY <2>2, <2>3 DEF next
  <1> QED BY <1>4, <1>5

\* arm() replaces whatever timer there was.
LEMMA ArmLemma ==
    ASSUME NEW t \in Timing, NEW s \in Schedules, now \in Times
    PROVE  /\ arm(t, s) \in Timing
           /\ Held(t) => Held(arm(t, s))
  BY ClearTimerLemma, ArmFromLemma DEF arm

\* A registration starts without a timer.
LEMMA UnarmedLemma == UnarmedTiming \in Timing /\ Held(UnarmedTiming)
  BY SchedulerAssumption DEF UnarmedTiming, Timing, Held, Times, Undefined

-----------------------------------------------------------------------------
(* Type correctness. *)

\* What an allocation returns.
LEMMA FreshGenerationLemma ==
    ASSUME NEW id \in Ids, HasFreshGeneration(id)
    PROVE  /\ FreshGeneration(id) \in Generations
           /\ <<id, FreshGeneration(id)>> \in Objects
           /\ Unreferenced(<<id, FreshGeneration(id)>>)
  <1>1. PICK g \in Generations : Unreferenced(<<id, g>>)
    BY DEF HasFreshGeneration
  <1>2. FreshGeneration(id) \in Generations /\ Unreferenced(<<id, FreshGeneration(id)>>)
    BY <1>1 DEF FreshGeneration
  <1> QED BY <1>2 DEF Objects

\* There is a schedule.
LEMMA SomeScheduleLemma == SomeSchedule \in Schedules
  BY SchedulerAssumption DEF SomeSchedule

\* The object registered under an id.
LEMMA RegisteredObject ==
    ASSUME TypeOK, NEW id \in Ids, states[id] # Undefined
    PROVE  <<id, states[id]>> \in Objects
  BY DEF TypeOK, Objects

\* The scheduler starts empty and stopped.
LEMMA InitType == Init => TypeOK
  <1> SUFFICES ASSUME Init PROVE TypeOK
    OBVIOUS
  <1>1. now \in Times /\ NeverFired \in Times
    BY SchedulerAssumption DEF Init, Times, NeverFired
  <1>2. timing \in [Objects -> Timing]
    BY UnarmedLemma DEF Init
  <1>3. schedule \in [Objects -> Schedules]
    BY SomeScheduleLemma DEF Init
  <1>4. options \in [Objects -> ScheduleOptions]
    BY SchedulerAssumption DEF Init
  <1> QED BY <1>1, <1>2, <1>3, <1>4 DEF Init, TypeOK

\* One case per action: each assigns values of the declared types.
LEMMA NextType == TypeOK /\ [Next]_vars => TypeOK'
  <1> SUFFICES ASSUME TypeOK, [Next]_vars PROVE TypeOK'
    OBVIOUS
  <1>n. now \in Times /\ NeverFired \in Times /\ timing \in [Objects -> Timing]
    BY SchedulerAssumption DEF TypeOK, Times, NeverFired
  <1>1. ASSUME NEW id \in Ids, NEW s \in Schedules, NEW opt \in Options, Schedule(id, s, opt)
        PROVE  TypeOK'
    <2> DEFINE o == <<id, FreshGeneration(id)>>
    <2>1. o \in Objects /\ o[2] \in Generations
      BY <1>1, FreshGenerationLemma DEF Schedule
    <2>2. timing' \in [Objects -> Timing]
      BY <1>1, <1>n, ArmLemma, UnarmedLemma DEF Schedule
    <2>3. options' \in [Objects -> ScheduleOptions]
      BY <1>1, SchedulerAssumption DEF Schedule, TypeOK
    <2>4. lastFire' \in [Objects -> Times]
      BY <1>1, <1>n DEF Schedule, TypeOK
    <2>5. states' \in [Ids -> Generations \cup {Undefined}]
      BY <1>1, <2>1 DEF Schedule, TypeOK
    <2> QED BY <1>1, <2>2, <2>3, <2>4, <2>5 DEF Schedule, TypeOK
  <1>2. ASSUME NEW id \in Ids, Unschedule(id) PROVE TypeOK'
    <2> DEFINE o == <<id, states[id]>>
    <2>1. o \in Objects
      BY <1>2, RegisteredObject DEF Unschedule
    <2>2. clearTimer(timing[o]) \in Timing
      BY <2>1, <1>n, ClearTimerLemma
    <2>3. [clearTimer(timing[o]) EXCEPT !.target = Undefined] \in Timing
      BY <2>2, <1>n DEF Timing, NeverFired, Undefined
    <2>4. timing' \in [Objects -> Timing]
      BY <1>2, <1>n, <2>3 DEF Unschedule
    <2>5. [DefaultOptions EXCEPT !.allowOverlap = options[o].allowOverlap] \in ScheduleOptions
      BY <2>1, SchedulerAssumption DEF TypeOK, ScheduleOptions
    <2>6. options' \in [Objects -> ScheduleOptions]
      BY <1>2, <2>5 DEF Unschedule, TypeOK
    <2>7. schedule' \in [Objects -> Schedules] /\ lastFire' \in [Objects -> Times]
      BY <1>2, <1>n, SomeScheduleLemma DEF Unschedule, TypeOK
    <2>8. states' \in [Ids -> Generations \cup {Undefined}]
      BY <1>2 DEF Unschedule, TypeOK
    <2> QED BY <1>2, <2>4, <2>6, <2>7, <2>8 DEF Unschedule, TypeOK
  <1>3. ASSUME NEW id \in Ids, NEW s \in Schedules, Reschedule(id, s) PROVE TypeOK'
    <2> DEFINE o == <<id, states[id]>>
               cleared == [clearTimer(timing[o]) EXCEPT !.target = Undefined]
    <2>1. o \in Objects
      BY <1>3, RegisteredObject DEF Reschedule
    <2>2. clearTimer(timing[o]) \in Timing
      BY <2>1, <1>n, ClearTimerLemma
    <2>3. cleared \in Timing
      BY <2>2, <1>n DEF Timing, NeverFired, Undefined
    <2>4. arm(cleared, s) \in Timing
      BY <2>3, <1>n, ArmLemma
    <2>5. timing' = [timing EXCEPT ![o] = IF started THEN arm(cleared, s) ELSE cleared]
      BY <1>3 DEF Reschedule
    <2> HIDE DEF cleared
    <2>6. timing' \in [Objects -> Timing]
      BY <2>5, <1>n, <2>3, <2>4
    <2>7. schedule' \in [Objects -> Schedules] /\ lastFire' \in [Objects -> Times]
      BY <1>3, <1>n DEF Reschedule, TypeOK
    <2> QED BY <1>3, <2>6, <2>7 DEF Reschedule, TypeOK
  <1>4. ASSUME NEW id \in Ids, RescheduleInvalid(id) PROVE TypeOK'
    <2>1. clearTimer(timing[<<id, states[id]>>]) \in Timing
      BY <1>4, <1>n, RegisteredObject, ClearTimerLemma DEF RescheduleInvalid
    <2>2. timing' \in [Objects -> Timing]
      BY <1>4, <1>n, <2>1 DEF RescheduleInvalid
    <2> QED BY <1>4, <2>2 DEF RescheduleInvalid, TypeOK
  <1>5. ASSUME Start PROVE TypeOK'
    <2>1. PICK ids \in RegistrationOutcomes : StartWith(ids)
      BY <1>5 DEF Start
    <2>2. ids \subseteq Ids
      BY DEF RegistrationOutcomes
    <2>3. \A id \in ids : FreshGeneration(id) \in Generations
      BY <2>1, <2>2, FreshGenerationLemma DEF StartWith
    <2>4. states' \in [Ids -> Generations \cup {Undefined}]
      BY <2>1, <2>3 DEF StartWith, TypeOK
    <2>5. \A o \in Objects : o[1] \in Ids
      BY DEF Objects
    <2>6. schedule' \in [Objects -> Schedules]
      BY <2>1, <2>5, SchedulerAssumption DEF StartWith, TypeOK
    <2>7. options' \in [Objects -> ScheduleOptions] /\ running' \in [Objects -> BOOLEAN]
      BY <2>1, SchedulerAssumption DEF StartWith, TypeOK
    <2>8. ASSUME NEW o \in Objects
          PROVE  /\ arm(UnarmedTiming, TaggedSchedule[o[1]]) \in Timing
                 /\ arm(timing[o], schedule[o]) \in Timing
                 /\ timing[o] \in Timing
      <3>1. schedule[o] \in Schedules /\ TaggedSchedule[o[1]] \in Schedules
        BY <2>5, SchedulerAssumption DEF TypeOK
      <3> QED BY <3>1, <1>n, ArmLemma, UnarmedLemma
    <2>9. timing' \in [Objects -> Timing]
      BY <2>1, <2>8 DEF StartWith
    <2>10. lastFire' \in [Objects -> Times]
      BY <2>1, <1>n DEF StartWith, TypeOK
    <2> QED BY <1>5, <2>4, <2>6, <2>7, <2>9, <2>10 DEF Start, TypeOK
  <1>6. ASSUME NEW c \in Callers, Stop(c) PROVE TypeOK'
    <2>1. ASSUME NEW o \in Objects
          PROVE  [clearTimer(timing[o]) EXCEPT !.target = Undefined] \in Timing
      <3>1. clearTimer(timing[o]) \in Timing
        BY <1>n, ClearTimerLemma
      <3> QED BY <3>1, <1>n DEF Timing, NeverFired, Undefined
    <2>2. timing' \in [Objects -> Timing]
      BY <1>6, <1>n, <2>1 DEF Stop
    <2>3. awaited' \in [Callers -> SUBSET Invocations]
      BY <1>6 DEF Stop, TypeOK, inFlightInvocations
    <2> QED BY <1>6, <2>2, <2>3 DEF Stop, TypeOK
  <1>7. ASSUME NEW c \in Callers, StopReturns(c) PROVE TypeOK'
    BY <1>7 DEF StopReturns, TypeOK
  <1>8. ASSUME NEW o \in Objects, NEW p \in timing[o].pending, OnTimer(o, p) PROVE TypeOK'
    <2> DEFINE popped == [timing[o] EXCEPT !.pending = @ \ {p}, !.timeout = Undefined]
    <2>1. timing[o] \in Timing /\ timing[o].target \in Times /\ schedule[o] \in Schedules
      BY <1>n DEF TypeOK, Timing
    <2>2. popped \in Timing
      BY <2>1 DEF Timing
    <2>3. RearmBase(o) \in Times /\ MaxOf(now, timing[o].target) \in Times
      BY <2>1, <1>n, MaxOfTimes DEF RearmBase
    <2>4. armFrom(popped, schedule[o], RearmBase(o)) \in Timing
      BY <2>1, <2>2, <2>3, <1>n, ArmFromLemma
    <2>5. setChunkedTimeout(popped) \in Timing
      BY <2>2, <1>n, SetChunkedTimeoutLemma
    <2>6. timing' \in [Objects -> Timing]
      <3> HIDE DEF popped
      <3>1. \E t \in Timing : timing' = [timing EXCEPT ![o] = t]
        BY <1>8, <2>2, <2>4, <2>5 DEF OnTimer, popped
      <3> QED BY <3>1, <1>n
    <2>7. lastFire' \in [Objects -> Times]
      BY <1>8, <2>3 DEF OnTimer, TypeOK
    <2>8. /\ phase' \in [Invocations -> {"free", "sync", "async"}]
          /\ invoked' \in [Invocations -> Objects \cup {NoObject}]
          /\ running' \in [Objects -> BOOLEAN]
      <3>1. execute(o) \/ UNCHANGED <<phase, invoked, running>>
        BY <1>8 DEF OnTimer
      <3>2. CASE execute(o)
        <4>1. PICK i \in Invocations :
                 phase' = [phase EXCEPT ![i] = "sync"] /\ invoked' = [invoked EXCEPT ![i] = o]
          BY <3>2 DEF execute
        <4>2. running' \in [Objects -> BOOLEAN]
          BY <3>2 DEF execute, TypeOK
        <4> QED BY <4>1, <4>2 DEF TypeOK
      <3> QED BY <3>1, <3>2 DEF TypeOK
    <2> QED BY <1>8, <2>6, <2>7, <2>8 DEF OnTimer, TypeOK
  <1>9. ASSUME NEW i \in Invocations, TaskYields(i) PROVE TypeOK'
    BY <1>9 DEF TaskYields, TypeOK
  <1>10. ASSUME NEW i \in Invocations, TaskSettles(i) PROVE TypeOK'
    <2>1. /\ phase' \in [Invocations -> {"free", "sync", "async"}]
          /\ invoked' \in [Invocations -> Objects \cup {NoObject}]
          /\ running' \in [Objects -> BOOLEAN]
          /\ awaited' \in [Callers -> SUBSET Invocations]
      BY <1>10 DEF TaskSettles, TypeOK
    <2> QED BY <1>10, <2>1 DEF TaskSettles, TypeOK
  <1>11. ASSUME Tick PROVE TypeOK'
    <2>1. ASSUME NEW o \in Objects PROVE Elapse(timing[o]) \in Timing
      <3> DEFINE R == [handle : Handles, left : 0 .. MAX_TIMEOUT_DELAY]
                 older(p) == [p EXCEPT !.left = IF p.left = 0 THEN 0 ELSE p.left - 1]
      <3>1. timing[o] \in Timing /\ timing[o].pending \subseteq R
        BY <1>n DEF Timing
      <3>2. \A p \in R : older(p) \in R
        BY SchedulerAssumption
      <3>3. {older(p) : p \in timing[o].pending} \subseteq R
        BY <3>1, <3>2
      <3>4. Elapse(timing[o]) = [timing[o] EXCEPT !.pending = {older(p) : p \in timing[o].pending}]
        BY DEF Elapse
      <3> HIDE DEF older
      <3> QED BY <3>1, <3>3, <3>4 DEF Timing
    <2>2. timing' \in [Objects -> Timing]
      BY <1>11, <2>1 DEF Tick
    <2>3. now' \in Times
      BY <1>11, <1>n, SchedulerAssumption DEF Tick, Times
    <2> QED BY <1>11, <2>2, <2>3 DEF Tick, TypeOK
  <1>12. ASSUME ClockJump PROVE TypeOK'
    BY <1>12, SchedulerAssumption DEF ClockJump, TypeOK
  <1>13. ASSUME UNCHANGED vars PROVE TypeOK'
    BY <1>13 DEF vars, TypeOK
  <1> QED BY <1>1, <1>2, <1>3, <1>4, <1>5, <1>6, <1>7, <1>8, <1>9, <1>10, <1>11,
             <1>12, <1>13 DEF Next

\* Every variable keeps its type in every execution of the scheduler.
THEOREM TypeCorrect == Spec => []TypeOK
  BY InitType, NextType, PTL DEF Spec

-----------------------------------------------------------------------------
(* Timers: the inductive invariant behind TimerDiscipline and                *)
(* OccurrencesInOrder.                                                       *)

\* Of one object: its timers are held by its handle, exist only while it is
\* registered in a started scheduler, and work towards an occurrence later than
\* the last one handled if the schedule, asked from there, names a later one.
TimersOf(o) ==
    /\ Held(timing[o])
    /\ timing[o].pending # {} =>
          /\ started /\ Registered(o)
          /\ KeepsItsPromise(schedule[o], lastFire[o]) => timing[o].target > lastFire[o]

TimerInv == \A o \in Objects : TimersOf(o)

\* An object without timers satisfies the invariant whatever else changes.
LEMMA NoTimers == ASSUME NEW o \in Objects, timing'[o].pending = {}
                  PROVE  TimersOf(o)'
  BY DEF TimersOf, Held

\* A registered object just armed by arm() satisfies it.
LEMMA JustArmed ==
    ASSUME TypeOK, NEW o \in Objects, NEW t \in Timing, NEW s \in Schedules, Held(t),
           timing'[o] = arm(t, s), started', Registered(o)', lastFire'[o] = NeverFired
    PROVE  TimersOf(o)'
  <1>1. arm(t, s) \in Timing /\ Held(arm(t, s))
    BY ArmLemma DEF TypeOK
  <1>2. arm(t, s).pending # {} => arm(t, s).target # Undefined
    BY <1>1 DEF Held
  <1>3. arm(t, s).pending # {} => arm(t, s).target > NeverFired
    BY <1>1, <1>2, SchedulerAssumption DEF Timing, Times, Undefined, NeverFired
  <1> QED BY <1>1, <1>3 DEF TimersOf

\* What clearing an object's timer leaves, target reset or not.
LEMMA ClearedTiming ==
    ASSUME TypeOK, TimerInv, NEW o \in Objects
    PROVE  LET cleared == [clearTimer(timing[o]) EXCEPT !.target = Undefined]
           IN  /\ clearTimer(timing[o]).pending = {}
               /\ cleared \in Timing /\ cleared.pending = {} /\ Held(cleared)
  <1>1. clearTimer(timing[o]) \in Timing /\ clearTimer(timing[o]).pending = {}
    BY ClearTimerLemma DEF TypeOK, TimerInv, TimersOf
  <1>2. Undefined \in Times
    BY SchedulerAssumption DEF Undefined, Times
  <1> QED BY <1>1, <1>2 DEF Timing, Held

\* Initially nothing is armed; one case per action that touches a timer, the
\* registration, the started flag or the history.
LEMMA TimerInvInit == Init => TimerInv
  BY UnarmedLemma DEF Init, TimerInv, TimersOf, UnarmedTiming

\* The invariant is inductive.
LEMMA TimerInvNext == TypeOK /\ TimerInv /\ [Next]_vars => TimerInv'
  <1> SUFFICES ASSUME TypeOK, TimerInv, [Next]_vars, NEW o \in Objects PROVE TimersOf(o)'
    BY DEF TimerInv
  <1>t. timing[o] \in Timing /\ TimersOf(o) /\ now \in Times
    BY DEF TypeOK, TimerInv
  <1>1. ASSUME NEW id \in Ids, NEW s \in Schedules, NEW opt \in Options, Schedule(id, s, opt)
        PROVE  TimersOf(o)'
    <2> DEFINE n == <<id, FreshGeneration(id)>>
    <2>1. n \in Objects /\ n[1] = id /\ n[2] = FreshGeneration(id)
      BY <1>1, FreshGenerationLemma DEF Schedule
    <2>2. CASE o = n
      <3>1. CASE started
        <4>1. timing'[o] = arm(UnarmedTiming, s) /\ started' /\ lastFire'[o] = NeverFired
          BY <1>1, <2>1, <2>2, <3>1 DEF Schedule, TypeOK
        <4>2. Registered(o)'
          BY <1>1, <2>1, <2>2 DEF Schedule, TypeOK, Registered
        <4> QED BY <4>1, <4>2, UnarmedLemma, JustArmed
      <3>2. CASE ~started
        <4>1. timing'[o].pending = {}
          BY <1>1, <2>1, <2>2, <3>2 DEF Schedule, TypeOK, UnarmedTiming
        <4> QED BY <4>1, NoTimers
      <3> QED BY <3>1, <3>2
    <2>3. CASE o # n
      <3>1. /\ timing'[o] = timing[o] /\ lastFire'[o] = lastFire[o] /\ started' = started
            /\ schedule'[o] = schedule[o]
        BY <1>1, <2>3 DEF Schedule, TypeOK
      <3>2. Registered(o) => o[1] # id
        BY <1>1 DEF Schedule, Registered, Objects, Generations, Undefined
      <3>3. Registered(o) => Registered(o)'
        BY <1>1, <3>2 DEF Schedule, TypeOK, Registered, Objects
      <3> QED BY <1>t, <3>1, <3>3 DEF TimersOf
    <2> QED BY <2>2, <2>3
  <1>2. ASSUME NEW id \in Ids, Unschedule(id) PROVE TimersOf(o)'
    <2>1. CASE o = <<id, states[id]>>
      <3>1. timing'[o] = [clearTimer(timing[o]) EXCEPT !.target = Undefined]
        BY <1>2, <2>1 DEF Unschedule, TypeOK
      <3> QED BY <3>1, ClearedTiming, NoTimers
    <2>2. CASE o # <<id, states[id]>>
      <3>1. /\ timing'[o] = timing[o] /\ lastFire'[o] = lastFire[o] /\ started' = started
            /\ schedule'[o] = schedule[o]
        BY <1>2, <2>2 DEF Unschedule, TypeOK
      <3>2. Registered(o) => o[1] # id
        BY <2>2 DEF Registered, Objects
      <3>3. Registered(o) => Registered(o)'
        BY <1>2, <3>2 DEF Unschedule, TypeOK, Registered, Objects
      <3> QED BY <1>t, <3>1, <3>3 DEF TimersOf
    <2> QED BY <2>1, <2>2
  <1>3. ASSUME NEW id \in Ids, NEW s \in Schedules, Reschedule(id, s) PROVE TimersOf(o)'
    <2> DEFINE cleared == [clearTimer(timing[o]) EXCEPT !.target = Undefined]
    <2>1. CASE o = <<id, states[id]>>
      <3>1. timing'[o] = IF started THEN arm(cleared, s) ELSE cleared
        BY <1>3, <2>1 DEF Reschedule, TypeOK
      <3>2. lastFire'[o] = NeverFired /\ started' = started /\ Registered(o)'
        BY <1>3, <2>1 DEF Reschedule, TypeOK, Registered, Objects
      <3>3. cleared \in Timing /\ cleared.pending = {} /\ Held(cleared)
        BY ClearedTiming
      <3> HIDE DEF cleared
      <3>4. CASE started
        BY <3>1, <3>2, <3>3, <3>4, JustArmed
      <3>5. CASE ~started
        BY <3>1, <3>3, <3>5, NoTimers
      <3> QED BY <3>4, <3>5
    <2>2. CASE o # <<id, states[id]>>
      BY <1>3, <1>t, <2>2 DEF Reschedule, TypeOK, TimersOf, Registered
    <2> QED BY <2>1, <2>2
  <1>4. ASSUME NEW id \in Ids, RescheduleInvalid(id) PROVE TimersOf(o)'
    <2>1. CASE o = <<id, states[id]>>
      <3>1. timing'[o] = clearTimer(timing[o])
        BY <1>4, <2>1 DEF RescheduleInvalid, TypeOK
      <3> QED BY <3>1, ClearedTiming, NoTimers
    <2>2. CASE o # <<id, states[id]>>
      BY <1>4, <1>t, <2>2 DEF RescheduleInvalid, TypeOK, TimersOf, Registered
    <2> QED BY <2>1, <2>2
  <1>5. ASSUME Start PROVE TimersOf(o)'
    <2>0. ~started /\ started' /\ timing[o].pending = {}
      BY <1>5, <1>t DEF Start, TimersOf
    <2>1. PICK ids \in RegistrationOutcomes : StartWith(ids)
      BY <1>5 DEF Start
    <2> DEFINE fresh == {<<id, FreshGeneration(id)>> : id \in ids}
    <2>2. ids \subseteq Ids /\ \A id \in ids : states[id] = Undefined
      BY DEF RegistrationOutcomes
    <2>3. o[1] \in Ids /\ o[2] \in Generations /\ o = <<o[1], o[2]>>
      BY DEF Objects
    <2>4. CASE o \in fresh
      <3>1. o[1] \in ids /\ o[2] = FreshGeneration(o[1])
        BY <2>4
      <3>2. timing'[o] = arm(UnarmedTiming, TaggedSchedule[o[1]]) /\ lastFire'[o] = NeverFired
        BY <2>1, <2>4 DEF StartWith
      <3>3. Registered(o)'
        BY <2>1, <2>3, <3>1 DEF StartWith, Registered
      <3>4. TaggedSchedule[o[1]] \in Schedules
        BY <2>3, SchedulerAssumption
      <3> QED BY <2>0, <3>2, <3>3, <3>4, UnarmedLemma, JustArmed
    <2>5. CASE o \notin fresh /\ Registered(o)
      <3>1. timing'[o] = arm(timing[o], schedule[o]) /\ lastFire'[o] = NeverFired
        BY <2>1, <2>5 DEF StartWith
      <3>2. o[1] \notin ids
        BY <2>2, <2>3, <2>5 DEF Registered, Generations, Undefined
      <3>3. Registered(o)'
        BY <2>1, <2>3, <2>5, <3>2 DEF StartWith, Registered
      <3>4. schedule[o] \in Schedules /\ Held(timing[o])
        BY <1>t DEF TypeOK, TimersOf
      <3> QED BY <2>0, <1>t, <3>1, <3>3, <3>4, JustArmed
    <2>6. CASE o \notin fresh /\ ~Registered(o)
      <3>1. timing'[o] = timing[o]
        BY <2>1, <2>6 DEF StartWith
      <3> QED BY <2>0, <3>1, NoTimers
    <2> QED BY <2>4, <2>5, <2>6
  <1>6. ASSUME NEW c \in Callers, Stop(c) PROVE TimersOf(o)'
    <2>1. CASE Registered(o)
      <3>1. timing'[o] = [clearTimer(timing[o]) EXCEPT !.target = Undefined]
        BY <1>6, <2>1 DEF Stop
      <3> QED BY <3>1, ClearedTiming, NoTimers
    <2>2. CASE ~Registered(o)
      <3>1. timing'[o] = timing[o] /\ timing[o].pending = {}
        BY <1>6, <2>2, <1>t DEF Stop, TimersOf
      <3> QED BY <3>1, NoTimers
    <2> QED BY <2>1, <2>2
  <1>7. ASSUME NEW c \in Callers, StopReturns(c) PROVE TimersOf(o)'
    BY <1>7, <1>t DEF StopReturns, TimersOf, Registered
  <1>8. ASSUME NEW x \in Objects, NEW p \in timing[x].pending, OnTimer(x, p) PROVE TimersOf(o)'
    <2> DEFINE popped == [timing[x] EXCEPT !.pending = @ \ {p}, !.timeout = Undefined]
    <2>1. started' = started /\ states' = states /\ schedule' = schedule
      BY <1>8 DEF OnTimer
    <2>2. CASE o # x
      <3>1. timing'[o] = timing[o] /\ lastFire'[o] = lastFire[o]
        BY <1>8, <2>2 DEF OnTimer, TypeOK
      <3> QED BY <2>1, <3>1, <1>t DEF TimersOf, Registered
    <2>3. CASE o = x
      <3>1. /\ timing[o].pending = {p} /\ started /\ Registered(o)
            /\ KeepsItsPromise(schedule[o], lastFire[o]) => timing[o].target > lastFire[o]
            /\ timing[o].target # Undefined
        BY <1>8, <1>t, <2>3 DEF TimersOf, Held
      <3>2. popped \in Timing /\ popped.pending = {} /\ popped.target = timing[o].target
        BY <1>t, <2>3, <3>1 DEF Timing
      <3>3. timing[o].target \in Times /\ schedule[o] \in Schedules
        BY <1>t DEF TypeOK, Timing
      <3>4. RearmBase(o) = MaxOf(now, timing[o].target) /\ RearmBase(o) \in Times
        BY <1>t, <3>3, MaxOfTimes DEF RearmBase
      <3>5. Registered(o)' /\ started'
        BY <2>1, <3>1 DEF Registered
      <3>6. CASE TargetAhead(o)
        <4>1. timing'[o] = setChunkedTimeout(popped) /\ lastFire'[o] = lastFire[o]
          BY <1>8, <2>3, <3>1, <3>6 DEF OnTimer, TypeOK, TimerIsLive
        <4> HIDE DEF popped
        <4>2. Held(setChunkedTimeout(popped)) /\ setChunkedTimeout(popped).target = timing[o].target
          BY <3>2, <1>t, SetChunkedTimeoutLemma
        <4> QED BY <2>1, <4>1, <4>2, <3>1, <3>5 DEF TimersOf
      <3>7. CASE ~TargetAhead(o)
        <4>1. timing'[o] = armFrom(popped, schedule[o], RearmBase(o))
          BY <1>8, <2>3, <3>1, <3>7 DEF OnTimer, TypeOK, TimerIsLive
        <4>2. lastFire'[o] = RearmBase(o)
          BY <1>8, <2>3, <3>1, <3>4, <3>7 DEF OnTimer, TypeOK, TimerIsLive
        <4> HIDE DEF popped
        <4>3. /\ Held(timing'[o])
              /\ timing'[o].target = NextExecutionDate[schedule[o]][RearmBase(o)]
          BY <4>1, <3>2, <3>3, <3>4, <1>t, ArmFromLemma
        <4> QED BY <2>1, <4>2, <4>3, <3>5 DEF TimersOf, KeepsItsPromise
      <3> QED BY <3>6, <3>7
    <2> QED BY <2>2, <2>3
  <1>9. ASSUME NEW i \in Invocations, TaskYields(i) PROVE TimersOf(o)'
    BY <1>9, <1>t DEF TaskYields, TimersOf, Registered
  <1>10. ASSUME NEW i \in Invocations, TaskSettles(i) PROVE TimersOf(o)'
    BY <1>10, <1>t DEF TaskSettles, TimersOf, Registered
  <1>11. ASSUME Tick PROVE TimersOf(o)'
    <2> DEFINE older(p) == [p EXCEPT !.left = IF p.left = 0 THEN 0 ELSE p.left - 1]
    <2>1. timing'[o] = Elapse(timing[o])
      BY <1>11 DEF Tick
    <2>2. Elapse(timing[o]) = [timing[o] EXCEPT !.pending = {older(p) : p \in timing[o].pending}]
      BY DEF Elapse
    <2>3. \A p \in timing[o].pending : older(p).handle = p.handle
      BY <1>t DEF Timing
    <2> HIDE DEF older
    <2>4. /\ timing'[o].pending = {older(p) : p \in timing[o].pending}
          /\ timing'[o].timeout = timing[o].timeout
          /\ timing'[o].target = timing[o].target
      BY <2>1, <2>2, <1>t DEF Timing
    <2>5. Held(timing'[o])
      BY <2>3, <2>4, <1>t DEF TimersOf, Held
    <2>6. timing'[o].pending # {} => timing[o].pending # {}
      BY <2>4
    <2>7. started' = started /\ states' = states /\ lastFire' = lastFire /\ schedule' = schedule
      BY <1>11 DEF Tick
    <2> QED BY <2>4, <2>5, <2>6, <2>7, <1>t DEF TimersOf, Registered
  <1>12. ASSUME ClockJump PROVE TimersOf(o)'
    BY <1>12, <1>t DEF ClockJump, TimersOf, Registered
  <1>13. ASSUME UNCHANGED vars PROVE TimersOf(o)'
    BY <1>13, <1>t DEF vars, TimersOf, Registered
  <1> QED BY <1>1, <1>2, <1>3, <1>4, <1>5, <1>6, <1>7, <1>8, <1>9, <1>10, <1>11,
             <1>12, <1>13 DEF Next

\* The invariant holds throughout.
LEMMA TimerInvCorrect == Spec => []TimerInv
  BY TypeCorrect, TimerInvInit, TimerInvNext, PTL DEF Spec

\* No timer leaks, whatever the interleaving of calls, timers, tasks and clock
\* changes: the only timer of a state is the one its handle names, and there is
\* none for a removed schedule or a stopped scheduler.
THEOREM TimerDisciplineHolds == Spec => []TimerDiscipline
  <1>1. TimerInv => TimerDiscipline
    BY DEF TimerInv, TimersOf, Held, TimerDiscipline
  <1> QED BY <1>1, TimerInvCorrect, PTL

\* The pending occurrence is later than the last one handled and than the time it was
\* handled at, unless the schedule, asked from that time, names a date that is not
\* later: fire() selects no occurrence twice between two calls of arm() by itself.
THEOREM OccurrencesInOrderHolds == Spec => []OccurrencesInOrder
  <1>1. TimerInv => OccurrencesInOrder
    BY DEF TimerInv, TimersOf, OccurrencesInOrder
  <1> QED BY <1>1, TimerInvCorrect, PTL

-----------------------------------------------------------------------------
(* Invocations: the inductive invariant behind NoSelfOverlap.                *)

\* Of one object: when it may not overlap itself, an unfinished invocation is
\* the only one and the running flag is up for as long as it is unfinished.
SerialOf(o) ==
    ~options[o].allowOverlap =>
        \A i \in Invocations :
            phase[i] # "free" /\ invoked[i] = o =>
                /\ running[o]
                /\ \A j \in Invocations : phase[j] # "free" /\ invoked[j] = o => i = j

InvokedOK == \A i \in Invocations : phase[i] # "free" => invoked[i] \in Objects

SerialInv == InvokedOK /\ \A o \in Objects : SerialOf(o)

\* An allocation names an object no invocation holds.
LEMMA FreshIsIdle ==
    ASSUME NEW o, Unreferenced(o)
    PROVE  \A i \in Invocations : phase[i] # "free" => invoked[i] # o
  BY DEF Unreferenced, Unfinished

\* Nothing about invocations or options changes: nothing to check.
LEMMA SerialUnchanged ==
    ASSUME SerialInv, UNCHANGED <<options, running, phase, invoked>>
    PROVE  SerialInv'
  BY DEF SerialInv, InvokedOK, SerialOf

\* Nothing runs at first.
LEMMA SerialInvInit == Init => SerialInv
  BY DEF Init, SerialInv, InvokedOK, SerialOf

\* The invariant is inductive: only fire() starts an invocation, and it looks at the flag.
LEMMA SerialInvNext == TypeOK /\ SerialInv /\ [Next]_vars => SerialInv'
  <1> SUFFICES ASSUME TypeOK, SerialInv, [Next]_vars PROVE SerialInv'
    OBVIOUS
  <1>1. ASSUME NEW id \in Ids, NEW s \in Schedules, NEW opt \in Options, Schedule(id, s, opt)
        PROVE  SerialInv'
    <2> DEFINE n == <<id, FreshGeneration(id)>>
    <2>1. n \in Objects /\ \A i \in Invocations : phase[i] # "free" => invoked[i] # n
      BY <1>1, FreshGenerationLemma, FreshIsIdle DEF Schedule
    <2>2. \A o \in Objects \ {n} : options'[o] = options[o] /\ running'[o] = running[o]
      BY <1>1 DEF Schedule, TypeOK
    <2>3. phase' = phase /\ invoked' = invoked
      BY <1>1 DEF Schedule
    <2> HIDE DEF n
    <2> QED BY <2>1, <2>2, <2>3 DEF SerialInv, InvokedOK, SerialOf
  <1>2. ASSUME NEW id \in Ids, Unschedule(id) PROVE SerialInv'
    <2> DEFINE x == <<id, states[id]>>
    <2>1. x \in Objects
      BY <1>2, RegisteredObject DEF Unschedule
    <2>2. options'[x].allowOverlap = options[x].allowOverlap
      BY <1>2, <2>1, SchedulerAssumption DEF Unschedule, TypeOK, ScheduleOptions
    <2>3. \A o \in Objects : options'[o].allowOverlap = options[o].allowOverlap
      BY <1>2, <2>2 DEF Unschedule, TypeOK
    <2>4. phase' = phase /\ invoked' = invoked /\ running' = running
      BY <1>2 DEF Unschedule
    <2> QED BY <2>3, <2>4 DEF SerialInv, InvokedOK, SerialOf
  <1>3. ASSUME NEW id \in Ids, NEW s \in Schedules, Reschedule(id, s) PROVE SerialInv'
    BY <1>3, SerialUnchanged DEF Reschedule
  <1>4. ASSUME NEW id \in Ids, RescheduleInvalid(id) PROVE SerialInv'
    BY <1>4, SerialUnchanged DEF RescheduleInvalid
  <1>5. ASSUME Start PROVE SerialInv'
    <2>1. PICK ids \in RegistrationOutcomes : StartWith(ids)
      BY <1>5 DEF Start
    <2> DEFINE fresh == {<<id, FreshGeneration(id)>> : id \in ids}
    <2>2. ids \subseteq Ids
      BY DEF RegistrationOutcomes
    <2>3. \A n \in fresh, i \in Invocations : phase[i] # "free" => invoked[i] # n
      BY <2>1, <2>2, FreshGenerationLemma, FreshIsIdle DEF StartWith
    <2>4. \A o \in Objects \ fresh : options'[o] = options[o] /\ running'[o] = running[o]
      BY <2>1 DEF StartWith
    <2>5. phase' = phase /\ invoked' = invoked
      BY <1>5 DEF Start
    <2> HIDE DEF fresh
    <2> QED BY <2>3, <2>4, <2>5 DEF SerialInv, InvokedOK, SerialOf
  <1>6. ASSUME NEW c \in Callers, Stop(c) PROVE SerialInv'
    BY <1>6, SerialUnchanged DEF Stop
  <1>7. ASSUME NEW c \in Callers, StopReturns(c) PROVE SerialInv'
    BY <1>7, SerialUnchanged DEF StopReturns
  <1>8. ASSUME NEW x \in Objects, NEW p \in timing[x].pending, OnTimer(x, p) PROVE SerialInv'
    <2>1. options' = options
      BY <1>8 DEF OnTimer
    <2>2. \/ execute(x) /\ ~SkipBecauseOverlap(x)
          \/ UNCHANGED <<phase, invoked, running>>
      BY <1>8 DEF OnTimer
    <2>3. CASE UNCHANGED <<phase, invoked, running>>
      BY <2>1, <2>3, SerialUnchanged
    <2>4. CASE execute(x) /\ ~SkipBecauseOverlap(x)
      <3>1. PICK n \in Invocations :
               /\ phase[n] = "free"
               /\ phase' = [phase EXCEPT ![n] = "sync"]
               /\ invoked' = [invoked EXCEPT ![n] = x]
        BY <2>4 DEF execute
      <3>2. running' = [running EXCEPT ![x] = TRUE]
        BY <2>4 DEF execute
      <3>3. ~options[x].allowOverlap => ~running[x]
        BY <2>4 DEF SkipBecauseOverlap
      <3>4. InvokedOK'
        BY <3>1 DEF SerialInv, InvokedOK, TypeOK
      <3>5. ASSUME NEW o \in Objects PROVE SerialOf(o)'
        <4>1. CASE o = x
          <5>1. ~options[x].allowOverlap =>
                   \A i \in Invocations : phase[i] # "free" => invoked[i] # x
            BY <3>3 DEF SerialInv, SerialOf
          <5> QED BY <4>1, <5>1, <2>1, <3>1, <3>2 DEF SerialOf, TypeOK
        <4>2. CASE o # x
          BY <4>2, <2>1, <3>1, <3>2 DEF SerialInv, SerialOf, TypeOK
        <4> QED BY <4>1, <4>2
      <3> QED BY <3>4, <3>5 DEF SerialInv
    <2> QED BY <2>2, <2>3, <2>4
  <1>9. ASSUME NEW i \in Invocations, TaskYields(i) PROVE SerialInv'
    BY <1>9 DEF TaskYields, SerialInv, InvokedOK, SerialOf, TypeOK
  <1>10. ASSUME NEW i \in Invocations, TaskSettles(i) PROVE SerialInv'
    <2>1. /\ phase' = [phase EXCEPT ![i] = "free"]
          /\ invoked' = [invoked EXCEPT ![i] = NoObject]
          /\ running' = [running EXCEPT ![invoked[i]] = FALSE]
          /\ options' = options /\ phase[i] # "free"
      BY <1>10 DEF TaskSettles
    <2>2. \A j \in Invocations \ {i} : phase'[j] = phase[j] /\ invoked'[j] = invoked[j]
      BY <2>1 DEF TypeOK
    <2>3. phase'[i] = "free"
      BY <2>1 DEF TypeOK
    <2>4. \A o \in Objects : o # invoked[i] => running'[o] = running[o]
      BY <2>1 DEF TypeOK
    <2> QED BY <2>1, <2>2, <2>3, <2>4 DEF SerialInv, InvokedOK, SerialOf
  <1>11. ASSUME Tick PROVE SerialInv'
    BY <1>11, SerialUnchanged DEF Tick
  <1>12. ASSUME ClockJump PROVE SerialInv'
    BY <1>12, SerialUnchanged DEF ClockJump
  <1>13. ASSUME UNCHANGED vars PROVE SerialInv'
    BY <1>13, SerialUnchanged DEF vars
  <1> QED BY <1>1, <1>2, <1>3, <1>4, <1>5, <1>6, <1>7, <1>8, <1>9, <1>10, <1>11,
             <1>12, <1>13 DEF Next

\* "A schedule therefore never runs concurrently with itself": a registration
\* without allowOverlap has at most one unfinished invocation.
THEOREM NoSelfOverlapHolds == Spec => []NoSelfOverlap
  <1>1. SerialInv => NoSelfOverlap
    BY DEF SerialInv, InvokedOK, SerialOf, NoSelfOverlap
  <1> QED BY <1>1, TypeCorrect, SerialInvInit, SerialInvNext, PTL DEF Spec

-----------------------------------------------------------------------------
(* Draining: the invariant behind StopDrains.                                *)

\* While an external stop() is pending and start() was not called, the
\* scheduler is stopped and the stop waits for everything unfinished.
DrainOf(c) ==
    c \in stopping \ restarted =>
        /\ ~started
        /\ \A i \in Invocations : phase[i] # "free" => phase[i] = "async" /\ i \in awaited[c]

DrainInv == \A c \in External : DrainOf(c)

\* A step that starts, settles and stops nothing.
LEMMA DrainUnchanged ==
    ASSUME DrainInv, UNCHANGED <<started, phase, stopping, awaited, restarted>>
    PROVE  DrainInv'
  BY DEF DrainInv, DrainOf

\* The invariant is inductive.
LEMMA DrainInvNext == TypeOK /\ TimerInv /\ DrainInv /\ [Next]_vars => DrainInv'
  <1> SUFFICES ASSUME TypeOK, TimerInv, DrainInv, [Next]_vars PROVE DrainInv'
    OBVIOUS
  <1>1. ASSUME NEW id \in Ids, NEW s \in Schedules, NEW opt \in Options, Schedule(id, s, opt)
        PROVE  DrainInv'
    BY <1>1, DrainUnchanged DEF Schedule
  <1>2. ASSUME NEW id \in Ids, Unschedule(id) PROVE DrainInv'
    BY <1>2, DrainUnchanged DEF Unschedule
  <1>3. ASSUME NEW id \in Ids, NEW s \in Schedules, Reschedule(id, s) PROVE DrainInv'
    BY <1>3, DrainUnchanged DEF Reschedule
  <1>4. ASSUME NEW id \in Ids, RescheduleInvalid(id) PROVE DrainInv'
    BY <1>4, DrainUnchanged DEF RescheduleInvalid
  <1>5. ASSUME Start PROVE DrainInv'
    BY <1>5 DEF Start, DrainInv, DrainOf
  <1>6. ASSUME NEW d \in Callers, Stop(d) PROVE DrainInv'
    <2> SUFFICES ASSUME NEW c \in External PROVE DrainOf(c)'
      BY DEF DrainInv
    <2>1. /\ ~started' /\ phase' = phase /\ stopping' = stopping \cup {d}
          /\ restarted' = restarted \ {d}
          /\ awaited' = [awaited EXCEPT ![d] = inFlightInvocations]
      BY <1>6 DEF Stop
    <2>2. CASE c = d
      <3>1. StackEmpty
        BY <1>6, <2>2 DEF Stop
      <3>2. awaited'[c] = inFlightInvocations
        BY <2>1, <2>2 DEF TypeOK
      <3>3. \A i \in Invocations : phase[i] # "free" => phase[i] = "async"
        BY <3>1 DEF StackEmpty, TypeOK
      <3> QED BY <2>1, <3>2, <3>3 DEF DrainOf, inFlightInvocations
    <2>3. CASE c # d
      BY <2>1, <2>3 DEF DrainInv, DrainOf, TypeOK, Callers
    <2> QED BY <2>2, <2>3
  <1>7. ASSUME NEW d \in Callers, StopReturns(d) PROVE DrainInv'
    BY <1>7 DEF StopReturns, DrainInv, DrainOf
  <1>8. ASSUME NEW o \in Objects, NEW p \in timing[o].pending, OnTimer(o, p) PROVE DrainInv'
    <2>1. started
      BY DEF TimerInv, TimersOf
    <2> QED BY <1>8, <2>1 DEF OnTimer, DrainInv, DrainOf
  <1>9. ASSUME NEW i \in Invocations, TaskYields(i) PROVE DrainInv'
    BY <1>9 DEF TaskYields, DrainInv, DrainOf, TypeOK
  <1>10. ASSUME NEW i \in Invocations, TaskSettles(i) PROVE DrainInv'
    BY <1>10 DEF TaskSettles, DrainInv, DrainOf, TypeOK, Callers
  <1>11. ASSUME Tick PROVE DrainInv'
    BY <1>11, DrainUnchanged DEF Tick
  <1>12. ASSUME ClockJump PROVE DrainInv'
    BY <1>12, DrainUnchanged DEF ClockJump
  <1>13. ASSUME UNCHANGED vars PROVE DrainInv'
    BY <1>13, DrainUnchanged DEF vars
  <1> QED BY <1>1, <1>2, <1>3, <1>4, <1>5, <1>6, <1>7, <1>8, <1>9, <1>10, <1>11,
             <1>12, <1>13 DEF Next

\* A caller leaves the stopping set only through StopReturns.
LEMMA OnlyStopReturns ==
    ASSUME TypeOK, DrainInv, [Next]_vars, NEW c \in External,
           c \in stopping \ stopping', c \notin restarted
    PROVE  ~started /\ \A i \in Invocations : phase[i] = "free"
  <1>1. StopReturns(c)
    <2>1. PICK d \in Callers : StopReturns(d)
      BY DEF Next, vars, Schedule, Unschedule, Reschedule, RescheduleInvalid, Start,
             Stop, OnTimer, TaskYields, TaskSettles, Tick, ClockJump
    <2>2. d = c
      BY <2>1 DEF StopReturns
    <2> QED BY <2>1, <2>2
  <1>2. awaited[c] = {}
    BY <1>1 DEF StopReturns
  <1> QED BY <1>2 DEF DrainInv, DrainOf

\* A resolved stop() leaves nothing running and nothing that could run.
THEOREM StopDrainsHolds == Spec => StopDrains
  <1>1. Init => DrainInv
    BY DEF Init, DrainInv, DrainOf
  <1>2. Spec => []DrainInv
    BY <1>1, TypeCorrect, TimerInvCorrect, DrainInvNext, PTL DEF Spec
  <1>3. TypeOK /\ DrainInv /\ [Next]_vars => [StopReturnsDrained]_vars
    BY OnlyStopReturns DEF StopReturnsDrained
  <1> QED BY <1>2, <1>3, TypeCorrect, PTL DEF Spec, StopDrains

-----------------------------------------------------------------------------
(* The scheduler implements RuntimeServer.                                   *)

Working  == {i \in Invocations : phase[i] # "free"}
Awaiting == (stopping \cap External) \ restarted

\* What the contract sees is unchanged; so it is after a step that starts, settles and
\* stops nothing.
LEMMA ContractSees ==
    ASSUME UNCHANGED <<started, Working, Awaiting>>
    PROVE  UNCHANGED Contract!contractVars
  BY DEF Contract!contractVars, Working, Awaiting

LEMMA ContractStutters ==
    ASSUME UNCHANGED <<started, phase, stopping, restarted>>
    PROVE  UNCHANGED Contract!contractVars
  BY DEF Contract!contractVars

\* The steps of the contract, in the terms of the scheduler.
LEMMA ContractTerms ==
    /\ Contract!StartResolves <=> ~started /\ started' = TRUE /\ Awaiting' = {} /\ UNCHANGED Working
    /\ \A w : Contract!Begin(w) <=> /\ started /\ w \notin Working /\ Working' = Working \cup {w}
                                    /\ UNCHANGED <<started, Awaiting>>
    /\ \A w : Contract!End(w) <=> w \in Working /\ Working' = Working \ {w} /\ UNCHANGED <<started, Awaiting>>
    /\ \A C : Contract!StopCalled(C) <=> started' = FALSE /\ Awaiting' = Awaiting \cup C /\ UNCHANGED Working
    /\ \A c : Contract!StopIsOver(c) <=> /\ c \in Awaiting /\ ~started /\ (Working = {} \/ FALSE) /\ Working' = {}
                                         /\ Awaiting' = Awaiting \ {c} /\ UNCHANGED started
  BY DEF Contract!StartResolves, Contract!Begin, Contract!End, Contract!StopCalled,
         Contract!StopIsOver, Working, Awaiting

\* Every step of the scheduler is a step of the contract or a stutter.
LEMMA ContractStep ==
    ASSUME TypeOK, TimerInv, DrainInv, [Next]_vars
    PROVE  [Contract!ContractNext]_(Contract!contractVars)
  <1> DEFINE Goal == Contract!ContractNext \/ UNCHANGED Contract!contractVars
  <1> SUFFICES Goal
    OBVIOUS
  <1>1. ASSUME NEW id \in Ids, NEW s \in Schedules, NEW opt \in Options, Schedule(id, s, opt)
        PROVE  Goal
    BY <1>1, ContractStutters DEF Schedule
  <1>2. ASSUME NEW id \in Ids, Unschedule(id) PROVE Goal
    BY <1>2, ContractStutters DEF Unschedule
  <1>3. ASSUME NEW id \in Ids, NEW s \in Schedules, Reschedule(id, s) PROVE Goal
    BY <1>3, ContractStutters DEF Reschedule
  <1>4. ASSUME NEW id \in Ids, RescheduleInvalid(id) PROVE Goal
    BY <1>4, ContractStutters DEF RescheduleInvalid
  <1>5. ASSUME Start PROVE Goal
    <2>1. ~started /\ started' = TRUE /\ restarted' = stopping /\ UNCHANGED <<phase, stopping>>
      BY <1>5 DEF Start
    <2>2. Contract!StartResolves
      BY <2>1, ContractTerms DEF Working, Awaiting
    <2> QED BY <2>2 DEF Contract!ContractNext
  <1>6. ASSUME NEW d \in Callers, Stop(d) PROVE Goal
    <2>1. /\ started' = FALSE /\ phase' = phase /\ stopping' = stopping \cup {d}
          /\ restarted' = restarted \ {d} /\ d \notin stopping
      BY <1>6 DEF Stop
    <2>2. {d} \cap External \in SUBSET External
      OBVIOUS
    <2>3. Working' = Working
      BY <2>1 DEF Working
    <2>4. Awaiting' = Awaiting \cup ({d} \cap External)
      BY <2>1 DEF Awaiting
    <2>5. Contract!StopCalled({d} \cap External)
      BY <2>1, <2>3, <2>4, ContractTerms
    <2> QED BY <2>2, <2>5 DEF Contract!ContractNext
  <1>7. ASSUME NEW d \in Callers, StopReturns(d) PROVE Goal
    <2>1. /\ d \in stopping /\ awaited[d] = {} /\ stopping' = stopping \ {d} /\ restarted' = restarted \ {d}
          /\ UNCHANGED <<started, phase>>
      BY <1>7 DEF StopReturns
    <2>2. Working' = Working
      BY <2>1 DEF Working
    <2>3. Awaiting' = Awaiting \ {d}
      BY <2>1 DEF Awaiting
    <2>4. CASE d \in Awaiting
      <3>1. d \in External /\ d \in stopping \ restarted
        BY <2>4 DEF Awaiting
      <3>2. ~started /\ \A i \in Invocations : phase[i] = "free"
        BY <2>1, <3>1 DEF DrainInv, DrainOf
      <3>3. Working = {}
        BY <3>2 DEF Working
      <3>4. Contract!StopIsOver(d)
        BY <2>1, <2>2, <2>3, <2>4, <3>2, <3>3, ContractTerms
      <3> QED BY <3>1, <3>4 DEF Contract!ContractNext
    <2>5. CASE d \notin Awaiting
      <3>1. Awaiting' = Awaiting
        BY <2>3, <2>5
      <3> QED BY <2>1, <2>2, <3>1, ContractSees
    <2> QED BY <2>4, <2>5
  <1>8. ASSUME NEW o \in Objects, NEW p \in timing[o].pending, OnTimer(o, p) PROVE Goal
    <2>1. started
      BY DEF TimerInv, TimersOf
    <2>2. UNCHANGED <<started, stopping, restarted>>
      BY <1>8 DEF OnTimer
    <2>3. CASE UNCHANGED phase
      BY <2>2, <2>3, ContractStutters
    <2>4. CASE ~UNCHANGED phase
      <3>1. execute(o)
        BY <1>8, <2>4 DEF OnTimer
      <3>2. PICK i \in Invocations : phase[i] = "free" /\ phase' = [phase EXCEPT ![i] = "sync"]
        BY <3>1 DEF execute
      <3>3. i \notin Working /\ Working' = Working \cup {i}
        BY <3>2 DEF Working, TypeOK
      <3>4. Awaiting' = Awaiting
        BY <2>2 DEF Awaiting
      <3>5. Contract!Begin(i)
        BY <2>1, <2>2, <3>3, <3>4, ContractTerms
      <3> QED BY <3>5 DEF Contract!ContractNext
    <2> QED BY <2>3, <2>4
  <1>9. ASSUME NEW i \in Invocations, TaskYields(i) PROVE Goal
    <2>1. Working' = Working
      BY <1>9 DEF TaskYields, Working, TypeOK
    <2>2. UNCHANGED <<started, stopping, restarted>>
      BY <1>9 DEF TaskYields
    <2> QED BY <2>1, <2>2, ContractSees DEF Awaiting
  <1>10. ASSUME NEW i \in Invocations, TaskSettles(i) PROVE Goal
    <2>1. i \in Working /\ Working' = Working \ {i}
      BY <1>10 DEF TaskSettles, Working, TypeOK
    <2>2. UNCHANGED <<started, stopping, restarted>>
      BY <1>10 DEF TaskSettles
    <2>3. Contract!End(i)
      BY <2>1, <2>2, ContractTerms DEF Awaiting
    <2> QED BY <2>3 DEF Contract!ContractNext
  <1>11. ASSUME Tick PROVE Goal
    BY <1>11, ContractStutters DEF Tick
  <1>12. ASSUME ClockJump PROVE Goal
    BY <1>12, ContractStutters DEF ClockJump
  <1>13. ASSUME UNCHANGED vars PROVE Goal
    BY <1>13, ContractStutters DEF vars
  <1> QED BY <1>1, <1>2, <1>3, <1>4, <1>5, <1>6, <1>7, <1>8, <1>9, <1>10, <1>11,
             <1>12, <1>13 DEF Next

\* LocalSchedulerManager is the server p:start and the shutdown hooks take it for: the
\* scheduler implements RuntimeServer.
THEOREM SchedulerImplementsContract == Spec => SchedulerKeepsContract
  <1>1. Init => Contract!ContractInit
    BY DEF Init, Contract!ContractInit
  <1>2. Init => DrainInv
    BY DEF Init, DrainInv, DrainOf
  <1>3. Spec => []DrainInv
    BY <1>2, TypeCorrect, TimerInvCorrect, DrainInvNext, PTL DEF Spec
  <1>4. TypeOK /\ TimerInv /\ DrainInv /\ [Next]_vars => [Contract!ContractNext]_(Contract!contractVars)
    BY ContractStep
  <1> QED BY <1>1, <1>3, <1>4, TypeCorrect, TimerInvCorrect, PTL DEF Spec, SchedulerKeepsContract, Contract!ContractSpec
=============================================================================
