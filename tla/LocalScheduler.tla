--------------------------- MODULE LocalScheduler ---------------------------
(***************************************************************************)
(* The in-process scheduler of packages/local-scheduling:                  *)
(* LocalSchedulerManager, the state objects it keeps per registration, the *)
(* platform timers it arms and the task invocations it starts.             *)
(*                                                                         *)
(* JavaScript runs one callback at a time, so each public method and the   *)
(* timer callback is one step, with one exception: fire() calls the task   *)
(* synchronously, and the task may call the scheduler back before its      *)
(* first await.  That window is the phase "sync" of an invocation.         *)
(*                                                                         *)
(* Time is counted in milliseconds.  `now' is Date.now(); a pending timer  *)
(* carries the delay it has left on the platform's monotonic clock, so the *)
(* wall clock may jump without the timers noticing.                        *)
(***************************************************************************)
EXTENDS Naturals, FiniteSets, Sequences

CONSTANTS
    Ids,                \* registration ids
    Schedules,          \* the ScheduleInterface values callers may pass
    NextExecutionDate,  \* NextExecutionDate[s][t]: getNextExecutionDate(t) of schedule s
    Options,            \* the ScheduleOptions callers may pass
    DefaultOptions,     \* the options of a tagged task (none given)
    Schedulables,       \* tagged tasks: each a sequence of the ids its schedules get
    TaggedSchedule,     \* the schedule declared for a tagged id
    External,           \* callers of stop() outside any task
    SelfStopPhases,     \* phases in which a task may await stop(): subset of {"sync", "async"}
    InvalidInput,       \* whether callers may pass a malformed cron string
    JumpTargets,        \* instants the wall clock may be set to
    MAX_TIMEOUT_DELAY,  \* longest delay one setTimeout takes
    MaxTime,            \* bound: the wall clock stops here
    MaxInFlight         \* bound: invocations unfinished at any time

Undefined == 0

Times == 0 .. MaxTime

ScheduleOptions ==
    [allowOverlap : BOOLEAN, catchUp : BOOLEAN, missedThreshold : Nat]

ASSUME SchedulerAssumption ==
    /\ MaxTime \in Nat
    /\ MaxInFlight \in Nat \ {0}
    /\ MAX_TIMEOUT_DELAY \in Nat \ {0}
    /\ JumpTargets \subseteq Times
    /\ Options \subseteq ScheduleOptions
    /\ DefaultOptions \in ScheduleOptions
    /\ Schedulables \subseteq Seq(Ids)
    /\ Schedules # {}
    /\ TaggedSchedule \in [Ids -> Schedules]
    /\ InvalidInput \in BOOLEAN
    /\ SelfStopPhases \subseteq {"sync", "async"}

\* A date, or none.  ScheduleInterface promises one strictly after `from', which
\* CronExpression breaks where the local time is set back: nothing is assumed of it.
ASSUME NextExecutionDateAssumption == NextExecutionDate \in [Schedules -> [Times -> Times]]

Invocations == 1 .. MaxInFlight
Callers     == External \cup Invocations

ASSUME CallersAssumption == External \cap Invocations = {}

\* A state object is named by its id and a generation: unschedule() followed by
\* schedule() under the same id makes a second object while an invocation may
\* still hold the first.  One more generation than invocations always suffices.
Generations == 1 .. MaxInFlight + 1
Objects     == Ids \X Generations

NoObject    == <<>>

Handles == 1 .. 2
Timing  == [timeout : Handles \cup {Undefined},
            pending : SUBSET [handle : Handles, left : 0 .. MAX_TIMEOUT_DELAY],
            target  : Times]

VARIABLES
    now,        \* Date.now()
    started,    \* LocalSchedulerManager.started
    states,     \* states: the generation registered under an id, Undefined if none
    schedule,   \* ScheduleState.schedule
    options,    \* ScheduleState.allowOverlap, catchUp, missedExecutionThreshold...
    timing,     \* ScheduleState.timeout and armedTargetEpoch/nextExecutionDate, and
                \* the platform timers that will call onTimer(state)
    running,    \* ScheduleState.running
    phase,      \* of an invocation: "free", "sync" (before its first await), "async"
    invoked,    \* the state object an invocation belongs to
    stopping,   \* callers whose stop() has not resolved
    awaited,    \* the invocations a pending stop() still waits for
    restarted,  \* history: callers during whose pending stop() start() was called
    lastFire    \* history: of the last occurrence handled since arm() armed the
                \* object, the later of its target and the time it was handled at

vars == <<now, started, states, schedule, options, timing, running, phase,
          invoked, stopping, awaited, restarted, lastFire>>

Registered(o) == states[o[1]] = o[2]

\* Mutant: the scheduler tracks the invocations of registered schedules only.
inFlightOfRegistered == {i \in Invocations : phase[i] = "async" /\ Registered(invoked[i])}

\* Mutant: the invocation is tracked before the task is called.
inFlightBeforeCall == {i \in Invocations : phase[i] # "free"}

\* inFlightInvocations: an invocation is added when the task's synchronous
\* prefix returns and deleted when its promise settles.
inFlightInvocations == {i \in Invocations : phase[i] = "async"}

Unfinished(o) == {i \in Invocations : phase[i] # "free" /\ invoked[i] = o}

\* No task is on the stack: the event loop may run another callback.
StackEmpty == \A i \in Invocations : phase[i] # "sync"

NeverFired    == 0
SomeSchedule  == CHOOSE s \in Schedules : TRUE
UnarmedTiming == [timeout |-> Undefined, pending |-> {}, target |-> Undefined]

-----------------------------------------------------------------------------
(* The private helpers, as functions of one object's timing. *)

MaxOf(a, b) == IF a > b THEN a ELSE b
MinOf(a, b) == IF a < b THEN a ELSE b

\* Mutant: the handle is dropped without clearTimeout().
clearTimerKeepsTimer(t) == [t EXCEPT !.timeout = Undefined]

clearTimer(t) ==
    IF t.timeout = Undefined THEN t
    ELSE [t EXCEPT !.pending = {p \in @ : p.handle # t.timeout},
                   !.timeout = Undefined]

\* Mutant: the delay is not chunked.
setTimeoutUnchunked(t) ==
    [t EXCEPT !.timeout = 1,
              !.pending = {[handle |-> 1,
                            left |-> IF t.target > now THEN t.target - now ELSE 0]}]

setChunkedTimeout(t) ==
    IF t.target = Undefined THEN t
    ELSE LET delay == IF t.target > now THEN t.target - now ELSE 0
             handle == IF \E p \in t.pending : p.handle = 1 THEN 2 ELSE 1
         IN  [t EXCEPT !.timeout = handle,
                       !.pending = @ \cup {[handle |-> handle,
                                            left |-> MinOf(delay, MAX_TIMEOUT_DELAY)]}]

armFrom(t, s, base) ==
    LET next == NextExecutionDate[s][base]
    IN  IF next = Undefined THEN [t EXCEPT !.target = Undefined]
                            ELSE setChunkedTimeout([t EXCEPT !.target = next])

arm(t, s) == armFrom(clearTimer(t), s, now)

-----------------------------------------------------------------------------
Init ==
    /\ now = 0
    /\ started = FALSE
    /\ states = [id \in Ids |-> Undefined]
    /\ schedule = [o \in Objects |-> SomeSchedule]
    /\ options = [o \in Objects |-> DefaultOptions]
    /\ timing = [o \in Objects |-> UnarmedTiming]
    /\ running = [o \in Objects |-> FALSE]
    /\ phase = [i \in Invocations |-> "free"]
    /\ invoked = [i \in Invocations |-> NoObject]
    /\ stopping = {}
    /\ awaited = [c \in Callers |-> {}]
    /\ restarted = {}
    /\ lastFire = [o \in Objects |-> NeverFired]

\* A state object nobody refers to, to stand for a newly allocated one.
Unreferenced(o) == ~Registered(o) /\ Unfinished(o) = {}

HasFreshGeneration(id) == \E g \in Generations : Unreferenced(<<id, g>>)
FreshGeneration(id)    == CHOOSE g \in Generations : Unreferenced(<<id, g>>)

-----------------------------------------------------------------------------
(* Public methods.  Each may be called by external code, by a running task, *)
(* or by the task whose synchronous prefix is on the stack.                 *)

\* schedule(): throws, changing nothing, when the id is taken or the cron
\* string is malformed.
Schedule(id, s, opt) ==
    LET o == <<id, FreshGeneration(id)>>
    IN  /\ states[id] = Undefined
        /\ HasFreshGeneration(id)
        /\ states' = [states EXCEPT ![id] = o[2]]
        /\ schedule' = [schedule EXCEPT ![o] = s]
        /\ options' = [options EXCEPT ![o] = opt]
        /\ timing' = [timing EXCEPT ![o] = IF started THEN arm(UnarmedTiming, s)
                                                      ELSE UnarmedTiming]
        /\ running' = [running EXCEPT ![o] = FALSE]
        /\ lastFire' = [lastFire EXCEPT ![o] = NeverFired]
        /\ UNCHANGED <<now, started, phase, invoked, stopping, awaited, restarted>>

\* unschedule(): an in-flight invocation keeps the removed object, of which it
\* only writes `running'.  Of the other fields the model forgets those nobody
\* can read again: the target, the schedule and the history.
Unschedule(id) ==
    LET o == <<id, states[id]>>
    IN  /\ states[id] # Undefined
        /\ timing' = [timing EXCEPT ![o] = [clearTimer(@) EXCEPT !.target = Undefined]]
        /\ states' = [states EXCEPT ![id] = Undefined]
        /\ schedule' = [schedule EXCEPT ![o] = SomeSchedule]
        /\ options' = [options EXCEPT ![o] =
                         [DefaultOptions EXCEPT !.allowOverlap = options[o].allowOverlap]]
        /\ lastFire' = [lastFire EXCEPT ![o] = NeverFired]
        /\ UNCHANGED <<now, started, running, phase, invoked, stopping, awaited,
                       restarted>>

Reschedule(id, s) ==
    LET o == <<id, states[id]>>
        cleared == [clearTimer(timing[o]) EXCEPT !.target = Undefined]
    IN  /\ states[id] # Undefined
        /\ schedule' = [schedule EXCEPT ![o] = s]
        /\ timing' = [timing EXCEPT ![o] = IF started THEN arm(cleared, s) ELSE cleared]
        /\ lastFire' = [lastFire EXCEPT ![o] = NeverFired]
        /\ UNCHANGED <<now, started, states, options, running, phase, invoked,
                       stopping, awaited, restarted>>

\* reschedule() with a malformed cron string: resolveSchedule() throws after
\* clearTimer() has run and before anything else has.
RescheduleInvalid(id) ==
    LET o == <<id, states[id]>>
    IN  /\ InvalidInput
        /\ states[id] # Undefined
        /\ timing' = [timing EXCEPT ![o] = clearTimer(@)]
        /\ UNCHANGED <<now, started, states, schedule, options, running, phase,
                       invoked, stopping, awaited, restarted, lastFire>>

\* registerSchedulables(): the ids it can register.  A taken id is skipped; a
\* task whose getSchedules() throws, or whose n-th schedule is malformed, keeps
\* what it registered before and does not stop the others.
RegistrationOutcomes ==
    LET cuts == {cut \in [Schedulables -> 0 .. Cardinality(Ids)] :
                    \A task \in Schedulables : cut[task] <= Len(task)}
    IN  {{id \in Ids : /\ states[id] = Undefined
                       /\ \E task \in Schedulables : \E n \in 1 .. cut[task] : task[n] = id}
            : cut \in cuts}

StartWith(ids) ==
    LET fresh == {<<id, FreshGeneration(id)>> : id \in ids}
        kept  == {o \in Objects : Registered(o)} \ fresh
    IN  /\ \A id \in ids : HasFreshGeneration(id)
        /\ states' = [id \in Ids |-> IF id \in ids THEN FreshGeneration(id)
                                                   ELSE states[id]]
        /\ schedule' = [o \in Objects |-> IF o \in fresh THEN TaggedSchedule[o[1]]
                                                         ELSE schedule[o]]
        /\ options' = [o \in Objects |-> IF o \in fresh THEN DefaultOptions
                                                        ELSE options[o]]
        /\ running' = [o \in Objects |-> IF o \in fresh THEN FALSE ELSE running[o]]
        /\ timing' = [o \in Objects |->
                        IF o \in fresh THEN arm(UnarmedTiming, TaggedSchedule[o[1]])
                        ELSE IF o \in kept THEN arm(timing[o], schedule[o])
                        ELSE timing[o]]
        /\ lastFire' = [o \in Objects |-> IF o \in fresh \cup kept THEN NeverFired
                                                                  ELSE lastFire[o]]

Start ==
    /\ ~started
    /\ started' = TRUE
    /\ \E ids \in RegistrationOutcomes : StartWith(ids)
    /\ restarted' = stopping
    /\ UNCHANGED <<now, phase, invoked, stopping, awaited>>

\* stop() up to its await, by caller c: an external caller while no task is on
\* the stack, or a task that awaits the result.
Stop(c) ==
    /\ c \notin stopping
    /\ IF c \in External THEN StackEmpty
                         ELSE /\ phase[c] \in SelfStopPhases
                              /\ phase[c] = "sync" \/ StackEmpty
    /\ started' = FALSE
    /\ timing' = [o \in Objects |->
                    IF Registered(o) THEN [clearTimer(timing[o]) EXCEPT !.target = Undefined]
                                     ELSE timing[o]]
    /\ stopping' = stopping \cup {c}
    /\ awaited' = [awaited EXCEPT ![c] = inFlightInvocations]
    /\ restarted' = restarted \ {c}
    /\ UNCHANGED <<now, states, schedule, options, running, phase, invoked, lastFire>>

\* Promise.allSettled() of the snapshot resolves.
StopReturns(c) ==
    /\ c \in stopping
    /\ StackEmpty
    /\ awaited[c] = {}
    /\ stopping' = stopping \ {c}
    /\ restarted' = restarted \ {c}
    /\ UNCHANGED <<now, started, states, schedule, options, timing, running, phase,
                   invoked, awaited, lastFire>>

-----------------------------------------------------------------------------
(* The timer callback: onTimer(), fire() and execute(). *)

\* fire(): whether the occurrence at timing[o].target is run.
SkipBecauseMissed(o) ==
    /\ now > timing[o].target + options[o].missedThreshold
    /\ ~options[o].catchUp

\* Mutant: the option is read the wrong way round.
SkipBecauseOverlapInverted(o) == running[o] /\ options[o].allowOverlap

SkipBecauseOverlap(o) == running[o] /\ ~options[o].allowOverlap

\* fire() re-arms from here, before the task runs.
\* Mutant: from the current time.
RearmFromNow(o) == now

RearmBase(o) == MaxOf(now, timing[o].target)

\* onTimer(): what the callback does once its guards are evaluated.
\* Mutant: a chunk that ends before the target is not followed by another.
TimerIsLiveWhenDue(o) ==
    started /\ timing[o].target # Undefined /\ timing[o].target <= now + 1

TimerIsLive(o) == started /\ timing[o].target # Undefined

TargetAhead(o) == timing[o].target > now + 1

\* execute(), up to the task's synchronous prefix, in the first free slot.
execute(o) ==
    /\ running' = [running EXCEPT ![o] = TRUE]
    /\ \E i \in Invocations :
          /\ phase[i] = "free"
          /\ \A j \in 1 .. i - 1 : phase[j] # "free"
          /\ phase' = [phase EXCEPT ![i] = "sync"]
          /\ invoked' = [invoked EXCEPT ![i] = o]

\* onTimer() and fire().  A timer may run up to one millisecond early by Date.now(), and any time later.
OnTimer(o, p) ==
    LET popped == [timing[o] EXCEPT !.pending = @ \ {p}, !.timeout = Undefined]
        fires  == TimerIsLive(o) /\ ~TargetAhead(o)
        runs   == fires /\ ~SkipBecauseMissed(o) /\ ~SkipBecauseOverlap(o)
    IN  /\ StackEmpty
        /\ p \in timing[o].pending
        /\ p.left <= 1
        /\ timing' = [timing EXCEPT ![o] =
                        IF fires THEN armFrom(popped, schedule[o], RearmBase(o))
                        ELSE IF TimerIsLive(o) THEN setChunkedTimeout(popped)
                        ELSE popped]
        /\ lastFire' = IF fires THEN [lastFire EXCEPT ![o] = MaxOf(now, timing[o].target)]
                                ELSE lastFire
        /\ \/ runs /\ execute(o)
           \/ ~runs /\ UNCHANGED <<phase, invoked, running>>
        /\ UNCHANGED <<now, started, states, schedule, options, stopping, awaited,
                       restarted>>

\* The task's synchronous prefix returns: execute() adds the invocation to
\* inFlightInvocations.
TaskYields(i) ==
    /\ phase[i] = "sync"
    /\ phase' = [phase EXCEPT ![i] = "async"]
    /\ UNCHANGED <<now, started, states, schedule, options, timing, running, invoked,
                   stopping, awaited, restarted, lastFire>>

\* The task's promise settles, fulfilled or rejected: the finally block resets
\* running and the invocation leaves inFlightInvocations.  A task that awaits
\* its own stop() cannot settle before it returns.
TaskSettles(i) ==
    /\ phase[i] = "async"
    /\ i \notin stopping
    /\ StackEmpty
    /\ running' = [running EXCEPT ![invoked[i]] = FALSE]
    /\ phase' = [phase EXCEPT ![i] = "free"]
    /\ invoked' = [invoked EXCEPT ![i] = NoObject]
    /\ awaited' = [c \in Callers |-> awaited[c] \ {i}]
    /\ UNCHANGED <<now, started, states, schedule, options, timing, stopping,
                   restarted, lastFire>>

-----------------------------------------------------------------------------
(* The environment. *)

Elapse(t) ==
    [t EXCEPT !.pending = {[p EXCEPT !.left = IF @ = 0 THEN 0 ELSE @ - 1] : p \in @}]

Tick ==
    /\ now < MaxTime
    /\ now' = now + 1
    /\ timing' = [o \in Objects |-> Elapse(timing[o])]
    /\ UNCHANGED <<started, states, schedule, options, running, phase, invoked,
                   stopping, awaited, restarted, lastFire>>

\* The wall clock is set, or the host slept: timers keep what they had left.
ClockJump ==
    /\ now' \in JumpTargets \ {now}
    /\ UNCHANGED <<started, states, schedule, options, timing, running, phase, invoked,
                   stopping, awaited, restarted, lastFire>>

Next ==
    \/ \E id \in Ids, s \in Schedules, opt \in Options : Schedule(id, s, opt)
    \/ \E id \in Ids : Unschedule(id)
    \/ \E id \in Ids, s \in Schedules : Reschedule(id, s)
    \/ \E id \in Ids : RescheduleInvalid(id)
    \/ Start
    \/ \E c \in Callers : Stop(c)
    \/ \E c \in Callers : StopReturns(c)
    \/ \E o \in Objects : \E p \in timing[o].pending : OnTimer(o, p)
    \/ \E i \in Invocations : TaskYields(i)
    \/ \E i \in Invocations : TaskSettles(i)
    \/ Tick
    \/ ClockJump

Spec == Init /\ [][Next]_vars

-----------------------------------------------------------------------------
(* Properties. *)

\* Every variable keeps its type; no timer is armed for longer than setTimeout takes.
TypeOK ==
    /\ now \in Times
    /\ started \in BOOLEAN
    /\ states \in [Ids -> Generations \cup {Undefined}]
    /\ schedule \in [Objects -> Schedules]
    /\ options \in [Objects -> ScheduleOptions]
    /\ timing \in [Objects -> Timing]
    /\ running \in [Objects -> BOOLEAN]
    /\ phase \in [Invocations -> {"free", "sync", "async"}]
    /\ invoked \in [Invocations -> Objects \cup {NoObject}]
    /\ stopping \subseteq Callers
    /\ awaited \in [Callers -> SUBSET Invocations]
    /\ restarted \subseteq Callers
    /\ lastFire \in [Objects -> Times]

\* Every platform timer that will call onTimer(state) is the one state.timeout
\* holds, and it exists only while the scheduler is started and the state is
\* registered: no timer leaks when one is re-armed, cancelled by unschedule()
\* or reschedule() (the task's own synchronous call included), and none fires
\* after stop() ("no further fires occur after stop() returns").
TimerDiscipline ==
    \A o \in Objects : \A p \in timing[o].pending :
        /\ p.handle = timing[o].timeout
        /\ \A q \in timing[o].pending : p = q
        /\ started
        /\ Registered(o)
        /\ timing[o].target # Undefined

\* A registration whose options do not allow overlap never has two unfinished
\* invocations, across stop()/start(), reschedule(), late timers and failures.
NoSelfOverlap ==
    \A i, j \in Invocations :
        /\ phase[i] # "free"
        /\ phase[j] # "free"
        /\ invoked[i] = invoked[j]
        /\ ~options[invoked[i]].allowOverlap
        => i = j

\* Whether schedule s keeps the interface's promise at the instant it is asked from.
KeepsItsPromise(s, from) == NextExecutionDate[s][from] > from

\* The occurrence a timer works towards is later than the last one handled and
\* later than the time it was handled at: fire() never selects an occurrence
\* twice, early timers and clock changes notwithstanding, and missed
\* occurrences collapse into a single catch-up.  The one exception is a schedule
\* that, asked from that very time, answers with a date that is not later.
OccurrencesInOrder ==
    \A o \in Objects :
        timing[o].pending # {} /\ KeepsItsPromise(schedule[o], lastFire[o])
            => timing[o].target > lastFire[o]

StopReturnsDrained ==
    \A c \in External :
        c \in stopping \ stopping' /\ c \notin restarted
        => ~started /\ \A i \in Invocations : phase[i] = "free"

\* When a stop() called from outside the tasks resolves, and start() was not
\* called meanwhile, no invocation is unfinished and none can begin: the
\* graceful shutdown LocalSchedulingModule.onShutdown relies on.
StopDrains == [][StopReturnsDrained]_vars

\* LocalSchedulerRuntimeServer keeps the contract of a runtime server, whoever else
\* starts and stops the scheduler and whatever its tasks do: no task begins unless
\* the scheduler is started, and a stop() from outside resolves only when every
\* invocation has settled by itself, unless start() was called meanwhile.
Contract ==
    INSTANCE RuntimeServer WITH
        Items <- Invocations, Awaiters <- External, CutsOff <- FALSE,
        accepting <- started, working <- {i \in Invocations : phase[i] # "free"},
        awaiting <- (stopping \cap External) \ restarted
SchedulerKeepsContract == Contract!ContractSpec

-----------------------------------------------------------------------------
(* Liveness: the event loop runs due timers and ready continuations, time     *)
(* passes, and every task settles.  Nobody is obliged to call the scheduler.  *)

Fairness ==
    /\ WF_vars(Tick)
    /\ \A o \in Objects : WF_vars(\E p \in timing[o].pending : OnTimer(o, p))
    /\ \A i \in Invocations : WF_vars(TaskYields(i)) /\ WF_vars(TaskSettles(i))
    /\ \A c \in Callers : WF_vars(StopReturns(c))

FairSpec == Spec /\ Fairness

\* Every stop() resolves, the one a task awaits from its synchronous prefix too.
StopResolves == \A c \in Callers : (c \in stopping) ~> (c \notin stopping)

\* Every armed occurrence is handled, or its schedule is replaced, removed or
\* stopped: no chunked, early or late timer loses it.
OccurrenceHandled ==
    \A o \in Objects, t \in Times \ {Undefined} :
        (started /\ Registered(o) /\ timing[o].target = t)
            ~> ~(started /\ Registered(o) /\ timing[o].target = t)
=============================================================================
