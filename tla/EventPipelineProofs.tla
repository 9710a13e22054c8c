------------------------ MODULE EventPipelineProofs ------------------------
(***************************************************************************)
(* Theorems about EventPipeline for every number of calls, every set of    *)
(* plans, and with nested calls and dying executors allowed; and, for      *)
(* calls that come one at a time, that each trace is the one of its call.  *)
(***************************************************************************)
EXTENDS EventPipeline, FiniteSetTheorems, TLAPS

-----------------------------------------------------------------------------
(* The events of a plan.                                                   *)

\* An event of a plan is named by its call, a batch and a place in it.
LEMMA EventShape ==
    ASSUME NEW h \in Handles, NEW p, NEW e \in EventsOf(h, p)
    PROVE  \E b \in 1..Len(p) : \E k \in 1..p[b].size : e = <<h, b, k>>
  BY DEF EventsOf

\* The events of the plans are the events the variables are indexed by.
LEMMA EventOfPlan ==
    ASSUME NEW h \in Handles, NEW p \in Plans, NEW e \in EventsOf(h, p)
    PROVE  e \in AllEvents
  BY DEF AllEvents

\* Every event belongs to one of the calls.
LEMMA EventHasCall ==
    ASSUME NEW e \in AllEvents
    PROVE  e[1] \in Handles
  <1>1. PICK h \in Handles, p \in Plans : e \in EventsOf(h, p)
    BY DEF AllEvents
  <1>2. QED  BY <1>1, EventShape

\* The places before an event of a batch are events of the same plan.
LEMMA EarlierPlace ==
    ASSUME NEW h \in Handles, NEW p \in Plans, NEW e \in EventsOf(h, p)
    PROVE  /\ e[1] = h
           /\ e[3] \in Nat \ {0}
           /\ \A k \in 1..(e[3] - 1) : <<h, e[2], k>> \in EventsOf(h, p)
  <1>1. PICK b \in 1..Len(p) : \E k \in 1..p[b].size : e = <<h, b, k>>
    BY EventShape
  <1>2. PICK k \in 1..p[b].size : e = <<h, b, k>>
    BY <1>1
  <1>3. p \in Seq(Batch) /\ p[b] \in Batch
    BY PlansAssumption
  <1>4. p[b].size \in Nat
    BY <1>3 DEF Batch
  <1>5. \A j \in 1..(k - 1) : j \in 1..p[b].size
    BY <1>2, <1>4
  <1>6. \A j \in 1..(k - 1) : <<h, b, j>> \in EventsOf(h, p)
    BY <1>5 DEF EventsOf
  <1>7. QED  BY <1>2, <1>4, <1>6

\* A plan has no events when it is empty.
LEMMA NoEventsYet ==
    ASSUME NEW h \in Handles
    PROVE  EventsOf(h, <<>>) = {}
  BY DEF EventsOf

-----------------------------------------------------------------------------
(* Type correctness.                                                       *)

\* Once a call was made the root manager has a trace.
TraceStarted == (\E h \in Handles : pc[h] # "idle") => trace # NoHandle

\* Until a call maps its event it has no plan and none of its events ran.
NothingStarted ==
    \A h \in Handles : pc[h] \in {"idle", "preMapping"}
        => /\ plan[h] = <<>>
           /\ \A e \in AllEvents : e[1] = h => status[e] = "waiting"

TypeInv == TypeOK /\ TraceStarted /\ NothingStarted

\* Starting events keeps their statuses and contexts typed, and touches only
\* the events it starts.
LEMMA LaunchType ==
    ASSUME TypeOK, NEW h \in Handles, NEW E \in SUBSET AllEvents,
           NEW root \in Handles, NEW active \in Handles,
           NEW context \in [AllEvents -> Handles \cup {NoHandle}],
           launch(h, E, root, active, context)
    PROVE  /\ status' \in [AllEvents -> EventStates]
           /\ ctxTrace' \in [AllEvents -> Handles \cup {NoHandle}]
           /\ (spans \subseteq Handles \X Handles)'
           /\ \A e \in AllEvents \ E : status'[e] = status[e]
           /\ \A e \in E : status'[e] \in {"intercepting", "hung"}
  <1>1. PICK stuck :
          /\ status' = [e \in AllEvents |->
                          IF e \notin E THEN status[e]
                          ELSE IF e \in stuck THEN "hung" ELSE "intercepting"]
          /\ ctxTrace' = [e \in AllEvents |->
                            IF e \in E \ stuck THEN root ELSE context[e]]
          /\ spans' = spans \cup {<<h, active>>}
                            \cup (IF E = stuck THEN {} ELSE {<<h, root>>})
    BY DEF launch
  <1>2. status' \in [AllEvents -> EventStates]
    BY <1>1 DEF TypeOK, EventStates
  <1>3. ctxTrace' \in [AllEvents -> Handles \cup {NoHandle}]
    BY <1>1
  <1>4. (spans \subseteq Handles \X Handles)'
    BY <1>1 DEF TypeOK
  <1>5. QED  BY <1>1, <1>2, <1>3, <1>4

\* While a call is in progress, the active trace of every context is a trace.
LEMMA ActiveTraceType ==
    ASSUME TypeOK, trace # NoHandle, NEW c \in AllEvents \cup {NoEvent}
    PROVE  getActiveTrace(c) \in Handles
  BY DEF TypeOK, getActiveTrace

\* Ending a trace that exists keeps the counts typed, and right.
LEMMA EndTraceType ==
    ASSUME TypeOK, NEW t \in Handles, endTrace(t)
    PROVE  /\ ended' \subseteq Handles /\ emitted' \in [Handles -> Nat]
           /\ TraceEndsOnce => TraceEndsOnce'
  <1>1. CASE t \in ended
    BY <1>1 DEF endTrace, TypeOK, TraceEndsOnce
  <1>2. CASE t \notin ended
    BY <1>2 DEF endTrace, TypeOK, TraceEndsOnce
  <1>3. QED  BY <1>1, <1>2

\* A call whose caller is an event in progress was made after another call.
LEMMA CallerStarted ==
    ASSUME TypeInv, NEW e \in AllEvents, status[e] # "waiting"
    PROVE  trace # NoHandle /\ pc[e[1]] \notin {"idle", "preMapping"}
  BY EventHasCall DEF TypeInv, NothingStarted, TraceStarted, TypeOK

\* Before the first call there is no trace and no plan.
LEMMA InitType == Init => TypeInv
  BY PlansAssumption, NamesAssumption
     DEF Init, TypeInv, TypeOK, TraceStarted, NothingStarted, HandleStates, EventStates

\* A new call: outside an EventContext it brings its own trace, inside there is one.
LEMMA HandleType ==
    ASSUME TypeInv, NEW h \in Handles, NEW c \in AllEvents \cup {NoEvent},
           NEW typed \in BOOLEAN, Handle(h, c, typed)
    PROVE  TypeInv'
  <1> USE DEF TypeInv
  <1>1. trace' \in Handles
    <2>1. CASE c = NoEvent  BY <2>1 DEF Handle
    <2>2. CASE c # NoEvent
      <3>1. c \in AllEvents /\ status[c] = "dispatching"
        BY <2>2 DEF Handle, Callers
      <3>2. trace # NoHandle
        BY <3>1, CallerStarted
      <3>3. QED  BY <2>2, <3>2 DEF Handle, TypeOK
    <2>3. QED  BY <2>1, <2>2
  <1>2. startTracing(h, c) \in [AllEvents -> Handles \cup {NoHandle}]
    BY DEF startTracing, TypeOK
  <1>3. TypedPlan \in Plans /\ FirstEvents(h, TypedPlan) \in SUBSET AllEvents
    BY PlansAssumption, EventOfPlan DEF FirstEvents
  <1>4. /\ caller' \in [Handles -> AllEvents \cup {NoEvent}]
        /\ initializationSpan' \in Handles \cup {"pending"}
        /\ pc' \in [Handles -> HandleStates]
        /\ UNCHANGED <<ended, emitted, listening>>
    BY DEF Handle, TypeOK, HandleStates
  <1>5. CASE typed
    <2>1. /\ launch(h, FirstEvents(h, TypedPlan), trace', h, startTracing(h, c))
          /\ plan' = [plan EXCEPT ![h] = TypedPlan]
          /\ pc' = [pc EXCEPT ![h] = "executing"]
      BY <1>5 DEF Handle
    <2>2. /\ status' \in [AllEvents -> EventStates]
          /\ ctxTrace' \in [AllEvents -> Handles \cup {NoHandle}]
          /\ (spans \subseteq Handles \X Handles)'
          /\ \A e \in AllEvents \ FirstEvents(h, TypedPlan) : status'[e] = status[e]
      BY <2>1, <1>1, <1>2, <1>3, LaunchType
    <2>3. plan' \in [Handles -> Plans \cup {<<>>}]
      BY <2>1, <1>3 DEF TypeOK
    <2>4. TypeOK'
      BY <1>1, <1>4, <2>2, <2>3 DEF TypeOK
    <2>5. TraceStarted'
      BY <1>1, NamesAssumption DEF TraceStarted
    <2>6. NothingStarted'
      <3> SUFFICES ASSUME NEW g \in Handles, pc'[g] \in {"idle", "preMapping"}
                   PROVE  /\ plan'[g] = <<>>
                          /\ \A e \in AllEvents : e[1] = g => status'[e] = "waiting"
        BY DEF NothingStarted
      <3>1. g # h /\ pc[g] = pc'[g] /\ plan'[g] = plan[g]
        BY <2>1 DEF TypeOK
      <3>2. \A e \in FirstEvents(h, TypedPlan) : e[1] = h
        BY <1>3, EarlierPlace DEF FirstEvents
      <3>3. QED  BY <3>1, <3>2, <2>2 DEF NothingStarted
    <2>7. QED  BY <2>4, <2>5, <2>6
  <1>6. CASE ~typed
    <2>1. /\ pc' = [pc EXCEPT ![h] = "preMapping"]
          /\ pc[h] = "idle"
          /\ ctxTrace' = startTracing(h, c)
          /\ spans' = spans \cup {<<h, h>>}
          /\ UNCHANGED <<plan, status>>
      BY <1>6 DEF Handle
    <2>2. TypeOK'
      BY <1>1, <1>2, <1>4, <2>1 DEF TypeOK
    <2>3. TraceStarted'
      BY <1>1, NamesAssumption DEF TraceStarted
    <2>4. NothingStarted'
      BY <2>1 DEF NothingStarted, TypeOK
    <2>5. QED  BY <2>2, <2>3, <2>4
  <1>7. QED  BY <1>5, <1>6

\* The events of the chosen plan are started on the traces there are.
LEMMA MapEventsType ==
    ASSUME TypeInv, NEW h \in Handles, NEW p \in Plans, MapEvents(h, p)
    PROVE  TypeInv'
  <1> USE DEF TypeInv
  <1>1. pc[h] = "preMapping" /\ trace # NoHandle /\ trace \in Handles
    BY DEF MapEvents, TraceStarted, TypeOK
  <1>2. getActiveTrace(caller[h]) \in Handles
    BY <1>1, ActiveTraceType DEF TypeOK
  <1>3. FirstEvents(h, p) \in SUBSET AllEvents
    BY EventOfPlan DEF FirstEvents
  <1>4. /\ launch(h, FirstEvents(h, p), trace, getActiveTrace(caller[h]), ctxTrace)
        /\ plan' = [plan EXCEPT ![h] = p]
        /\ pc' = [pc EXCEPT ![h] = "executing"]
        /\ UNCHANGED <<trace, ended, emitted, initializationSpan, caller, listening>>
    BY DEF MapEvents
  <1>5. /\ status' \in [AllEvents -> EventStates]
        /\ ctxTrace' \in [AllEvents -> Handles \cup {NoHandle}]
        /\ (spans \subseteq Handles \X Handles)'
        /\ \A e \in AllEvents \ FirstEvents(h, p) : status'[e] = status[e]
    <2>1. ctxTrace \in [AllEvents -> Handles \cup {NoHandle}]  BY DEF TypeOK
    <2>2. QED  BY <2>1, <1>1, <1>2, <1>3, <1>4, LaunchType
  <1>6. TypeOK'
    BY <1>4, <1>5 DEF TypeOK, HandleStates
  <1>7. TraceStarted'
    BY <1>1, <1>4 DEF TraceStarted
  <1>8. NothingStarted'
    <2> SUFFICES ASSUME NEW g \in Handles, pc'[g] \in {"idle", "preMapping"}
                 PROVE  /\ plan'[g] = <<>>
                        /\ \A e \in AllEvents : e[1] = g => status'[e] = "waiting"
      BY DEF NothingStarted
    <2>1. g # h /\ pc[g] = pc'[g] /\ plan'[g] = plan[g]
      BY <1>4 DEF TypeOK
    <2>2. \A e \in FirstEvents(h, p) : e[1] = h
      BY EarlierPlace DEF FirstEvents
    <2>3. QED  BY <2>1, <2>2, <1>5 DEF NothingStarted
  <1>9. QED  BY <1>6, <1>7, <1>8

\* The next event of a batch belongs to a call that was made.
LEMMA NextSequentialType ==
    ASSUME TypeInv, NEW e \in AllEvents, NextSequential(e)
    PROVE  TypeInv'
  <1> DEFINE h == e[1]
  <1> USE DEF TypeInv
  <1>1. h \in Handles
    BY EventHasCall
  <1>2. pc[h] \notin {"idle", "preMapping"}
    BY <1>1, NoEventsYet DEF NextSequential, Events, NothingStarted
  <1>3. trace # NoHandle /\ trace \in Handles
    BY <1>1, <1>2 DEF TraceStarted, TypeOK
  <1>4. getActiveTrace(caller[h]) \in Handles
    BY <1>1, <1>3, ActiveTraceType DEF TypeOK
  <1>5. /\ launch(h, {e}, trace, getActiveTrace(caller[h]), ctxTrace)
        /\ UNCHANGED <<trace, ended, emitted, initializationSpan, pc, caller, plan,
                       listening>>
    BY DEF NextSequential
  <1>6. /\ status' \in [AllEvents -> EventStates]
        /\ ctxTrace' \in [AllEvents -> Handles \cup {NoHandle}]
        /\ (spans \subseteq Handles \X Handles)'
        /\ \A d \in AllEvents \ {e} : status'[d] = status[d]
    <2>1. ctxTrace \in [AllEvents -> Handles \cup {NoHandle}]  BY DEF TypeOK
    <2>2. {e} \in SUBSET AllEvents  OBVIOUS
    <2>3. QED  BY <2>1, <2>2, <1>1, <1>3, <1>4, <1>5, LaunchType
  <1>7. TypeOK'
    BY <1>5, <1>6 DEF TypeOK
  <1>8. TraceStarted'
    BY <1>5 DEF TraceStarted
  <1>9. NothingStarted'
    BY <1>2, <1>5, <1>6 DEF NothingStarted
  <1>10. QED  BY <1>7, <1>8, <1>9

\* The steps of a call that start no event.
LEMMA CallStepType ==
    ASSUME TypeInv, NEW h \in Handles,
           \/ Reject(h) \/ ExecutionsResolve(h) \/ ExecutionsReject(h)
           \/ ReverseMap(h) \/ HandleReturns(h)
    PROVE  TypeInv'
  <1> USE DEF TypeInv
  <1> DEFINE active == getActiveTrace(caller[h])
  <1>0. pc[h] # "idle"
    BY DEF Reject, ExecutionsResolve, ExecutionsReject, ReverseMap, HandleReturns
  <1>1. trace # NoHandle /\ active \in Handles
    <2>1. trace # NoHandle  BY <1>0 DEF TraceStarted
    <2>2. QED  BY <2>1, ActiveTraceType DEF TypeOK
  <1>2. /\ UNCHANGED <<trace, ctxTrace, initializationSpan, caller, plan, status,
                       listening>>
        /\ \E s \in {"preResponse", "postResponse", "resolved", "rejected"} :
             pc' = [pc EXCEPT ![h] = s]
    BY DEF Reject, ExecutionsResolve, ExecutionsReject, ReverseMap, HandleReturns
  <1>3. spans' \subseteq Handles \X Handles
    BY <1>1 DEF TypeOK, Reject, ExecutionsResolve, ExecutionsReject, ReverseMap,
                HandleReturns
  <1>4. ended' \subseteq Handles /\ emitted' \in [Handles -> Nat]
    <2>1. CASE HandleReturns(h)
      <3>1. endTrace(active)  BY <2>1 DEF HandleReturns
      <3>2. QED  BY <1>1, <3>1, EndTraceType
    <2>2. CASE ~HandleReturns(h)
      BY <2>2 DEF TypeOK, Reject, ExecutionsResolve, ExecutionsReject, ReverseMap
    <2>3. QED  BY <2>1, <2>2
  <1>5. pc' \in [Handles -> HandleStates]
    BY <1>2 DEF TypeOK, HandleStates
  <1>6. TypeOK'
    BY <1>2, <1>3, <1>4, <1>5 DEF TypeOK
  <1>7. TraceStarted'
    BY <1>1, <1>2 DEF TraceStarted
  <1>8. NothingStarted'
    BY <1>2 DEF NothingStarted, TypeOK
  <1>9. QED  BY <1>6, <1>7, <1>8

\* The steps of an event in its own context.
EventInContext(e) ==
    \/ InterceptionFails(e) \/ Dispatch(e) \/ HandlerStartsSpan(e)
    \/ HandlerSucceeds(e) \/ HandlerThrows(e) \/ ListenersSettle(e)
    \/ DispatchReturns(e)

\* An event that runs belongs to a call that was made.
LEMMA EventStepType ==
    ASSUME TypeInv, NEW e \in AllEvents, EventInContext(e),
           e \in listening => status[e] # "waiting"
    PROVE  TypeInv'
  <1> USE DEF TypeInv
  <1>1. status[e] # "waiting"
    BY DEF EventInContext, InterceptionFails, Dispatch, HandlerStartsSpan,
           HandlerSucceeds, HandlerThrows, ListenersSettle, DispatchReturns, EventStep
  <1>2. trace # NoHandle /\ pc[e[1]] \notin {"idle", "preMapping"}
    BY <1>1, CallerStarted
  <1>3. getActiveTrace(e) \in Handles /\ e[1] \in Handles
    BY <1>2, ActiveTraceType, EventHasCall
  <1>4. /\ UNCHANGED <<trace, ctxTrace, ended, emitted, initializationSpan, pc,
                       caller, plan>>
        /\ \E s \in EventStates : status' = [status EXCEPT ![e] = s]
    <2>1. status = [status EXCEPT ![e] = status[e]] /\ status[e] \in EventStates
      BY DEF TypeOK
    <2>2. CASE HandlerStartsSpan(e)  BY <2>1, <2>2 DEF HandlerStartsSpan
    <2>3. CASE ListenersSettle(e)  BY <2>1, <2>3 DEF ListenersSettle
    <2>4. CASE InterceptionFails(e) \/ Dispatch(e) \/ HandlerSucceeds(e)
                 \/ HandlerThrows(e) \/ DispatchReturns(e)
      BY <2>4 DEF InterceptionFails, Dispatch, HandlerSucceeds, HandlerThrows,
                  DispatchReturns, EventStep, EventStates
    <2>5. QED  BY <2>2, <2>3, <2>4 DEF EventInContext
  <1>5. spans' \subseteq Handles \X Handles
    BY <1>3 DEF TypeOK, EventInContext, InterceptionFails, Dispatch, HandlerStartsSpan,
           HandlerSucceeds, HandlerThrows, ListenersSettle, DispatchReturns
  <1>6. listening' \subseteq AllEvents
    BY DEF TypeOK, EventInContext, InterceptionFails, Dispatch, HandlerStartsSpan,
           HandlerSucceeds, HandlerThrows, ListenersSettle, DispatchReturns
  <1>7. TypeOK'
    BY <1>4, <1>5, <1>6 DEF TypeOK
  <1>8. TraceStarted'
    BY <1>4 DEF TraceStarted
  <1>9. NothingStarted'
    BY <1>2, <1>4 DEF NothingStarted, TypeOK
  <1>10. QED  BY <1>7, <1>8, <1>9

-----------------------------------------------------------------------------
(* The invariants.                                                         *)

\* Only an event that was dispatched and has not returned has listeners that
\* run; after a failure they may run on.
ListenersOfDispatched ==
    \A e \in listening : status[e] \in {"dispatching", "handled", "failed"}

PipelineInv ==
    /\ TypeInv
    /\ ListenersOfDispatched
    /\ TraceEndsOnce
    /\ SequentialBatchesInOrder
    /\ ResponseMeansAllDone

\* The invariant holds before the first call.
LEMMA InitPipeline == Init => PipelineInv
  <1> SUFFICES ASSUME Init PROVE PipelineInv  OBVIOUS
  <1>1. TypeInv  BY InitType
  <1>2. ListenersOfDispatched /\ TraceEndsOnce /\ ResponseMeansAllDone
    BY DEF Init, ListenersOfDispatched, TraceEndsOnce, ResponseMeansAllDone
  <1>3. SequentialBatchesInOrder
    BY NoEventsYet DEF Init, SequentialBatchesInOrder, Events
  <1>4. QED  BY <1>1, <1>2, <1>3 DEF PipelineInv

\* What starting the first events of a plan does to the invariants: the
\* events of other calls are untouched and those of this one were waiting.
LEMMA PlanStarted ==
    ASSUME PipelineInv, TypeInv', NEW h \in Handles, NEW p \in Plans,
           pc[h] \in {"idle", "preMapping"},
           pc' = [pc EXCEPT ![h] = "executing"],
           plan' = [plan EXCEPT ![h] = p],
           UNCHANGED <<ended, emitted, listening>>,
           \A e \in AllEvents \ FirstEvents(h, p) : status'[e] = status[e]
    PROVE  PipelineInv'
  <1> USE DEF PipelineInv, TypeInv
  <1>1. \A e \in AllEvents : e[1] = h => status[e] = "waiting"
    BY DEF NothingStarted
  <1>2. \A e \in AllEvents : e[1] # h => status'[e] = status[e]
    BY EarlierPlace DEF FirstEvents
  <1>3. \A g \in Handles : g # h => plan'[g] = plan[g] /\ pc'[g] = pc[g]
    BY DEF TypeOK
  <1>4. plan'[h] = p /\ pc'[h] = "executing"
    BY DEF TypeOK
  <1>5. \A g \in Handles : \A e \in EventsOf(g, plan[g]) :
          e \in AllEvents /\ e[1] = g
    <2> SUFFICES ASSUME NEW g \in Handles, NEW e \in EventsOf(g, plan[g])
                 PROVE  e \in AllEvents /\ e[1] = g
      OBVIOUS
    <2>1. plan[g] \in Plans
      BY NoEventsYet DEF TypeOK
    <2>2. QED  BY <2>1, EarlierPlace, EventOfPlan
  <1>6. ListenersOfDispatched'
    BY <1>1, <1>2 DEF ListenersOfDispatched, TypeOK
  <1>7. TraceEndsOnce'
    BY DEF TraceEndsOnce
  <1>8. ResponseMeansAllDone'
    BY <1>2, <1>3, <1>4, <1>5 DEF ResponseMeansAllDone, Events
  <1>9. SequentialBatchesInOrder'
    <2> SUFFICES ASSUME NEW g \in Handles, NEW e \in EventsOf(g, plan'[g]),
                        plan'[g][e[2]].order = "sequential", status'[e] # "waiting",
                        NEW k \in 1..(e[3] - 1)
                 PROVE  status'[<<g, e[2], k>>] = "ok"
      BY DEF SequentialBatchesInOrder, Events
    <2>1. CASE g = h
      <3>1. e \in EventsOf(h, p) /\ e \in AllEvents /\ e[1] = h /\ e[3] \in Nat
        BY <2>1, <1>4, EarlierPlace, EventOfPlan
      <3>2. e \in FirstEvents(h, p)
        BY <3>1, <1>1
      <3>3. e[3] = 1
        BY <3>2, <2>1, <1>4 DEF FirstEvents
      <3>4. QED  BY <3>3
    <2>2. CASE g # h
      <3>1. plan[g] \in Plans
        BY <2>2, <1>3, NoEventsYet DEF TypeOK
      <3>2. e \in EventsOf(g, plan[g])
        BY <2>2, <1>3
      <3>3. <<g, e[2], k>> \in AllEvents /\ <<g, e[2], k>>[1] = g
        BY <3>1, <3>2, EarlierPlace, EventOfPlan
      <3>4. status[<<g, e[2], k>>] = "ok"
        BY <2>2, <1>2, <1>3, <1>5, <3>2 DEF SequentialBatchesInOrder, Events
      <3>5. QED  BY <3>3, <3>4, <2>2, <1>2
    <2>3. QED  BY <2>1, <2>2
  <1>10. QED  BY <1>6, <1>7, <1>8, <1>9

\* What any other change of statuses must satisfy: an event that succeeded
\* stays, one that waited stays unless its predecessors succeeded, and no
\* plan changes.
LEMMA StatusesAdvance ==
    ASSUME PipelineInv, TypeInv', UNCHANGED plan,
           \A e \in AllEvents : status[e] = "ok" => status'[e] = "ok",
           \A h \in Handles : \A e \in Events(h) :
              status[e] = "waiting" /\ status'[e] # "waiting"
                => \A k \in 1..(e[3] - 1) : status[<<h, e[2], k>>] = "ok"
    PROVE  SequentialBatchesInOrder'
  <1> USE DEF PipelineInv, TypeInv
  <1> SUFFICES ASSUME NEW h \in Handles, NEW e \in EventsOf(h, plan[h]),
                      plan[h][e[2]].order = "sequential", status'[e] # "waiting",
                      NEW k \in 1..(e[3] - 1)
               PROVE  status'[<<h, e[2], k>>] = "ok"
    BY DEF SequentialBatchesInOrder, Events
  <1>1. plan[h] \in Plans
    BY NoEventsYet DEF TypeOK
  <1>2. <<h, e[2], k>> \in AllEvents
    BY <1>1, EarlierPlace, EventOfPlan
  <1>3. status[<<h, e[2], k>>] = "ok"
    <2>1. CASE status[e] = "waiting"  BY <2>1 DEF Events
    <2>2. CASE status[e] # "waiting"  BY <2>2 DEF Events, SequentialBatchesInOrder
    <2>3. QED  BY <2>1, <2>2
  <1>4. QED  BY <1>2, <1>3

\* Events of the plan of a call are typed.
LEMMA EventOfCall ==
    ASSUME TypeInv, NEW h \in Handles, NEW e \in Events(h)
    PROVE  /\ plan[h] \in Plans
           /\ e \in AllEvents /\ e[1] = h
           /\ pc[h] \notin {"idle", "preMapping"}
  <1>1. plan[h] # <<>>
    BY NoEventsYet DEF Events
  <1>2. plan[h] \in Plans
    BY <1>1 DEF TypeInv, TypeOK
  <1>3. e \in AllEvents /\ e[1] = h
    BY <1>2, EarlierPlace, EventOfPlan DEF Events
  <1>4. QED  BY <1>1, <1>2, <1>3 DEF TypeInv, NothingStarted

\* A new call starts the events of a typed plan, or none.
LEMMA HandlePipeline ==
    ASSUME PipelineInv, NEW h \in Handles, NEW c \in AllEvents \cup {NoEvent},
           NEW typed \in BOOLEAN, Handle(h, c, typed)
    PROVE  PipelineInv'
  <1>1. TypeInv'
    BY HandleType DEF PipelineInv
  <1>2. CASE typed
    <2>1. /\ launch(h, FirstEvents(h, TypedPlan), trace', h, startTracing(h, c))
          /\ plan' = [plan EXCEPT ![h] = TypedPlan]
          /\ pc[h] = "idle"
          /\ pc' = [pc EXCEPT ![h] = "executing"]
          /\ UNCHANGED <<ended, emitted, listening>>
      BY <1>2 DEF Handle
    <2>2. TypedPlan \in Plans
      BY PlansAssumption
    <2>3. \A e \in AllEvents \ FirstEvents(h, TypedPlan) : status'[e] = status[e]
      BY <2>1 DEF launch
    <2>4. QED  BY <1>1, <2>1, <2>2, <2>3, PlanStarted
  <1>3. CASE ~typed
    <2>1. /\ pc[h] = "idle"
          /\ pc' = [pc EXCEPT ![h] = "preMapping"]
          /\ UNCHANGED <<plan, status, ended, emitted, listening>>
      BY <1>3 DEF Handle
    <2>2. ListenersOfDispatched' /\ TraceEndsOnce' /\ SequentialBatchesInOrder'
      BY <2>1 DEF PipelineInv, ListenersOfDispatched, TraceEndsOnce,
                  SequentialBatchesInOrder, Events
    <2>3. ResponseMeansAllDone'
      BY <2>1 DEF PipelineInv, TypeInv, TypeOK, ResponseMeansAllDone, Events
    <2>4. QED  BY <1>1, <2>2, <2>3 DEF PipelineInv
  <1>4. QED  BY <1>2, <1>3

\* The first events of a plan are started.
LEMMA MapEventsPipeline ==
    ASSUME PipelineInv, NEW h \in Handles, NEW p \in Plans, MapEvents(h, p)
    PROVE  PipelineInv'
  <1>1. TypeInv'
    BY MapEventsType DEF PipelineInv
  <1>2. /\ launch(h, FirstEvents(h, p), trace, getActiveTrace(caller[h]), ctxTrace)
        /\ plan' = [plan EXCEPT ![h] = p]
        /\ pc[h] = "preMapping"
        /\ pc' = [pc EXCEPT ![h] = "executing"]
        /\ UNCHANGED <<ended, emitted, listening>>
    BY DEF MapEvents
  <1>3. \A e \in AllEvents \ FirstEvents(h, p) : status'[e] = status[e]
    BY <1>2 DEF launch
  <1>4. QED  BY <1>1, <1>2, <1>3, PlanStarted

\* An event of a sequential batch starts after all before it succeeded.
LEMMA NextSequentialPipeline ==
    ASSUME PipelineInv, NEW e \in AllEvents, NextSequential(e)
    PROVE  PipelineInv'
  <1> DEFINE h == e[1]
  <1>1. TypeInv'
    BY NextSequentialType DEF PipelineInv
  <1>2. /\ e \in Events(h) /\ h \in Handles
        /\ plan[h][e[2]].order = "sequential"
        /\ e[3] > 1
        /\ status[e] = "waiting" /\ PreviousSucceeded(e)
        /\ launch(h, {e}, trace, getActiveTrace(caller[h]), ctxTrace)
        /\ UNCHANGED <<ended, emitted, pc, plan, listening>>
    BY EventHasCall DEF NextSequential
  <1>3. \A d \in AllEvents \ {e} : status'[d] = status[d]
    BY <1>2 DEF launch
  <1>4. \A k \in 1..(e[3] - 1) : status[<<h, e[2], k>>] = "ok"
    <2> DEFINE d == <<h, e[2], e[3] - 1>>
    <2>1. plan[h] \in Plans /\ e \in EventsOf(h, plan[h])
      BY <1>2, EventOfCall DEF PipelineInv, Events
    <2>2. e[3] \in Nat \ {0} /\ d \in EventsOf(h, plan[h])
      BY <2>1, <1>2, EarlierPlace
    <2>3. status[d] = "ok"
      BY <1>2 DEF PreviousSucceeded
    <2>4. \A k \in 1..(d[3] - 1) : status[<<h, e[2], k>>] = "ok"
      BY <2>2, <2>3, <1>2 DEF PipelineInv, SequentialBatchesInOrder, Events
    <2>5. QED  BY <2>2, <2>3, <2>4
  <1>5. SequentialBatchesInOrder'
    <2>1. \A g \in Handles : \A d \in Events(g) :
            status[d] = "waiting" /\ status'[d] # "waiting"
              => \A k \in 1..(d[3] - 1) : status[<<g, d[2], k>>] = "ok"
      BY <1>2, <1>3, <1>4, EventOfCall DEF PipelineInv
    <2>2. \A d \in AllEvents : status[d] = "ok" => status'[d] = "ok"
      BY <1>2, <1>3
    <2>3. QED  BY <2>1, <2>2, <1>1, <1>2, StatusesAdvance
  <1>6. ListenersOfDispatched' /\ TraceEndsOnce'
    BY <1>2, <1>3 DEF PipelineInv, TypeInv, TypeOK, ListenersOfDispatched, TraceEndsOnce
  <1>7. ResponseMeansAllDone'
    <2> SUFFICES ASSUME NEW g \in Handles,
                        pc[g] \in {"preResponse", "postResponse", "resolved"},
                        NEW d \in Events(g)
                 PROVE  status'[d] = "ok" /\ d \notin listening
      BY <1>2 DEF ResponseMeansAllDone, Events
    <2>1. status[d] = "ok" /\ d \notin listening /\ d \in AllEvents
      BY EventOfCall DEF PipelineInv, ResponseMeansAllDone
    <2>2. QED  BY <2>1, <1>2, <1>3
  <1>8. QED  BY <1>1, <1>5, <1>6, <1>7 DEF PipelineInv

\* A call gets past its executions when all its events succeeded.
LEMMA CallStepPipeline ==
    ASSUME PipelineInv, NEW h \in Handles,
           \/ Reject(h) \/ ExecutionsResolve(h) \/ ExecutionsReject(h)
           \/ ReverseMap(h) \/ HandleReturns(h)
    PROVE  PipelineInv'
  <1>1. TypeInv'
    BY CallStepType DEF PipelineInv
  <1>2. UNCHANGED <<plan, status, listening>>
    BY DEF Reject, ExecutionsResolve, ExecutionsReject, ReverseMap, HandleReturns
  <1>3. ListenersOfDispatched' /\ SequentialBatchesInOrder'
    BY <1>2 DEF PipelineInv, ListenersOfDispatched, SequentialBatchesInOrder, Events
  <1>4. TraceEndsOnce'
    <2>1. CASE HandleReturns(h)
      <3>1. endTrace(getActiveTrace(caller[h])) /\ pc[h] # "idle"
        BY <2>1 DEF HandleReturns
      <3>2. getActiveTrace(caller[h]) \in Handles
        BY <3>1, ActiveTraceType DEF PipelineInv, TypeInv, TypeOK, TraceStarted
      <3>3. QED  BY <3>1, <3>2, EndTraceType DEF PipelineInv, TypeInv
    <2>2. CASE ~HandleReturns(h)
      BY <2>2 DEF PipelineInv, TraceEndsOnce, Reject, ExecutionsResolve,
                  ExecutionsReject, ReverseMap
    <2>3. QED  BY <2>1, <2>2
  <1>5. ResponseMeansAllDone'
    <2>1. CASE ExecutionsResolve(h)
      <3>1. \A e \in Events(h) : status[e] = "ok" /\ e \notin listening
        BY <2>1 DEF ExecutionsResolve, AllDispatched, PipelineInv, ListenersOfDispatched
      <3>2. QED
        BY <2>1, <3>1, <1>2 DEF ExecutionsResolve, PipelineInv, TypeInv, TypeOK,
                              ResponseMeansAllDone, Events
    <2>2. CASE Reject(h) \/ ExecutionsReject(h)
      BY <2>2, <1>2 DEF Reject, ExecutionsReject, PipelineInv, TypeInv, TypeOK,
                        ResponseMeansAllDone, Events
    <2>3. CASE ReverseMap(h) \/ HandleReturns(h)
      BY <2>3, <1>2 DEF ReverseMap, HandleReturns, PipelineInv, TypeInv, TypeOK,
                        ResponseMeansAllDone, Events
    <2>4. QED  BY <2>1, <2>2, <2>3
  <1>6. QED  BY <1>1, <1>3, <1>4, <1>5 DEF PipelineInv

\* An event succeeds when its listeners are done.
LEMMA EventStepPipeline ==
    ASSUME PipelineInv, NEW e \in AllEvents, EventInContext(e)
    PROVE  PipelineInv'
  <1>1. TypeInv'
    BY EventStepType DEF PipelineInv, ListenersOfDispatched
  <1>2. /\ UNCHANGED <<ended, emitted, pc, plan>>
        /\ \A d \in AllEvents \ {e} : status'[d] = status[d]
        /\ \A d \in AllEvents \ {e} : d \in listening' => d \in listening
    BY DEF PipelineInv, TypeInv, TypeOK, EventInContext, InterceptionFails, Dispatch,
           HandlerStartsSpan, HandlerSucceeds, HandlerThrows, ListenersSettle,
           DispatchReturns, EventStep
  <1>3. /\ status[e] = "ok" => status'[e] = "ok" /\ (e \in listening' => e \in listening)
        /\ status[e] = "waiting" => status'[e] = "waiting"
        /\ e \in listening' => status'[e] \in {"dispatching", "handled", "failed"}
    BY DEF PipelineInv, TypeInv, TypeOK, ListenersOfDispatched, EventInContext,
           InterceptionFails, Dispatch, HandlerStartsSpan, HandlerSucceeds,
           HandlerThrows, ListenersSettle, DispatchReturns, EventStep, ListenersAreDone
  <1>4. ListenersOfDispatched'
    BY <1>1, <1>2, <1>3 DEF PipelineInv, TypeInv, TypeOK, ListenersOfDispatched
  <1>5. TraceEndsOnce'
    BY <1>2 DEF PipelineInv, TraceEndsOnce
  <1>6. SequentialBatchesInOrder'
    <2>1. \A d \in AllEvents : status[d] = "ok" => status'[d] = "ok"
      BY <1>2, <1>3
    <2>2. \A g \in Handles : \A d \in Events(g) :
            ~(status[d] = "waiting" /\ status'[d] # "waiting")
      BY <1>2, <1>3, EventOfCall DEF PipelineInv
    <2>3. QED  BY <1>1, <1>2, <2>1, <2>2, StatusesAdvance
  <1>7. ResponseMeansAllDone'
    <2> SUFFICES ASSUME NEW g \in Handles,
                        pc[g] \in {"preResponse", "postResponse", "resolved"},
                        NEW d \in Events(g)
                 PROVE  status'[d] = "ok" /\ d \notin listening'
      BY <1>2 DEF ResponseMeansAllDone, Events
    <2>1. status[d] = "ok" /\ d \notin listening /\ d \in AllEvents
      BY EventOfCall DEF PipelineInv, ResponseMeansAllDone
    <2>2. QED  BY <2>1, <1>2, <1>3
  <1>8. QED  BY <1>1, <1>4, <1>5, <1>6, <1>7 DEF PipelineInv

\* The invariant is inductive: one lemma per action above.
LEMMA PipelineStep == PipelineInv /\ [Next]_vars => PipelineInv'
  <1> SUFFICES ASSUME PipelineInv, [Next]_vars PROVE PipelineInv'
    OBVIOUS
  <1>1. CASE \E h \in Handles : Pipeline(h)
    <2>1. PICK h \in Handles : Pipeline(h)  BY <1>1
    <2>2. CASE \E c \in AllEvents \cup {NoEvent}, typed \in BOOLEAN : Handle(h, c, typed)
      BY <2>2, HandlePipeline
    <2>3. CASE \E p \in Plans : MapEvents(h, p)
      BY <2>3, MapEventsPipeline
    <2>4. CASE \/ Reject(h) \/ ExecutionsResolve(h) \/ ExecutionsReject(h)
               \/ ReverseMap(h) \/ HandleReturns(h)
      BY <2>4, CallStepPipeline
    <2>5. QED  BY <2>1, <2>2, <2>3, <2>4 DEF Pipeline
  <1>2. CASE \E e \in AllEvents : Execution(e)
    <2>1. PICK e \in AllEvents : Execution(e)  BY <1>2
    <2>2. CASE NextSequential(e)  BY <2>2, NextSequentialPipeline
    <2>3. CASE EventInContext(e)  BY <2>3, EventStepPipeline
    <2>4. QED  BY <2>1, <2>2, <2>3 DEF Execution, EventInContext
  <1>3. CASE UNCHANGED vars
    BY <1>3 DEF vars, PipelineInv, TypeInv, TypeOK, TraceStarted, NothingStarted,
       ListenersOfDispatched, TraceEndsOnce, SequentialBatchesInOrder,
       ResponseMeansAllDone, Events
  <1>4. QED  BY <1>1, <1>2, <1>3 DEF Next

\* The invariant holds throughout.
LEMMA PipelineInvariant == Spec => []PipelineInv
  BY InitPipeline, PipelineStep, PTL DEF Spec

\* Every variable of the pipeline keeps its type, for all calls and plans:
\* in particular no span is started without an active trace.
THEOREM PipelineTypeCorrect == Spec => []TypeOK
  <1>1. PipelineInv => TypeOK  BY DEF PipelineInv, TypeInv
  <1>2. QED  BY <1>1, PipelineInvariant, PTL

\* TracingManager.endTrace() hands every trace to the tracers at most once,
\* and exactly when it ends, however many overlapping or nested calls to
\* Kernel.handle() end it.
THEOREM TraceEndsOnceHolds == Spec => []TraceEndsOnce
  <1>1. PipelineInv => TraceEndsOnce  BY DEF PipelineInv
  <1>2. QED  BY <1>1, PipelineInvariant, PTL

\* EventPipeline.execute() runs sequential batches of any length in order and
\* starts nothing after a failure in the batch.
THEOREM SequentialBatchesInOrderHolds == Spec => []SequentialBatchesInOrder
  <1>1. PipelineInv => SequentialBatchesInOrder  BY DEF PipelineInv
  <1>2. QED  BY <1>1, PipelineInvariant, PTL

\* A call to Kernel.handle() gets a response only when every event of every
\* batch succeeded and all their listeners settled.
THEOREM ResponseMeansAllDoneHolds == Spec => []ResponseMeansAllDone
  <1>1. PipelineInv => ResponseMeansAllDone  BY DEF PipelineInv
  <1>2. QED  BY <1>1, PipelineInvariant, PTL

-----------------------------------------------------------------------------
(* Calls that come one at a time.                                          *)

\* The host waits for a call before it makes the next, no handler calls handle(), and
\* one mapper at most supports an event.
OneAtATime ==
    /\ MaxConcurrent <= 1 /\ ~NestedHandles
    /\ \A p \in Plans : Len(p) <= 1

\* A call that was rejected has nothing left to start: without another batch its own
\* failure ended the loop.
NothingLeft(h) ==
    \/ Events(h) = {}
    \/ \A e \in Events(h) : status[e] = "ok"
    \/ \E e \in Events(h) : status[e] = "failed"

Running == {"intercepting", "dispatching", "handled", "ok", "failed"}
CallsAreOne ==
    /\ \A h \in Handles : caller[h] = NoEvent
    /\ \A g, h \in Handles : InProgress(g) /\ InProgress(h) => g = h
    /\ \A h \in Handles : InProgress(h) => trace = h
ContextsAreOwn == \A e \in AllEvents : status[e] \in Running => ctxTrace[e] = e[1]
RejectedIsDone == \A h \in Handles : pc[h] = "rejected" => NothingLeft(h)
OwnInv == CallsAreOne /\ ContextsAreOwn /\ RejectedIsDone /\ TracesAreOwn

\* Outside an EventContext the root manager's own trace is the active one.
LEMMA RootTraceIsActive == getActiveTrace(NoEvent) = trace
  BY DEF getActiveTrace

\* A call is admitted when no other is in progress.
LEMMA AdmittedAlone ==
    ASSUME OwnInv, PipelineInv, OneAtATime, NEW h \in Handles,
           NEW c \in AllEvents \cup {NoEvent}, NEW typed \in BOOLEAN, Handle(h, c, typed)
    PROVE  c = NoEvent /\ \A g \in Handles : ~InProgress(g)
  <1>1. c = NoEvent
    BY DEF Handle, Callers, OneAtATime
  <1> DEFINE S == {g \in Handles : InProgress(g)}
  <1>2. Cardinality(S) < MaxConcurrent
    BY <1>1 DEF Handle
  <1>3. SUFFICES ASSUME NEW g \in Handles, InProgress(g) PROVE FALSE
    BY <1>1
  <1>4. S = {g}
    BY <1>3 DEF OwnInv, CallsAreOne
  <1>5. Cardinality(S) = 1
    BY <1>4, FS_Singleton
  <1>6. QED  BY <1>2, <1>5, SwitchesAssumption DEF OneAtATime

\* Events started on the trace of their call run in a context of that trace.
LEMMA LaunchOwn ==
    ASSUME OwnInv, PipelineInv, NEW h \in Handles, NEW E \in SUBSET AllEvents,
           \A e \in E : e[1] = h,
           launch(h, E, h, h, ctxTrace)
    PROVE  ContextsAreOwn' /\ TraceIsolation'
  <1>1. PICK stuck :
          /\ status' = [e \in AllEvents |->
                          IF e \notin E THEN status[e]
                          ELSE IF e \in stuck THEN "hung" ELSE "intercepting"]
          /\ ctxTrace' = [e \in AllEvents |-> IF e \in E \ stuck THEN h ELSE ctxTrace[e]]
          /\ spans' = spans \cup {<<h, h>>} \cup (IF E = stuck THEN {} ELSE {<<h, h>>})
    BY DEF launch
  <1>2. ContextsAreOwn'
    BY <1>1 DEF OwnInv, ContextsAreOwn, Running
  <1>3. TraceIsolation'
    BY <1>1 DEF OwnInv, TracesAreOwn, TraceIsolation
  <1>4. QED  BY <1>2, <1>3

\* A call that is alone brings its own trace.
LEMMA HandleOwn ==
    ASSUME OwnInv, PipelineInv, OneAtATime, NEW h \in Handles,
           NEW c \in AllEvents \cup {NoEvent}, NEW typed \in BOOLEAN, Handle(h, c, typed)
    PROVE  OwnInv'
  <1>1. c = NoEvent /\ \A g \in Handles : ~InProgress(g)
    BY AdmittedAlone
  <1>2. /\ pc[h] = "idle" /\ trace' = h /\ caller' = [caller EXCEPT ![h] = NoEvent]
        /\ UNCHANGED <<ended, emitted, listening>>
        /\ \E s \in {"executing", "preMapping"} : pc' = [pc EXCEPT ![h] = s]
    BY <1>1 DEF Handle
  <1>3. /\ pc \in [Handles -> HandleStates] /\ plan \in [Handles -> Plans \cup {<<>>}]
        /\ ctxTrace \in [AllEvents -> Handles \cup {NoHandle}]
        /\ caller \in [Handles -> AllEvents \cup {NoEvent}]
    BY DEF PipelineInv, TypeInv, TypeOK
  <1>4. startTracing(h, c) = ctxTrace
    BY <1>1, <1>3, NamesAssumption DEF startTracing
  <1>5. CallsAreOne'
    BY <1>1, <1>2, <1>3 DEF OwnInv, CallsAreOne, InProgress
  <1>6. TraceEndsWithItsCall'
    BY <1>2, <1>3 DEF OwnInv, TracesAreOwn, TraceEndsWithItsCall
  <1>7. CASE typed
    <2>1. /\ plan' = [plan EXCEPT ![h] = TypedPlan]
          /\ launch(h, FirstEvents(h, TypedPlan), h, h, ctxTrace)
      BY <1>2, <1>4, <1>7 DEF Handle
    <2>2. TypedPlan \in Plans
      BY PlansAssumption
    <2>3. /\ FirstEvents(h, TypedPlan) \in SUBSET AllEvents
          /\ \A e \in FirstEvents(h, TypedPlan) : e[1] = h
      BY <2>2, EventOfPlan, EarlierPlace DEF FirstEvents
    <2>4. ContextsAreOwn' /\ TraceIsolation'
      BY <2>1, <2>3, LaunchOwn
    <2>5. ASSUME NEW g \in Handles, pc'[g] = "rejected" PROVE NothingLeft(g)'
      <3>1. g # h /\ pc[g] = "rejected" /\ plan'[g] = plan[g]
        BY <1>2, <1>3, <2>1, <2>5
      <3>2. NothingLeft(g) /\ \A e \in Events(g) : e \in AllEvents /\ e[1] = g
        BY <3>1, EventOfCall DEF OwnInv, RejectedIsDone, PipelineInv
      <3>3. \A e \in Events(g) : status'[e] = status[e]
        BY <2>1, <2>3, <3>1, <3>2 DEF launch
      <3>4. QED  BY <3>1, <3>2, <3>3 DEF NothingLeft, Events
    <2>6. QED  BY <1>5, <1>6, <2>4, <2>5 DEF OwnInv, RejectedIsDone, TracesAreOwn
  <1>8. CASE ~typed
    <2>1. /\ ctxTrace' = ctxTrace /\ spans' = spans \cup {<<h, h>>}
          /\ UNCHANGED <<plan, status>>
      BY <1>4, <1>8 DEF Handle
    <2>2. ContextsAreOwn' /\ TraceIsolation'
      BY <2>1 DEF OwnInv, ContextsAreOwn, TracesAreOwn, TraceIsolation
    <2>3. RejectedIsDone'
      BY <1>2, <1>3, <2>1 DEF OwnInv, RejectedIsDone, NothingLeft, Events
    <2>4. QED  BY <1>5, <1>6, <2>2, <2>3 DEF OwnInv, TracesAreOwn
  <1>9. QED  BY <1>7, <1>8

\* What it maps is started on that trace.
LEMMA MapEventsOwn ==
    ASSUME OwnInv, PipelineInv, OneAtATime, NEW h \in Handles, NEW p \in Plans,
           MapEvents(h, p)
    PROVE  OwnInv'
  <1>1. /\ pc[h] = "preMapping" /\ pc' = [pc EXCEPT ![h] = "executing"]
        /\ plan' = [plan EXCEPT ![h] = p]
        /\ UNCHANGED <<trace, ended, caller>>
    BY DEF MapEvents
  <1>2. pc \in [Handles -> HandleStates] /\ plan \in [Handles -> Plans \cup {<<>>}]
    BY DEF PipelineInv, TypeInv, TypeOK
  <1>3. trace = h /\ caller[h] = NoEvent
    BY <1>1 DEF OwnInv, CallsAreOne, InProgress
  <1>4. launch(h, FirstEvents(h, p), h, h, ctxTrace)
    BY <1>3, RootTraceIsActive DEF MapEvents
  <1>5. /\ FirstEvents(h, p) \in SUBSET AllEvents
        /\ \A e \in FirstEvents(h, p) : e[1] = h
    BY EventOfPlan, EarlierPlace DEF FirstEvents
  <1>6. ContextsAreOwn' /\ TraceIsolation'
    BY <1>4, <1>5, LaunchOwn
  <1>7. CallsAreOne'
    BY <1>1, <1>2 DEF OwnInv, CallsAreOne, InProgress
  <1>8. TraceEndsWithItsCall'
    BY <1>1, <1>2 DEF OwnInv, TracesAreOwn, TraceEndsWithItsCall
  <1>9. ASSUME NEW g \in Handles, pc'[g] = "rejected" PROVE NothingLeft(g)'
    <2>1. g # h /\ pc[g] = "rejected" /\ plan'[g] = plan[g]
      BY <1>1, <1>2, <1>9
    <2>2. NothingLeft(g) /\ \A e \in Events(g) : e \in AllEvents /\ e[1] = g
      BY <2>1, EventOfCall DEF OwnInv, RejectedIsDone, PipelineInv
    <2>3. \A e \in Events(g) : status'[e] = status[e]
      BY <1>4, <1>5, <2>1, <2>2 DEF launch
    <2>4. QED  BY <2>1, <2>2, <2>3 DEF NothingLeft, Events
  <1>10. QED  BY <1>6, <1>7, <1>8, <1>9 DEF OwnInv, RejectedIsDone, TracesAreOwn

\* With one batch a sequential loop only goes on while its call is in progress.
LEMMA NextSequentialInProgress ==
    ASSUME OwnInv, PipelineInv, OneAtATime, NEW e \in AllEvents, NextSequential(e)
    PROVE  InProgress(e[1])
  <1> DEFINE h == e[1]
             d == <<h, e[2], e[3] - 1>>
  <1>1. h \in Handles /\ e \in Events(h)
    BY EventHasCall DEF NextSequential
  <1>2. /\ plan[h] \in Plans /\ pc[h] \notin {"idle", "preMapping"}
        /\ e \in EventsOf(h, plan[h])
    BY <1>1, EventOfCall DEF PipelineInv, Events
  <1>3. /\ status[e] = "waiting" /\ e[3] > 1 /\ status[d] = "ok"
        /\ plan[h][e[2]].order = "sequential"
    BY DEF NextSequential, PreviousSucceeded
  <1>4. e[3] \in Nat \ {0} /\ d \in EventsOf(h, plan[h])
    BY <1>1, <1>2, <1>3, EarlierPlace
  <1>5. pc[h] # "rejected"
    <2> SUFFICES ASSUME pc[h] = "rejected" PROVE FALSE
      OBVIOUS
    <2>1. \E f \in Events(h) : status[f] = "failed"
      BY <1>1, <1>3 DEF OwnInv, RejectedIsDone, NothingLeft
    <2>2. PICK f \in EventsOf(h, plan[h]) : status[f] = "failed"
      BY <2>1 DEF Events
    <2>3. PICK b \in 1..Len(plan[h]) : \E k \in 1..plan[h][b].size : f = <<h, b, k>>
      BY <1>1, <2>2, EventShape
    <2>4. PICK k \in 1..plan[h][b].size : f = <<h, b, k>>
      BY <2>3
    <2>5. PICK a \in 1..Len(plan[h]) : \E j \in 1..plan[h][a].size : e = <<h, a, j>>
      BY <1>1, <1>2, EventShape
    <2>6. PICK j \in 1..plan[h][a].size : e = <<h, a, j>>
      BY <2>5
    <2>7. Len(plan[h]) \in Nat /\ Len(plan[h]) <= 1
      BY <1>2, PlansAssumption DEF OneAtATime
    <2>8. a = b
      BY <2>7
    <2>9. e[2] = a /\ e[3] = j /\ f[2] = a /\ f[3] = k
      BY <2>4, <2>6, <2>8
    <2>10. k \in Nat \ {0} /\ j \in Nat \ {0}
      BY <1>1, <1>2, <2>2, <2>9, EarlierPlace
    <2>11. CASE k < j
      <3>1. CASE k = j - 1
        BY <1>3, <2>2, <2>4, <2>8, <2>9, <3>1
      <3>2. CASE k < j - 1
        <4>1. d[2] = a /\ d[3] = j - 1 /\ status[d] # "waiting"
          BY <1>3, <2>9
        <4>2. \A i \in 1..(d[3] - 1) : status[<<h, d[2], i>>] = "ok"
          BY <1>1, <1>3, <1>4, <4>1 DEF PipelineInv, SequentialBatchesInOrder, Events
        <4>3. k \in 1..(d[3] - 1)
          BY <2>10, <3>2, <4>1
        <4>4. status[<<h, a, k>>] = "ok"
          BY <4>1, <4>2, <4>3
        <4>5. QED  BY <2>2, <2>4, <2>8, <4>4
      <3>3. QED  BY <2>10, <2>11, <3>1, <3>2
    <2>12. CASE k = j
      BY <1>3, <2>2, <2>4, <2>6, <2>8, <2>12
    <2>13. CASE k > j
      <3>1. \A i \in 1..(f[3] - 1) : status[<<h, f[2], i>>] = "ok"
        BY <1>1, <1>3, <2>2, <2>9 DEF PipelineInv, SequentialBatchesInOrder, Events
      <3>2. j \in 1..(f[3] - 1)
        BY <2>9, <2>10, <2>13
      <3>3. QED  BY <1>3, <2>6, <2>9, <3>1, <3>2
    <2>14. QED  BY <2>10, <2>11, <2>12, <2>13
  <1>6. pc[h] \notin {"preResponse", "postResponse", "resolved"}
    BY <1>1, <1>3 DEF PipelineInv, ResponseMeansAllDone
  <1>7. QED  BY <1>2, <1>5, <1>6 DEF InProgress

\* So is the next event of its batch.
LEMMA NextSequentialOwn ==
    ASSUME OwnInv, PipelineInv, OneAtATime, NEW e \in AllEvents, NextSequential(e)
    PROVE  OwnInv'
  <1> DEFINE h == e[1]
  <1>1. h \in Handles /\ InProgress(h) /\ status[e] = "waiting"
    BY EventHasCall, NextSequentialInProgress DEF NextSequential
  <1>2. trace = h /\ caller[h] = NoEvent
    BY <1>1 DEF OwnInv, CallsAreOne
  <1>3. launch(h, {e}, h, h, ctxTrace) /\ UNCHANGED <<trace, ended, pc, caller, plan>>
    BY <1>2, RootTraceIsActive DEF NextSequential
  <1>4. ContextsAreOwn' /\ TraceIsolation'
    <2>1. {e} \in SUBSET AllEvents /\ \A d \in {e} : d[1] = h
      OBVIOUS
    <2>2. QED  BY <1>1, <1>3, <2>1, LaunchOwn
  <1>5. CallsAreOne' /\ TraceEndsWithItsCall'
    BY <1>3 DEF OwnInv, CallsAreOne, InProgress, TracesAreOwn, TraceEndsWithItsCall
  <1>6. ASSUME NEW g \in Handles, pc'[g] = "rejected" PROVE NothingLeft(g)'
    <2>1. g # h /\ pc[g] = "rejected" /\ plan'[g] = plan[g]
      BY <1>1, <1>3, <1>6 DEF InProgress
    <2>2. NothingLeft(g) /\ \A d \in Events(g) : d \in AllEvents /\ d[1] = g
      BY <2>1, EventOfCall DEF OwnInv, RejectedIsDone, PipelineInv
    <2>3. \A d \in Events(g) : status'[d] = status[d]
      BY <1>3, <2>1, <2>2 DEF launch
    <2>4. QED  BY <2>1, <2>2, <2>3 DEF NothingLeft, Events
  <1>7. QED  BY <1>4, <1>5, <1>6 DEF OwnInv, RejectedIsDone, TracesAreOwn

\* The trace that ends with a call is its own; a rejected call leaves nothing to start.
LEMMA CallStepOwn ==
    ASSUME OwnInv, PipelineInv, NEW h \in Handles,
           \/ Reject(h) \/ ExecutionsResolve(h) \/ ExecutionsReject(h)
           \/ ReverseMap(h) \/ HandleReturns(h)
    PROVE  OwnInv'
  <1>1. /\ UNCHANGED <<trace, ctxTrace, caller, plan, status>> /\ InProgress(h)
        /\ \E s \in {"preResponse", "postResponse", "resolved", "rejected"} :
             pc' = [pc EXCEPT ![h] = s]
    BY DEF Reject, ExecutionsResolve, ExecutionsReject, ReverseMap, HandleReturns, InProgress
  <1>2. pc \in [Handles -> HandleStates]
    BY DEF PipelineInv, TypeInv, TypeOK
  <1>3. trace = h /\ getActiveTrace(caller[h]) = h
    BY <1>1, RootTraceIsActive DEF OwnInv, CallsAreOne
  <1>4. CallsAreOne'
    BY <1>1, <1>2 DEF OwnInv, CallsAreOne, InProgress
  <1>5. ContextsAreOwn'
    BY <1>1 DEF OwnInv, ContextsAreOwn
  <1>6. TraceIsolation'
    <2>1. spans' = spans \/ spans' = spans \cup {<<h, h>>}
      BY <1>3 DEF Reject, ExecutionsResolve, ExecutionsReject, ReverseMap, HandleReturns
    <2>2. QED  BY <2>1 DEF OwnInv, TracesAreOwn, TraceIsolation
  <1>7. TraceEndsWithItsCall'
    <2>1. CASE HandleReturns(h)
      <3>1. endTrace(h) /\ pc[h] = "postResponse" /\ pc' = [pc EXCEPT ![h] = "resolved"]
        BY <1>3, <2>1 DEF HandleReturns
      <3>2. ended' = ended \cup {h}
        BY <3>1 DEF endTrace
      <3>3. QED  BY <1>2, <3>1, <3>2 DEF OwnInv, TracesAreOwn, TraceEndsWithItsCall
    <2>2. CASE ~HandleReturns(h)
      <3>1. /\ UNCHANGED ended /\ pc[h] # "resolved"
            /\ \E s \in {"preResponse", "postResponse", "rejected"} : pc' = [pc EXCEPT ![h] = s]
        BY <2>2 DEF Reject, ExecutionsResolve, ExecutionsReject, ReverseMap
      <3>2. QED  BY <1>2, <3>1 DEF OwnInv, TracesAreOwn, TraceEndsWithItsCall
    <2>3. QED  BY <2>1, <2>2
  <1>8. ASSUME NEW g \in Handles, pc'[g] = "rejected" PROVE NothingLeft(g)'
    <2>1. CASE g # h
      BY <1>1, <1>2, <1>8, <2>1 DEF OwnInv, RejectedIsDone, NothingLeft, Events
    <2>2. CASE g = h
      <3>1. Reject(h) \/ ExecutionsReject(h)
        BY <1>2, <1>8, <2>2 DEF ExecutionsResolve, ReverseMap, HandleReturns
      <3>2. CASE ExecutionsReject(h)
        BY <1>1, <2>2, <3>2 DEF ExecutionsReject, NothingLeft, Events
      <3>3. CASE Reject(h) /\ pc[h] = "preMapping"
        <4>1. plan[h] = <<>>
          BY <3>3 DEF PipelineInv, TypeInv, NothingStarted
        <4>2. QED  BY <1>1, <2>2, <4>1, NoEventsYet DEF NothingLeft, Events
      <3>4. CASE Reject(h) /\ pc[h] # "preMapping"
        <4>1. \A e \in Events(h) : status[e] = "ok"
          BY <3>4 DEF Reject, PipelineInv, ResponseMeansAllDone
        <4>2. QED  BY <1>1, <2>2, <4>1 DEF NothingLeft, Events
      <3>5. QED  BY <3>1, <3>2, <3>3, <3>4
    <2>3. QED  BY <2>1, <2>2
  <1>9. QED  BY <1>4, <1>5, <1>6, <1>7, <1>8 DEF OwnInv, RejectedIsDone, TracesAreOwn

\* What an event records in its context is on the trace of its call.
LEMMA EventStepOwn ==
    ASSUME OwnInv, PipelineInv, NEW e \in AllEvents, EventInContext(e)
    PROVE  OwnInv'
  <1>1. status \in [AllEvents -> EventStates] /\ e[1] \in Handles
    BY EventHasCall DEF PipelineInv, TypeInv, TypeOK
  <1>2. UNCHANGED <<trace, ctxTrace, ended, pc, caller, plan>>
    BY DEF EventInContext, InterceptionFails, Dispatch, HandlerStartsSpan,
           HandlerSucceeds, HandlerThrows, ListenersSettle, DispatchReturns, EventStep
  <1>3. \/ UNCHANGED status
        \/ /\ status[e] \in {"intercepting", "dispatching", "handled"}
           /\ \E s \in EventStates : status' = [status EXCEPT ![e] = s]
    BY DEF EventInContext, InterceptionFails, Dispatch, HandlerStartsSpan,
           HandlerSucceeds, HandlerThrows, ListenersSettle, DispatchReturns, EventStep,
           EventStates
  <1>4. CallsAreOne' /\ TraceEndsWithItsCall'
    BY <1>2 DEF OwnInv, CallsAreOne, InProgress, TracesAreOwn, TraceEndsWithItsCall
  <1>5. ContextsAreOwn'
    BY <1>1, <1>2, <1>3 DEF OwnInv, ContextsAreOwn, Running
  <1>6. TraceIsolation'
    <2>1. \/ UNCHANGED spans
          \/ /\ status[e] \in {"intercepting", "dispatching"}
             /\ spans' = spans \cup {<<e[1], getActiveTrace(e)>>}
      BY DEF EventInContext, InterceptionFails, Dispatch, HandlerStartsSpan,
           HandlerSucceeds, HandlerThrows, ListenersSettle, DispatchReturns, EventStep
    <2>2. status[e] \in {"intercepting", "dispatching"} => getActiveTrace(e) = e[1]
      BY <1>1, NamesAssumption DEF OwnInv, ContextsAreOwn, Running, getActiveTrace
    <2>3. QED  BY <2>1, <2>2 DEF OwnInv, TracesAreOwn, TraceIsolation
  <1>7. ASSUME NEW g \in Handles, pc'[g] = "rejected" PROVE NothingLeft(g)'
    <2>1. NothingLeft(g) /\ \A d \in Events(g) : d \in AllEvents
      BY <1>2, <1>7, EventOfCall DEF OwnInv, RejectedIsDone, PipelineInv
    <2>2. \A d \in AllEvents : status[d] \in {"ok", "failed"} => status'[d] = status[d]
      BY <1>1, <1>3
    <2>3. QED  BY <1>2, <2>1, <2>2 DEF NothingLeft, Events
  <1>8. QED  BY <1>4, <1>5, <1>6, <1>7 DEF OwnInv, RejectedIsDone, TracesAreOwn

\* While calls come one at a time, TracingManager tells their traces apart though it
\* keeps only one: each trace holds the spans of its own call, and it is exported
\* when, and only when, its call resolves.
THEOREM TracesAreOwnOneAtATime == OneAtATime /\ Spec => []TracesAreOwn
  <1>1. Init => OwnInv
    BY DEF Init, OwnInv, CallsAreOne, InProgress, ContextsAreOwn, Running,
           RejectedIsDone, TracesAreOwn, TraceIsolation, TraceEndsWithItsCall
  <1>2. ASSUME OneAtATime, OwnInv, PipelineInv, [Next]_vars PROVE OwnInv'
    <2>1. CASE UNCHANGED vars
      BY <1>2, <2>1 DEF vars, OwnInv, CallsAreOne, InProgress, ContextsAreOwn,
         RejectedIsDone, NothingLeft, Events, TracesAreOwn, TraceIsolation,
         TraceEndsWithItsCall
    <2>2. ASSUME NEW h \in Handles, Pipeline(h) PROVE OwnInv'
      BY <1>2, <2>2, HandleOwn, MapEventsOwn, CallStepOwn DEF Pipeline
    <2>3. ASSUME NEW e \in AllEvents, Execution(e) PROVE OwnInv'
      BY <1>2, <2>3, NextSequentialOwn, EventStepOwn DEF Execution, EventInContext
    <2>4. QED  BY <1>2, <2>1, <2>2, <2>3 DEF Next
  <1>3. OwnInv => TracesAreOwn
    BY DEF OwnInv
  <1>4. CASE OneAtATime
    BY <1>1, <1>2, <1>3, <1>4, PipelineInvariant, PTL DEF Spec
  <1>5. QED  BY <1>4
=============================================================================
