---------------------------- MODULE EventPipeline ----------------------------
(***************************************************************************)
(* Kernel.handle(), the EventPipeline it runs, the EventDispatcher the     *)
(* pipeline calls and the part of the TracingManager they share.           *)
(*                                                                         *)
(* Several handle() calls may be in progress on one event loop; a handler  *)
(* may call handle() again (the REPL does).  Every `await` ends an action: *)
(* between two of them anything else may run.  A trace is identified with  *)
(* the handle() call that started it, and a span with the pair of the call *)
(* it was started for and the trace it was attached to.  Tracing is active *)
(* (telemetry.active); what interceptors, handlers and listeners compute   *)
(* is reduced to whether they succeed.                                     *)
(***************************************************************************)
EXTENDS Naturals, FiniteSets, Sequences

CONSTANTS
    Handles,            \* the handle() calls of the run, one trace each
    Plans,              \* what the mappers may return: sequences of batches
    NoHandle,           \* no trace, and no handle() call
    NoEvent,            \* called outside any EventContext
    MaxConcurrent,      \* how many handle() calls the host keeps in progress
    NestedHandles,      \* may a handler call handle()?
    ResolverMayThrow    \* may resolving the EventDispatcher throw?

Batch == [order : {"sequential", "parallel"}, size : Nat]

\* The single batch of an event that is already an instance of Event.
TypedPlan == <<[order |-> "sequential", size |-> 1]>>

ASSUME PlansAssumption == /\ Plans \subseteq Seq(Batch)
                          /\ TypedPlan \in Plans
ASSUME SwitchesAssumption == /\ MaxConcurrent \in Nat
                             /\ NestedHandles \in BOOLEAN
                             /\ ResolverMayThrow \in BOOLEAN

\* Events are named by their call, their batch and their place in it.
EventsOf(h, p) == UNION {{<<h, b, k>> : k \in 1..p[b].size} : b \in 1..Len(p)}
AllEvents == UNION {EventsOf(h, p) : h \in Handles, p \in Plans}
ASSUME NamesAssumption == NoHandle \notin Handles /\ NoEvent \notin AllEvents

VARIABLES
    trace,       \* TracingManager.trace of the root container
    ctxTrace,    \* EventContext.trace of every event that was started
    ended,       \* the traces with hasEnded
    emitted,     \* how often each trace was pushed to traceEndedStream
    spans,       \* <<call, trace>>: a span of that call attached to that trace
    initializationSpan, \* Kernel.initializationSpan: "pending", then its trace
    pc,          \* where each handle() call is
    caller,      \* the event whose EventContext it was called in, or NoEvent
    plan,        \* the event executions it runs
    status,      \* where each event is
    listening    \* the events with a listener that has not settled

vars == <<trace, ctxTrace, ended, emitted, spans, initializationSpan, pc,
          caller, plan, status, listening>>

HandleStates == {"idle", "preMapping", "executing", "preResponse",
                 "postResponse", "resolved", "rejected"}
EventStates == {"waiting", "intercepting", "dispatching", "handled", "ok",
                "failed", "hung"}

InProgress(h) == pc[h] \notin {"idle", "resolved", "rejected"}
Events(h) == EventsOf(h, plan[h])

Init ==
    /\ trace = NoHandle
    /\ ctxTrace = [e \in AllEvents |-> NoHandle]
    /\ ended = {}
    /\ emitted = [h \in Handles |-> 0]
    /\ spans = {}
    /\ initializationSpan = "pending"
    /\ pc = [h \in Handles |-> "idle"]
    /\ caller = [h \in Handles |-> NoEvent]
    /\ plan = [h \in Handles |-> <<>>]
    /\ status = [e \in AllEvents |-> "waiting"]
    /\ listening = {}

-----------------------------------------------------------------------------
(* TracingManager                                                          *)

\* getActiveTrace(): the EventContext's trace, else the instance's own.
activeTraceIgnoringContext(c) == trace
getActiveTrace(c) ==
    IF c # NoEvent /\ ctxTrace[c] # NoHandle THEN ctxTrace[c] ELSE trace

\* startTracing() inside an EventContext replaces the context's trace.
startTracing(h, c) == [e \in AllEvents |-> IF e = c THEN h ELSE ctxTrace[e]]

\* endTrace(): a trace is ended and handed to the tracers once.
endTraceAgain(t) ==
    /\ ended' = ended \cup {t}
    /\ emitted' = [emitted EXCEPT ![t] = @ + 1]
endTrace(t) ==
    IF t \in ended
    THEN UNCHANGED <<ended, emitted>>
    ELSE /\ ended' = ended \cup {t}
         /\ emitted' = [emitted EXCEPT ![t] = @ + 1]

-----------------------------------------------------------------------------
(* The events a call starts.                                               *)

\* The events of a plan that are started in the same synchronous step.
FirstEvents(h, p) ==
    {e \in EventsOf(h, p) : p[e[2]].order = "parallel" \/ e[3] = 1}

(* For each event: three spans on the active trace of the call, a child    *)
(* container, the dispatcher resolved from it, and executeEvent() run in a *)
(* new EventContext whose trace is the root manager's at this moment, with *)
(* the span of the post-mapping interception on that trace.  When resolving*)
(* throws, the async promise executor dies and the promise never settles.  *)
launch(h, E, root, active, context) ==
    \E stuck \in (IF ResolverMayThrow THEN SUBSET E ELSE {{}}) :
        /\ status' = [e \in AllEvents |->
                        IF e \notin E THEN status[e]
                        ELSE IF e \in stuck THEN "hung" ELSE "intercepting"]
        /\ ctxTrace' = [e \in AllEvents |->
                          IF e \in E \ stuck THEN root ELSE context[e]]
        /\ spans' = spans \cup {<<h, active>>}
                          \cup (IF E = stuck THEN {} ELSE {<<h, root>>})

-----------------------------------------------------------------------------
(* Kernel.handle() and EventPipeline.execute().                            *)

\* The EventContexts a new call may be made in.
Callers == {NoEvent} \cup
    (IF NestedHandles THEN {e \in AllEvents : status[e] = "dispatching"} ELSE {})

\* Outside an EventContext the new trace replaces the root manager's own;
\* the kernel's initialization span goes to the first trace.  An instance of
\* Event is executed in the same step, a raw event first goes through the
\* pre-mapping interceptors.
Handle(h, c, typed) ==
    /\ pc[h] = "idle"
    /\ c \in Callers
    /\ c = NoEvent => Cardinality({g \in Handles : InProgress(g)}) < MaxConcurrent
    /\ trace' = IF c = NoEvent THEN h ELSE trace
    /\ caller' = [caller EXCEPT ![h] = c]
    /\ initializationSpan' =
         IF initializationSpan = "pending" THEN h ELSE initializationSpan
    /\ \/ /\ typed
          /\ plan' = [plan EXCEPT ![h] = TypedPlan]
          /\ pc' = [pc EXCEPT ![h] = "executing"]
          /\ launch(h, FirstEvents(h, TypedPlan), trace', h, startTracing(h, c))
       \/ /\ ~typed
          /\ pc' = [pc EXCEPT ![h] = "preMapping"]
          /\ ctxTrace' = startTracing(h, c)
          /\ spans' = spans \cup {<<h, h>>}
          /\ UNCHANGED <<plan, status>>
    /\ UNCHANGED <<ended, emitted, listening>>

\* An interceptor throws, at any of the interception points of the call, or
\* mapping throws, finds no mapper or yields no events, or reverse mapping
\* throws: handle() rejects.  endTrace() is not reached.
Reject(h) ==
    /\ pc[h] \in {"preMapping", "preResponse", "postResponse"}
    /\ pc' = [pc EXCEPT ![h] = "rejected"]
    /\ UNCHANGED <<trace, ctxTrace, ended, emitted, spans, initializationSpan,
                   caller, plan, status, listening>>

\* The interceptors are done: the mappers turn the raw event into batches
\* and the first events of each are started.
MapEvents(h, p) ==
    /\ pc[h] = "preMapping"
    /\ \E b \in 1..Len(p) : p[b].size > 0
    /\ plan' = [plan EXCEPT ![h] = p]
    /\ pc' = [pc EXCEPT ![h] = "executing"]
    /\ launch(h, FirstEvents(h, p), trace, getActiveTrace(caller[h]), ctxTrace)
    /\ UNCHANGED <<trace, ended, emitted, initializationSpan, caller, listening>>

\* Does the event before e in its sequential batch let e start?
PreviousSettled(e) == status[<<e[1], e[2], e[3] - 1>>] \in {"ok", "failed"}
PreviousSucceeded(e) == status[<<e[1], e[2], e[3] - 1>>] = "ok"

\* The loop over a sequential batch goes on with the next event.
NextSequential(e) ==
    LET h == e[1] IN
    /\ e \in Events(h)
    /\ plan[h][e[2]].order = "sequential"
    /\ e[3] > 1
    /\ status[e] = "waiting"
    /\ PreviousSucceeded(e)
    /\ launch(h, {e}, trace, getActiveTrace(caller[h]), ctxTrace)
    /\ UNCHANGED <<trace, ended, emitted, initializationSpan, pc, caller, plan,
                   listening>>

\* Promise.all over the batches is fulfilled: every response goes through
\* the pre-response-mapping interceptors.
AllDispatched(h) == \A e \in Events(h) : status[e] = "ok"
ExecutionsResolve(h) ==
    /\ pc[h] = "executing"
    /\ AllDispatched(h)
    /\ pc' = [pc EXCEPT ![h] = "preResponse"]
    /\ spans' = spans \cup {<<h, getActiveTrace(caller[h])>>}
    /\ UNCHANGED <<trace, ctxTrace, ended, emitted, initializationSpan, caller,
                   plan, status, listening>>

\* Promise.all is rejected by the first failure; the other events go on.
ExecutionsRejectOnceSettled(h) ==
    /\ pc[h] = "executing"
    /\ \A e \in Events(h) : status[e] \in {"ok", "failed"}
    /\ \E e \in Events(h) : status[e] = "failed"
    /\ pc' = [pc EXCEPT ![h] = "rejected"]
    /\ UNCHANGED <<trace, ctxTrace, ended, emitted, spans, initializationSpan,
                   caller, plan, status, listening>>
ExecutionsReject(h) ==
    /\ pc[h] = "executing"
    /\ \E e \in Events(h) : status[e] = "failed"
    /\ pc' = [pc EXCEPT ![h] = "rejected"]
    /\ UNCHANGED <<trace, ctxTrace, ended, emitted, spans, initializationSpan,
                   caller, plan, status, listening>>

\* The responses are reverse mapped into one and the post-response-mapping
\* interception starts.
ReverseMap(h) ==
    /\ pc[h] = "preResponse"
    /\ pc' = [pc EXCEPT ![h] = "postResponse"]
    /\ spans' = spans \cup {<<h, getActiveTrace(caller[h])>>}
    /\ UNCHANGED <<trace, ctxTrace, ended, emitted, initializationSpan, caller,
                   plan, status, listening>>

\* execute() returned: the kernel ends the active trace and resolves.
HandleReturnsUntraced(h) ==
    /\ pc[h] = "postResponse"
    /\ pc' = [pc EXCEPT ![h] = "resolved"]
    /\ UNCHANGED <<trace, ctxTrace, ended, emitted, spans, initializationSpan,
                   caller, plan, status, listening>>
HandleReturns(h) ==
    /\ pc[h] = "postResponse"
    /\ pc' = [pc EXCEPT ![h] = "resolved"]
    /\ endTrace(getActiveTrace(caller[h]))
    /\ UNCHANGED <<trace, ctxTrace, spans, initializationSpan, caller, plan,
                   status, listening>>

-----------------------------------------------------------------------------
(* executeEvent() and EventDispatcher.dispatch(), in the event's context.  *)

EventStep(e, from, to) ==
    /\ status[e] = from
    /\ status' = [status EXCEPT ![e] = to]
    /\ UNCHANGED <<trace, ctxTrace, ended, emitted, initializationSpan, pc,
                   caller, plan>>

\* A post-mapping interceptor throws.
InterceptionFails(e) ==
    /\ EventStep(e, "intercepting", "failed")
    /\ UNCHANGED <<spans, listening>>

\* The interceptors are done: the execution span, the listeners are started
\* without being awaited, and the first handler that supports the event is
\* called; without one, dispatch() throws.
Dispatch(e) ==
    /\ \/ EventStep(e, "intercepting", "dispatching")
       \/ EventStep(e, "intercepting", "failed")
    /\ spans' = spans \cup {<<e[1], getActiveTrace(e)>>}
    /\ \E some \in BOOLEAN :
         listening' = IF some THEN listening \cup {e} ELSE listening

\* A @traced method called by the handler starts a span in the context.
HandlerStartsSpan(e) ==
    /\ status[e] = "dispatching"
    /\ spans' = spans \cup {<<e[1], getActiveTrace(e)>>}
    /\ UNCHANGED <<trace, ctxTrace, ended, emitted, initializationSpan, pc,
                   caller, plan, status, listening>>

HandlerSucceeds(e) ==
    /\ EventStep(e, "dispatching", "handled")
    /\ UNCHANGED <<spans, listening>>

HandlerThrows(e) ==
    /\ EventStep(e, "dispatching", "failed")
    /\ UNCHANGED <<spans, listening>>

\* A listener settles, one way or the other; nobody looks at its outcome.
ListenersSettle(e) ==
    /\ e \in listening
    /\ listening' = listening \ {e}
    /\ UNCHANGED <<trace, ctxTrace, ended, emitted, spans, initializationSpan,
                   pc, caller, plan, status>>

\* Promise.allSettled over the listeners is fulfilled: dispatch() returns.
ListenersNotAwaited(e) == e \in AllEvents
ListenersAreDone(e) == e \notin listening
DispatchReturns(e) ==
    /\ ListenersAreDone(e)
    /\ EventStep(e, "handled", "ok")
    /\ UNCHANGED <<spans, listening>>

-----------------------------------------------------------------------------

Pipeline(h) ==
    \/ \E c \in AllEvents \cup {NoEvent}, typed \in BOOLEAN : Handle(h, c, typed)
    \/ \E p \in Plans : MapEvents(h, p)
    \/ Reject(h)
    \/ ExecutionsResolve(h)
    \/ ExecutionsReject(h)
    \/ ReverseMap(h)
    \/ HandleReturns(h)

Execution(e) ==
    \/ NextSequential(e)
    \/ InterceptionFails(e)
    \/ Dispatch(e)
    \/ HandlerStartsSpan(e)
    \/ HandlerSucceeds(e)
    \/ HandlerThrows(e)
    \/ ListenersSettle(e)
    \/ DispatchReturns(e)

Next == (\E h \in Handles : Pipeline(h)) \/ (\E e \in AllEvents : Execution(e))

Spec == Init /\ [][Next]_vars

\* The event loop runs what is ready; interceptors, handlers and listeners
\* settle.  Nothing obliges a caller to call handle().
Fairness ==
    /\ \A h \in Handles :
         WF_vars((\E p \in Plans : MapEvents(h, p)) \/ Reject(h)
                  \/ ExecutionsResolve(h) \/ ExecutionsReject(h)
                  \/ ReverseMap(h) \/ HandleReturns(h))
    /\ \A e \in AllEvents :
         /\ WF_vars(NextSequential(e))
         /\ WF_vars(InterceptionFails(e) \/ Dispatch(e))
         /\ WF_vars(HandlerSucceeds(e) \/ HandlerThrows(e))
         /\ WF_vars(ListenersSettle(e))
         /\ WF_vars(DispatchReturns(e))
FairSpec == Spec /\ Fairness

-----------------------------------------------------------------------------
(* Properties                                                              *)

\* Every variable keeps its type.
TypeOK ==
    /\ trace \in Handles \cup {NoHandle}
    /\ ctxTrace \in [AllEvents -> Handles \cup {NoHandle}]
    /\ ended \subseteq Handles
    /\ emitted \in [Handles -> Nat]
    /\ spans \subseteq Handles \X Handles
    /\ initializationSpan \in Handles \cup {"pending"}
    /\ pc \in [Handles -> HandleStates]
    /\ caller \in [Handles -> AllEvents \cup {NoEvent}]
    /\ plan \in [Handles -> Plans \cup {<<>>}]
    /\ status \in [AllEvents -> EventStates]
    /\ listening \subseteq AllEvents

\* Whatever calls overlap, nest, fail or end one another's trace, the
\* tracers receive a trace exactly once when it ends, and never otherwise:
\* TracingManager.endTrace() is reached by several calls for one trace.
TraceEndsOnce ==
    \A h \in Handles : emitted[h] = IF h \in ended THEN 1 ELSE 0

\* A sequential batch runs in order, one event at a time, and an event that
\* failed or never settled is the last one started: EventPipeline.execute()
\* rejects from inside the loop, also while other batches and calls run on.
SequentialBatchesInOrder ==
    \A h \in Handles : \A e \in Events(h) :
        plan[h][e[2]].order = "sequential" /\ status[e] # "waiting"
            => \A k \in 1..(e[3] - 1) : status[<<h, e[2], k>>] = "ok"

\* A response is only built from complete work: once a call is past its
\* executions every event of every batch succeeded and none of their
\* listeners is still running (Promise.all over the batches, and
\* Promise.allSettled over the listeners inside dispatch()).
ResponseMeansAllDone ==
    \A h \in Handles : pc[h] \in {"preResponse", "postResponse", "resolved"}
        => \A e \in Events(h) : status[e] = "ok" /\ e \notin listening

\* "One trace per request": a span started on behalf of a call is attached
\* to the trace that call started.
TraceIsolation == \A s \in spans : s[1] = s[2]

\* A trace is ended, and so exported, exactly when its call resolves: not
\* while the call is in progress, and not left open afterwards.
TraceEndsWithItsCall ==
    \A h \in Handles : h \in ended <=> pc[h] = "resolved"

\* While calls come one at a time, traces and spans are told apart: each trace holds the
\* spans of its own call and ends with it.
TracesAreOwn == TraceIsolation /\ TraceEndsWithItsCall

\* A call that was accepted settles, whatever its handlers do, so that
\* KernelHttpServer.handleRequest() can answer the client.
HandleSettles ==
    \A h \in Handles : InProgress(h) ~> pc[h] \in {"resolved", "rejected"}
=============================================================================
