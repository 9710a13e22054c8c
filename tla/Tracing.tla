------------------------------ MODULE Tracing ------------------------------
(***************************************************************************)
(* TracingManager of packages/telemetry: the traces and spans of one       *)
(* execution, started and ended in any order by the code of an             *)
(* application, and what its tracers are told.  The console tracer, X-Ray  *)
(* (packages/aws-xray) and Cloud Trace (packages/gcp-trace) write a trace  *)
(* once it has ended.  Which context a trace belongs to is in              *)
(* EventPipeline.                                                          *)
(***************************************************************************)
EXTENDS Naturals, Sequences, FiniteSets, SequencesExt

CONSTANTS
    Keynames,           \* of spans; RootKeyname is one
    RootKeyname,        \* SpanKeynameEnum.RootExecution
    MaxSpans, MaxTraces, MaxNow,    \* bounds: spans, traces, clock
    None

VARIABLES
    isActive,           \* TelemetryConfigurationKeys.Active
    traces,             \* traces[t]: [rootSpan, hasEnded]
    trace,              \* the active trace
    spans,              \* spans[s]: [keyname, parentSpan, trace, startDate, inProgress, markers]
    pushed,             \* what the streams of a tracer got, in order
    now
tracingVars == <<isActive, traces, trace, spans, pushed, now>>

TracingInit ==
    /\ isActive \in BOOLEAN
    /\ traces = <<>> /\ trace = None /\ spans = <<>> /\ pushed = <<>> /\ now = 0

\* The variables an operation changes, handed from call to call.
State == [traces |-> traces, trace |-> trace, spans |-> spans, pushed |-> pushed]
Become(st) ==
    /\ traces' = st.traces /\ trace' = st.trace /\ spans' = st.spans /\ pushed' = st.pushed
    /\ UNCHANGED <<isActive, now>>
Push(st, stream, id) == IF isActive THEN [st EXCEPT !.pushed = Append(@, <<stream, id>>)] ELSE st

children(st, s) == SelectSeq([i \in DOMAIN st.spans |-> i], LAMBDA c : st.spans[c].parentSpan = s)
spansByKeyname(st, keyname) ==
    SelectSeq([i \in DOMAIN st.spans |-> i],
              LAMBDA s : st.spans[s].keyname = keyname /\ st.spans[s].trace = st.trace)

Span(keyname, parent) ==
    [keyname |-> keyname, parentSpan |-> parent, trace |-> trace,
     startDate |-> now, inProgress |-> TRUE, markers |-> 0]

\* addSpan() puts the span in the active trace.
addSpan(st, span) ==
    Push([st EXCEPT !.spans = Append(@, [span EXCEPT !.trace = st.trace])],
         "spanStarted", Len(st.spans) + 1)

\* startTracing() replaces the active trace.  Inactive, it has no root span.
startTracing(st, keyname) ==
    LET t == Len(st.traces) + 1
        new == [st EXCEPT !.traces = Append(@, [rootSpan |-> None, hasEnded |-> FALSE]), !.trace = t]
    IN  IF ~isActive THEN new
        ELSE addSpan([Push(new, "traceStarted", t) EXCEPT !.traces[t].rootSpan = Len(st.spans) + 1],
                     Span(keyname, None))

\* The parent is the root, unless the name given is that of one span, or of several
\* one of which has the id given.
parentSpanOf(st, parentKeyname, parentId) ==
    LET named == IF parentKeyname = None THEN <<>> ELSE spansByKeyname(st, parentKeyname) IN
    CASE Len(named) = 1 -> named[1]
      [] Len(named) > 1 /\ parentId \in ToSet(named) -> parentId
      [] OTHER -> st.traces[st.trace].rootSpan
startSpan(st, keyname, parentKeyname, parentId) ==
    LET ready == IF st.trace = None THEN startTracing(st, RootKeyname) ELSE st IN
    addSpan(ready, Span(keyname, parentSpanOf(ready, parentKeyname, parentId)))

RECURSIVE endSpan(_, _), endTrace(_)
\* A span ends after those of its children that are in progress.  One that has the
\* name of the root of the active trace ends that trace.
leaveChildren(st, s) == st
endChildren(st, s) == FoldLeft(LAMBDA acc, c : endSpan(acc, c), st, children(st, s))
isRootName(st, s) ==
    /\ st.trace # None /\ st.traces[st.trace].rootSpan # None
    /\ st.spans[s].keyname = st.spans[st.traces[st.trace].rootSpan].keyname
endSpan(st, s) ==
    IF ~st.spans[s].inProgress THEN st
    ELSE LET ended == Push(endChildren([st EXCEPT !.spans[s].inProgress = FALSE], s), "spanEnded", s) IN
         IF isActive /\ isRootName(ended, s) THEN endTrace(ended) ELSE ended
endTrace(st) ==
    IF st.trace = None \/ st.traces[st.trace].hasEnded THEN st
    ELSE LET t == st.trace
             over == [st EXCEPT !.traces[t].hasEnded = TRUE]
             root == st.traces[t].rootSpan
         IN  Push(IF root = None THEN over ELSE endSpan(over, root), "traceEnded", t)

endSpanKeyname(st, keyname) ==
    LET named == spansByKeyname(st, keyname) IN
    IF st.trace # None /\ Len(named) = 1 THEN endSpan(st, named[1]) ELSE st

\* findActiveLeafSpan(): down through the spans in progress to those without a
\* child in progress, and of these the last to start.
inProgressChildren(st, s) == SelectSeq(children(st, s), LAMBDA c : st.spans[c].inProgress)
RECURSIVE leaves(_, _)
leaves(st, s) ==
    LET below == inProgressChildren(st, s) IN
    (IF st.spans[s].inProgress /\ below = <<>> THEN <<s>> ELSE <<>>)
      \o FlattenSeq([i \in DOMAIN below |-> leaves(st, below[i])])
findActiveLeafSpan(st) ==
    IF st.trace = None \/ st.traces[st.trace].rootSpan = None THEN None
    ELSE LET found == leaves(st, st.traces[st.trace].rootSpan) IN
         FoldLeft(LAMBDA best, s : IF best = None \/ st.spans[s].startDate >= st.spans[best].startDate
                                     THEN s ELSE best, None, found)
addMarkerToCurrentSpan(st) ==
    LET target == findActiveLeafSpan(st) IN
    IF target = None THEN st ELSE [st EXCEPT !.spans[target].markers = @ + 1]

\* walkSpans(), serializeSpan(), captureSpan() of X-Ray and of Cloud Trace, and the
\* walk of getCurrentTrail(): the whole tree below the root, each in its own order.
RECURSIVE walk(_, _), captureSpan(_, _)
walk(st, s) ==
    <<s>> \o FlattenSeq([i \in DOMAIN children(st, s) |-> walk(st, children(st, s)[i])])
captureSpan(st, s) ==
    FlattenSeq([i \in DOMAIN children(st, s) |-> captureSpan(st, children(st, s)[i])]) \o <<s>>
ByStart(st, found) == SortSeq(found, LAMBDA a, b : st.spans[a].startDate < st.spans[b].startDate
                                                   \/ (st.spans[a].startDate = st.spans[b].startDate /\ a < b))
renderTree(st, t) == IF st.traces[t].rootSpan = None THEN <<>> ELSE walk(st, st.traces[t].rootSpan)
renderFlat(st, t) == ByStart(st, renderTree(st, t))
serialize(st, t) == renderTree(st, t)
traceEnded(st, t) == IF st.traces[t].rootSpan = None THEN <<>> ELSE captureSpan(st, st.traces[t].rootSpan)
getCurrentTrail(st) == IF st.trace = None THEN <<>> ELSE ByStart(st, renderTree(st, st.trace))

Room(n) == Len(spans) + n <= MaxSpans
Names == Keynames \cup {None}
TracingNext ==
    \/ /\ Room(1) /\ Len(traces) < MaxTraces
       /\ \E k \in Keynames : Become(startTracing(State, k))
    \/ /\ Room(IF trace = None THEN 2 ELSE 1) /\ (trace = None => Len(traces) < MaxTraces)
       /\ \E k \in Keynames, p \in Names, i \in DOMAIN spans \cup {None} : Become(startSpan(State, k, p, i))
    \/ \E s \in DOMAIN spans : Become(endSpan(State, s))
    \/ \E k \in Keynames : Become(endSpanKeyname(State, k))
    \/ Become(endTrace(State))
    \/ (\A s \in DOMAIN spans : spans[s].markers = 0) /\ Become(addMarkerToCurrentSpan(State))
    \/ now < MaxNow /\ now' = now + 1 /\ UNCHANGED <<isActive, traces, trace, spans, pushed>>
TracingSpec == TracingInit /\ [][TracingNext]_tracingVars

-----------------------------------------------------------------------------
Index(event) == CHOOSE i \in DOMAIN pushed : pushed[i] = event
WasPushed(event) == event \in ToSet(pushed)
RECURSIVE Attached(_)
Attached(s) == \/ s = traces[spans[s].trace].rootSpan
               \/ spans[s].parentSpan # None /\ Attached(spans[s].parentSpan)

\* A span below the root that has its name ends the trace from within, its siblings
\* and ancestors afterwards.
OnlyRootsHaveTheirName ==
    \A s \in DOMAIN spans, t \in DOMAIN traces :
        traces[t].rootSpan # None /\ spans[s].keyname = spans[traces[t].rootSpan].keyname
          => s = traces[spans[s].trace].rootSpan

\* Tracers hear of every span and trace once, in an order they can rely on: a span
\* starts, then its children end, then it ends.
ToldInOrder ==
    /\ IsInjective(pushed)
    /\ \A s \in DOMAIN spans : isActive =>
         /\ WasPushed(<<"spanStarted", s>>)
         /\ WasPushed(<<"spanEnded", s>>) <=> ~spans[s].inProgress
         /\ ~spans[s].inProgress => Index(<<"spanStarted", s>>) < Index(<<"spanEnded", s>>)
         /\ LET p == spans[s].parentSpan IN
            p # None /\ ~spans[p].inProgress /\ Index(<<"spanStarted", s>>) < Index(<<"spanEnded", p>>)
              => /\ ~spans[s].inProgress
                 /\ OnlyRootsHaveTheirName => Index(<<"spanEnded", s>>) < Index(<<"spanEnded", p>>)

\* endSpan() does not look below a span that has ended already: what was started
\* under such a span, with its name, is out of its reach.
RECURSIVE StartedLate(_)
StartedLate(s) ==
    LET p == spans[s].parentSpan IN
    p # None /\ \/ WasPushed(<<"spanEnded", p>>) /\ Index(<<"spanEnded", p>>) < Index(<<"spanStarted", s>>)
                \/ StartedLate(p)

\* A trace that has ended leaves nothing behind in progress but what started after
\* its end or under a span that had ended, and what its tracers write is each of its
\* spans, once.
EndedIsComplete ==
    \A t \in DOMAIN traces : traces[t].hasEnded /\ isActive =>
        LET own == {s \in DOMAIN spans : spans[s].trace = t /\ Attached(s)} IN
        /\ WasPushed(<<"traceEnded", t>>)
        /\ \A s \in own : spans[s].inProgress =>
             StartedLate(s) \/ Index(<<"traceEnded", t>>) < Index(<<"spanStarted", s>>)
        /\ \A listed \in {renderFlat(State, t), serialize(State, t), traceEnded(State, t)} :
             IsInjective(listed) /\ ToSet(listed) = own

\* A marker goes to a span in progress that is the last one started among those
\* whose ancestors are in progress too.
MarkerIsLatest ==
    LET s == findActiveLeafSpan(State) IN s # None =>
        /\ spans[s].inProgress
        /\ \A o \in ToSet(leaves(State, traces[trace].rootSpan)) : spans[o].startDate <= spans[s].startDate

TracesAreWhole == ToldInOrder /\ EndedIsComplete /\ MarkerIsLatest
=============================================================================
