------------------------------ MODULE Logging ------------------------------
(***************************************************************************)
(* packages/logging: LogHandler gives a log to every active logger;        *)
(* BaseLogger stacks the logs below its level and outputs them before an   *)
(* error; ConsoleLogger limits the lines of a second; Utils cuts what is   *)
(* written down to a depth.  SentryLogger (packages/sentry) is the logger  *)
(* behind the console.                                                     *)
(***************************************************************************)
EXTENDS Naturals, Sequences, FiniteSets

CONSTANTS
    ErrorSeverity,      \* SeverityEnum.Error; severities are 0..ErrorSeverity
    logSeverityLevelConfiguration, numberOfStackedLogs, maximumLogsPerSecond,
    SecondsPerMinute,   \* what Date.getSeconds() wraps at
    MaxClock, MaxLogs,  \* bounds: seconds that pass, logs
    Traces, None

CommonKey == "common"

VARIABLES
    stackedLogs,        \* stackedLogs[key]: the array of a trace, an index of arrays
    arrays,             \* the arrays themselves: two keys can have the same
    throttle,           \* [currentSecond, numberOfLogsInThisSecond, currentlyThrottlingLogs]
    clock,
    logged,             \* history: the logs, each [severity, trace, at]
    written,            \* history: the lines of the console, [log, at, of]
    reached             \* history: the loggers the last log reached
loggingVars == <<stackedLogs, arrays, throttle, clock, logged, written, reached>>

LoggingInit ==
    /\ stackedLogs = [k \in {} |-> 0] /\ arrays = <<>>
    /\ throttle = [currentSecond |-> SecondsPerMinute, numberOfLogsInThisSecond |-> 0,
                   currentlyThrottlingLogs |-> FALSE]
    /\ clock = 0 /\ logged = <<>> /\ written = <<>> /\ reached = {}

\* setupStackedLogsArrayIfRequired(): a trace starts with the common array itself.
setupStackedLogs(stacks, heap, trace) ==
    LET common == IF CommonKey \in DOMAIN stacks THEN stacks[CommonKey] ELSE Len(heap) + 1
        keys == DOMAIN stacks \cup {CommonKey} \cup ({trace} \ {None})
    IN  [stacks |-> [k \in keys |-> IF k \in DOMAIN stacks THEN stacks[k] ELSE common],
         heap |-> IF CommonKey \in DOMAIN stacks THEN heap ELSE Append(heap, <<>>)]

\* addStackedLog(): one log is removed as soon as there are as many as allowed.
keepAll(stack) == stack
removeFirst(stack) ==
    IF Len(stack) < numberOfStackedLogs THEN stack
    ELSE IF Len(stack) - 1 <= numberOfStackedLogs THEN Tail(stack)
    ELSE SubSeq(stack, Len(stack) - numberOfStackedLogs + 1, Len(stack))
addStackedLog(heap, ref, log) == [heap EXCEPT ![ref] = removeFirst(Append(@, log))]

\* outputStackedLogs() is called without a trace: the common array is output and
\* nothing is cleared.
outputStackedLogs(stacks, heap) == heap[stacks[CommonKey]]

\* shouldThrottleLogs() and log() of ConsoleLogger, for each line in turn.
RECURSIVE writeLines(_, _, _, _)
shouldThrottleLogs(t) ==
    IF t.currentSecond # clock % SecondsPerMinute
      THEN [currentSecond |-> clock % SecondsPerMinute, numberOfLogsInThisSecond |-> 1,
            currentlyThrottlingLogs |-> FALSE]
      ELSE [t EXCEPT !.numberOfLogsInThisSecond = @ + 1,
                     !.currentlyThrottlingLogs = @ \/ t.numberOfLogsInThisSecond + 1 > maximumLogsPerSecond]
writeLines(lines, t, out, of) ==
    IF lines = <<>> THEN [throttle |-> t, out |-> out]
    ELSE LET u == shouldThrottleLogs(t) IN
         writeLines(Tail(lines), u,
                    IF u.currentlyThrottlingLogs THEN out ELSE Append(out, [log |-> Head(lines), at |-> clock, of |-> of]),
                    of)

\* BaseLogger.captureLog() of the console.  A log is known by its number.
captureLog(n, severity, trace) ==
    LET stacking == numberOfStackedLogs > 0
        ready == IF stacking THEN setupStackedLogs(stackedLogs, arrays, trace)
                 ELSE [stacks |-> stackedLogs, heap |-> arrays]
        below == severity < logSeverityLevelConfiguration
        context == IF stacking /\ ~below /\ severity >= ErrorSeverity
                     THEN outputStackedLogs(ready.stacks, ready.heap) ELSE <<>>
        done == writeLines(context \o (IF below THEN <<>> ELSE <<n>>), throttle, written, n)
    IN  /\ stackedLogs' = ready.stacks
        /\ arrays' = IF stacking /\ below
                       THEN addStackedLog(ready.heap, ready.stacks[IF trace = None THEN CommonKey ELSE trace], n)
                       ELSE ready.heap
        /\ throttle' = done.throttle /\ written' = done.out

\* LogHandler.log(): a logger that throws, in its own code or in a listener, stops
\* nobody.  SentryLogger sends errors, a sample of them, and what is worse.
Loggers == {"custom", "console", "sentry"}
stopAtThrow(throws) == {"custom"} \cup (IF throws THEN {} ELSE {"console", "sentry"})
dispatch(throws) == Loggers
Log(severity, trace, throws) ==
    /\ Len(logged) < MaxLogs
    /\ logged' = Append(logged, [severity |-> severity, trace |-> trace, at |-> clock])
    /\ reached' = dispatch(throws)
    /\ IF "console" \in dispatch(throws)
         THEN captureLog(Len(logged) + 1, severity, trace)
         ELSE UNCHANGED <<stackedLogs, arrays, throttle, written>>
    /\ UNCHANGED clock

SecondPasses ==
    /\ clock < MaxClock /\ clock' = clock + 1
    /\ UNCHANGED <<stackedLogs, arrays, throttle, logged, written, reached>>

LoggingNext ==
    \/ SecondPasses
    \/ \E s \in 0..ErrorSeverity, t \in Traces \cup {None}, throws \in BOOLEAN : Log(s, t, throws)
LoggingSpec == LoggingInit /\ [][LoggingNext]_loggingVars

-----------------------------------------------------------------------------
(* Utils.  A value is <<"flat", v>>, <<"array", values>> or                 *)
(* <<"object", function of keys>>; what is cut is <<"flat", Truncated>>.    *)

Truncated == "-- Truncated: Max Depth Reached --"
isFlat(v) == v[1] = "flat"
RECURSIVE truncate(_, _, _)
truncate(v, maxDepth, curDepth) ==
    LET Inner(w) == IF isFlat(w) THEN w ELSE truncate(w, maxDepth, curDepth + 1) IN
    IF curDepth >= maxDepth THEN <<"flat", Truncated>>
    ELSE IF isFlat(v) THEN v
    ELSE <<v[1], [k \in DOMAIN v[2] |-> Inner(v[2][k])]>>

\* The keys of nested objects; those inside an array are looked for in its elements.
RECURSIVE getDeepKeys(_)
ownKeys(v) == IF v[1] = "object" THEN DOMAIN v[2] ELSE {}
getDeepKeys(v) ==
    IF isFlat(v) THEN {} ELSE ownKeys(v) \cup UNION {getDeepKeys(v[2][k]) : k \in DOMAIN v[2]}

\* JSON.stringify() with a list keeps the keys of the list, at every level.
RECURSIVE stringify(_, _)
stringify(v, keys) ==
    IF isFlat(v) THEN v
    ELSE LET kept == IF v[1] = "object" THEN DOMAIN v[2] \cap keys ELSE DOMAIN v[2]
         IN  <<v[1], [k \in kept |-> stringify(v[2][k], keys)]>>
jsonSortOrders == {"severity", "message"}
outputLog(log, depth) ==
    LET cut == truncate(log, depth, 0) IN stringify(cut, jsonSortOrders \cup getDeepKeys(cut))

-----------------------------------------------------------------------------
(* Properties                                                               *)

\* What is written of a log is the log down to the depth that was asked for: no key
\* is lost to the list that orders them, and what is deeper says that it was cut.
RECURSIVE CutAt(_, _)
CutAt(v, depth) ==
    IF isFlat(v) THEN v
    ELSE IF depth = 0 THEN <<"flat", Truncated>>
    ELSE <<v[1], [k \in DOMAIN v[2] |-> CutAt(v[2][k], depth - 1)]>>
OnlyDepthIsLost(log, depth) == depth > 0 => outputLog(log, depth) = CutAt(log, depth)

\* Every logger is reached, whoever threw before; no second has more lines than the
\* limit; a log at the level is missing from the console only while seconds of its
\* number are over the limit; the stacks stay bounded; and the lines an error brings
\* along are older than it, below the level and in the order they were logged.
ConsoleIsFaithful ==
    LET LinesOf(n) == SelectSeq(written, LAMBDA w : w.of = n)
    IN
    /\ logged # <<>> => reached = Loggers
    /\ \A t \in 0..clock : Len(SelectSeq(written, LAMBDA w : w.at = t)) <= maximumLogsPerSecond
    /\ \A n \in DOMAIN logged :
         logged[n].severity >= logSeverityLevelConfiguration =>
           \/ \E i \in DOMAIN written : written[i].log = n
           \/ Len(SelectSeq(written, LAMBDA w : w.at % SecondsPerMinute = logged[n].at % SecondsPerMinute))
                >= maximumLogsPerSecond
    /\ \A i \in DOMAIN arrays : Len(arrays[i]) <= numberOfStackedLogs
    /\ \A n \in DOMAIN logged :
         LET lines == LinesOf(n) IN
         \A i, j \in DOMAIN lines : i < j =>
           /\ lines[i].log < lines[j].log
           /\ logged[lines[i].log].severity < logSeverityLevelConfiguration
=============================================================================
