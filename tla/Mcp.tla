--------------------------------- MODULE Mcp ---------------------------------
(***************************************************************************)
(* packages/mcp: McpDispatcher, McpToolInvoker and McpToolCatalog behind   *)
(* the two transports.  McpStdioTransport serves the messages of a stream  *)
(* concurrently and can cancel them; McpHttpTransport answers requests.    *)
(* A message is [readable, valid, id, method, params, version,             *)
(* capabilities, tool]: is it JSON, is it a JSON-RPC message, are the      *)
(* params what the method requires, and the version and the capabilities   *)
(* in _meta.  The headers of an HTTP request are [origin, post, version,   *)
(* method, tool].  Contents are left out.                                  *)
(***************************************************************************)
EXTENDS Naturals, Sequences, FiniteSets

CONSTANTS
    Messages,       \* the messages a client may send
    Headers,        \* the headers of a message sent over HTTP
    Tools,          \* the names in the catalog
    Allowed,        \* those no policy refuses
    MaxMessages,    \* bound: messages sent in all
    ReuseIds,       \* may a client reuse the id of a request that is in flight?
    None

LegacyVersions == {"legacy", "oldest"}
ModernVersions == {"modern"}
AllVersions == LegacyVersions \cup ModernVersions

\* What dispatch() comes to: no response, a result or an error.
Outcomes ==
    {"none", "result", "toolError", "invalidRequest", "invalidParams", "unsupportedVersion",
     "unknownTool", "methodNotFound", "internalError"}

\* What the constants have to be.
McpAssumption ==
    /\ MaxMessages \in Nat
    /\ None \notin Outcomes \cup {"headerMismatch"} \cup AllVersions
    /\ None \notin 1..MaxMessages \cup {400, 403, 405}
    /\ \A h \in Headers : h.origin \in BOOLEAN /\ h.post \in BOOLEAN

VARIABLES
    calls,          \* the messages served, with where each one is
    inFlight,       \* inFlight[id]: the call whose controller is registered
    input,          \* "open", "closed" or "resolved": the stream and listen()
    cancelled       \* history: the calls in flight when a cancellation named their id

mcpVars == <<calls, inFlight, input, cancelled>>

Ids == {m.id : m \in Messages} \ {None}

McpInit ==
    /\ calls = <<>>
    /\ inFlight = [i \in Ids |-> None]
    /\ input = "open"
    /\ cancelled = {}

-----------------------------------------------------------------------------
(* McpDispatcher                                                           *)

era(m) ==
    IF m.method = "initialize" \/ m.version = None \/ m.version \in LegacyVersions
      THEN "legacy" ELSE "modern"

\* protocolVersion() refuses a version it does not know, and a modern request
\* that does not name the capabilities of the client.
versionError(m) ==
    IF m.version = None THEN None
    ELSE IF m.version \notin AllVersions THEN "unsupportedVersion"
    ELSE IF era(m) = "modern" /\ ~m.capabilities THEN "invalidParams" ELSE None

\* handle() and callTool() up to the first await: the answer, or the step that
\* produces it.
initialize(m) == IF m.params THEN "result" ELSE "invalidParams"
callTool(m) ==
    IF ~m.params THEN "invalidParams"
    ELSE IF m.tool \notin Tools THEN "unknownTool" ELSE "policy"
handle(m) ==
    CASE m.method = "initialize" -> initialize(m)
      [] m.method # "initialize" /\ versionError(m) # None -> versionError(m)
      [] m.method # "initialize" /\ versionError(m) = None ->
           CASE m.method \in {"server/discover", "ping"} -> "result"
             [] m.method = "tools/list" -> "list"
             [] m.method = "tools/call" -> callTool(m)
             [] OTHER -> "methodNotFound"

\* isMessage() fails, a notification has no response, a request is handled.
dispatch(m) ==
    IF ~m.valid THEN "invalidRequest" ELSE IF m.id = None THEN "none" ELSE handle(m)

Steps == {"list", "policy", "map", "tool"}
Call(m, via, status) ==
    [message |-> m, via |-> via, at |-> IF dispatch(m) \in Steps THEN dispatch(m) ELSE "settled",
     outcome |-> IF dispatch(m) \in Steps THEN None ELSE dispatch(m),
     aborted |-> FALSE, ran |-> FALSE, listed |-> {}, answer |-> None, status |-> status,
     headers |-> None]

At(n, label) == calls[n].at = label
Outcome(n, o) == calls' = [calls EXCEPT ![n].at = "settled", ![n].outcome = o]

\* allowedTools() and isAllowed(): a policy may throw, which nothing but the
\* transport catches.
allowedTools(n) ==
    /\ At(n, "list")
    /\ \/ calls' = [calls EXCEPT ![n].at = "settled", ![n].outcome = "result", ![n].listed = Allowed]
       \/ Outcome(n, "internalError")
    /\ UNCHANGED <<inFlight, input, cancelled>>

everyToolAllowed(t) == TRUE
isAllowed(t) == t \in Allowed
policy(n) ==
    /\ At(n, "policy")
    /\ \/ isAllowed(calls[n].message.tool) /\ calls' = [calls EXCEPT ![n].at = "map"]
       \/ ~isAllowed(calls[n].message.tool) /\ Outcome(n, "unknownTool")
       \/ Outcome(n, "internalError")
    /\ UNCHANGED <<inFlight, input, cancelled>>

\* McpToolInvoker.invoke(): arguments that cannot be mapped or are not valid make
\* a result that is an error; the class of the tool may fail to resolve.
mapArguments(n) ==
    /\ At(n, "map")
    /\ \/ Outcome(n, "toolError") \/ Outcome(n, "internalError")
       \/ calls' = [calls EXCEPT ![n].at = "tool", ![n].ran = TRUE]
    /\ UNCHANGED <<inFlight, input, cancelled>>

\* A tool that throws has an error result too; what it returned may not serialize.
toolSettles(n) ==
    /\ At(n, "tool")
    /\ Outcome(n, "result") \/ Outcome(n, "toolError") \/ Outcome(n, "internalError")
    /\ UNCHANGED <<inFlight, input, cancelled>>

-----------------------------------------------------------------------------
(* McpStdioTransport                                                       *)

InFlight(n) == calls[n].via = "stdio" /\ calls[n].at # "done"

\* serve() registers the controller of a request and dispatches it.
serve(m) ==
    LET n == Len(calls) + 1 IN
    /\ input = "open" /\ n <= MaxMessages /\ m.readable
    /\ m.id # None /\ ~ReuseIds =>
         \A k \in DOMAIN calls : InFlight(k) => calls[k].message.id # m.id
    /\ calls' = Append(calls, Call(m, "stdio", None))
    /\ inFlight' = IF m.id = None THEN inFlight ELSE [inFlight EXCEPT ![m.id] = n]
    /\ UNCHANGED <<input, cancelled>>

\* A line that is not JSON is answered at once.
parseError(m) ==
    /\ input = "open" /\ Len(calls) < MaxMessages /\ ~m.readable
    /\ calls' = Append(calls, [Call(m, "stdio", None) EXCEPT !.at = "done", !.answer = "parseError"])
    /\ UNCHANGED <<inFlight, input, cancelled>>

\* notifications/cancelled aborts the signal of the registered call.
cancelNobody(id) == calls
abort(id) == IF inFlight[id] = None THEN calls ELSE [calls EXCEPT ![inFlight[id]].aborted = TRUE]
cancel(id) ==
    /\ input = "open"
    /\ calls' = abort(id)
    /\ cancelled' = cancelled \cup {n \in DOMAIN calls : InFlight(n) /\ calls[n].message.id = id}
    /\ UNCHANGED <<inFlight, input>>

\* The promise of dispatch() settles, also that of a call that was cancelled.
settledUnlessAborted(n) == calls[n].via = "stdio" /\ At(n, "settled") /\ ~calls[n].aborted
hasSettled(n) == calls[n].via = "stdio" /\ At(n, "settled")

\* The response is written unless the call was cancelled; a failure is answered
\* when the request has an id.  The entry of the id is deleted, whosever it is.
respond(n) ==
    LET c == calls[n]
        silent == c.outcome = "none" \/ c.aborted
    IN
    /\ hasSettled(n)
    /\ calls' = [calls EXCEPT ![n].at = "done",
                   ![n].answer = IF silent THEN None ELSE c.outcome]
    /\ inFlight' = IF c.message.id = None THEN inFlight ELSE [inFlight EXCEPT ![c.message.id] = None]
    /\ UNCHANGED <<input, cancelled>>

endOfInput ==
    /\ input = "open"
    /\ input' = "closed"
    /\ UNCHANGED <<calls, inFlight, cancelled>>

\* listen() resolves when every promise that is pending has settled.
resolveAtOnce == TRUE
nothingPending == \A n \in DOMAIN calls : ~InFlight(n)
listenResolves ==
    /\ input = "closed" /\ nothingPending
    /\ input' = "resolved"
    /\ UNCHANGED <<calls, inFlight, cancelled>>

-----------------------------------------------------------------------------
(* McpHttpTransport                                                        *)

\* validateHeaders(): the error that refuses the request, or None.
anyHeaders(h, m) == None
validateHeaders(h, m) ==
    IF m.id = None THEN None
    ELSE IF m.version = None THEN
           CASE h.version = None \/ h.version \in LegacyVersions -> None
             [] h.version \in ModernVersions -> "invalidParams"
             [] OTHER -> "unsupportedVersion"
    ELSE IF h.version # m.version THEN "headerMismatch"
    ELSE IF m.version \notin ModernVersions THEN None
    ELSE IF h.method # m.method \/ (m.method = "tools/call" /\ h.tool # m.tool)
           THEN "headerMismatch" ELSE None

\* errorResult() and errorResponse(): a legacy client reads its errors from a 200.
status(m, outcome) ==
    CASE outcome \in {"result", "toolError"} -> 200
      [] outcome = "none" -> 202
      [] outcome = "internalError" -> 500
      [] outcome = "invalidRequest" -> 400
      [] OTHER -> IF era(m) = "legacy" THEN 200
                  ELSE IF outcome = "methodNotFound" THEN 404 ELSE 400

\* handle(): the origin, the method, the body and the headers are checked before
\* the message is dispatched.
refusal(h, m) ==
    CASE ~h.origin -> 403
      [] h.origin /\ ~h.post -> 405
      [] h.origin /\ h.post /\ (~m.readable \/ validateHeaders(h, m) # None) -> 400
      [] OTHER -> None
receive(h, m) ==
    /\ Len(calls) < MaxMessages
    /\ calls' = Append(calls,
         IF refusal(h, m) = None THEN [Call(m, "http", None) EXCEPT !.headers = h]
         ELSE [Call(m, "http", refusal(h, m)) EXCEPT !.at = "done", !.answer = "refused"])
    /\ UNCHANGED <<inFlight, input, cancelled>>

httpRespond(n) ==
    /\ calls[n].via = "http" /\ At(n, "settled")
    /\ calls' = [calls EXCEPT ![n].at = "done", ![n].answer = calls[n].outcome,
                              ![n].status = status(calls[n].message, calls[n].outcome)]
    /\ UNCHANGED <<inFlight, input, cancelled>>

Dispatched(n) == allowedTools(n) \/ policy(n) \/ mapArguments(n) \/ toolSettles(n)

McpNext ==
    \/ \E m \in Messages : serve(m) \/ parseError(m) \/ \E h \in Headers : receive(h, m)
    \/ \E id \in Ids : cancel(id)
    \/ \E n \in DOMAIN calls : Dispatched(n) \/ respond(n) \/ httpRespond(n)
    \/ endOfInput \/ listenResolves

\* What a call awaits settles; clients need not send, cancel or hang up.
Settles(n) == n \in DOMAIN calls /\ (Dispatched(n) \/ respond(n) \/ httpRespond(n))
McpSpec ==
    /\ McpInit /\ [][McpNext]_mcpVars
    /\ \A n \in 1..MaxMessages : WF_mcpVars(Settles(n))
    /\ WF_mcpVars(listenResolves)

-----------------------------------------------------------------------------
(* Properties                                                              *)

\* A request over stdio that nobody cancelled is answered before listen()
\* resolves, one that was cancelled in flight never is, and a notification never.
\* Stated for clients that do not reuse the id of a request in flight.
AnsweredUnlessCancelled ==
    ~ReuseIds => \A n \in DOMAIN calls : calls[n].via = "stdio" /\ calls[n].message.readable =>
        LET m == calls[n].message IN
        /\ n \in cancelled => calls[n].answer = None
        /\ m.valid /\ m.id = None => calls[n].answer = None
        /\ input = "resolved" /\ (~m.valid \/ m.id # None) /\ n \notin cancelled =>
             calls[n].answer # None

\* A tool runs only for a message that names it, that no policy refuses, and that
\* over HTTP came from an allowed origin with headers that agree with its body: what
\* a gateway decided on the headers holds for the tool that runs.
OnlyAllowedToolsRun ==
    \A n \in DOMAIN calls : calls[n].ran =>
        LET m == calls[n].message
            h == calls[n].headers
        IN
        /\ m.tool \in Tools \cap Allowed
        /\ m.method = "tools/call" /\ m.params
        /\ calls[n].via = "http" =>
             /\ h.origin /\ h.post
             /\ era(m) = "modern" => h.version = m.version /\ h.method = m.method /\ h.tool = m.tool

\* Both, for the messages of both transports.
McpIsSound == AnsweredUnlessCancelled /\ OnlyAllowedToolsRun

\* listen() resolves once the input is closed, whatever was cancelled or failed.
Closed == input = "closed"
Resolved == input = "resolved"
ListenResolves == Closed ~> Resolved
=============================================================================
