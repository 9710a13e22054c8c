------------------------------- MODULE MCHost -------------------------------
(***************************************************************************)
(* The parts that host an application, for TLC: a Kernel that is started   *)
(* and stopped or verified, the HTTP server, the process of `p:start`, the *)
(* MCP transports and the HTTP client.  A behaviour is of one part; the    *)
(* others stay in an initial state.                                        *)
(***************************************************************************)
EXTENDS KernelLifecycle, KernelVerification, HttpServer, GracefulShutdown, Mcp, HttpClient

CONSTANTS
    Parts,                    \* the parts to check
    app, http, net, log,      \* modules
    t1, t2                    \* tools

VARIABLE part
hostVars == <<part, kernelVars, verifyVars, httpVars, processVars, mcpVars, clientVars>>

-----------------------------------------------------------------------------
(* Values of the constants                                                  *)

\* Import graphs: every module imported once, or modules imported along several
\* paths, in both import orders.
Graph(a, h, n) ==
    [m \in {app, http, net, log} |-> CASE m = app -> a [] m = http -> h
                                       [] m = net -> n [] m = log -> <<>>]
TreesAndShared ==
    {Graph(<<http>>, <<net>>, <<log>>), Graph(<<http, log>>, <<net>>, <<>>),
     Graph(<<log, http, net>>, <<>>, <<>>),
     Graph(<<http, log>>, <<net, log>>, <<log>>), Graph(<<log, http>>, <<net, log>>, <<log>>),
     Graph(<<net, http>>, <<log, net>>, <<>>)}

\* LocalSchedulerManager is a singleton, KernelHttpServer is not.
SchedulersOnly == <<"scheduler", "worker">>
SchedulerHooks == <<"app", "scheduler", "worker", "store">>
HttpAndScheduler == <<"http", "scheduler">>
HttpHooks == <<"app", "http", "scheduler">>

Message(id, method, version, tool) ==
    [readable |-> TRUE, valid |-> TRUE, id |-> id, method |-> method, params |-> TRUE,
     version |-> version, capabilities |-> TRUE, tool |-> tool]
McpMessages ==
    {Message(1, "tools/call", None, t1), Message(1, "tools/call", "modern", t1), Message(1, "tools/call", "modern", t2),
     Message(2, "tools/list", None, None), Message(2, "other", "modern", None),
     Message(None, "notifications/initialized", None, None), Message(2, "ping", "future", None),
     [Message(2, "initialize", None, None) EXCEPT !.params = FALSE],
     [Message(1, "tools/call", "modern", t1) EXCEPT !.capabilities = FALSE],
     [Message(None, "ping", None, None) EXCEPT !.readable = FALSE],
     [Message(None, "ping", None, None) EXCEPT !.valid = FALSE]}
HttpHeaders(origin, post, version, method, tool) ==
    [origin |-> origin, post |-> post, version |-> version, method |-> method, tool |-> tool]
McpHeaders ==
    {HttpHeaders(TRUE, TRUE, None, None, None), HttpHeaders(TRUE, TRUE, "modern", "tools/call", t2),
     HttpHeaders(TRUE, TRUE, "modern", "tools/call", t1),
     HttpHeaders(FALSE, TRUE, None, None, None), HttpHeaders(TRUE, FALSE, None, None, None)}

Response(kind, location) == [status |-> kind, location |-> location]
AllResponses ==
    {Response(s, NoResponse) : s \in {"ok", "clientError", "serverError", "redirect"}}
    \cup {Response("redirect", [kind |-> k, to |-> "other"]) : k \in {"path", "absolute", "relative"}}
AllOptions ==
    [followRedirects : BOOLEAN, maximumNumberOfRedirects : 0..2, maximumNumberOfRetries : 0..2]

ASSUME HostAssumption ==
    KernelAssumption /\ ServerAssumption /\ ShutdownAssumption /\ ClientAssumption /\ McpAssumption

-----------------------------------------------------------------------------
Init ==
    /\ part \in Parts
    /\ KernelInit /\ VerifyInit /\ ServerInit /\ ProcessInit /\ McpInit /\ ClientInit
    /\ part # "kernel" => importModules = Graph(<<http>>, <<net>>, <<log>>)
    /\ part # "verification" => ~runInstantiationTests /\ ~stopOnFirstFailure
    /\ part # "client" => exchange = NewRequest(CHOOSE o \in Options : TRUE, "https:")

\* A step of the part leaves the rest alone.  verifyInstantiation() is called on a fresh
\* Kernel, never on one that was started.
InKernel == part = "kernel" /\ UNCHANGED <<part, verifyVars, httpVars, processVars, mcpVars, clientVars>>
InVerification ==
    part = "verification" /\ UNCHANGED <<part, kernelVars, httpVars, processVars, mcpVars, clientVars>>
InServer == part = "http" /\ UNCHANGED <<part, kernelVars, verifyVars, processVars, mcpVars, clientVars>>
InProcess == part = "shutdown" /\ UNCHANGED <<part, kernelVars, verifyVars, httpVars, mcpVars, clientVars>>
InTooling == part = "mcp" /\ UNCHANGED <<part, kernelVars, verifyVars, httpVars, processVars, clientVars>>
InClient == part = "client" /\ UNCHANGED <<part, kernelVars, verifyVars, httpVars, processVars, mcpVars>>
Next ==
    \/ InKernel /\ KernelNext
    \/ InVerification /\ VerifyNext
    \/ InServer /\ ServerNext
    \/ InProcess /\ ProcessNext
    \/ InTooling /\ McpNext
    \/ InClient /\ ClientNext

\* The fairness of each part, as its module states it.
Fairness ==
    /\ WF_hostVars(InKernel /\ Boots)
    /\ \A c \in Callers : WF_hostVars(InKernel /\ Proceeds(c))
    /\ \A g \in Generations : /\ WF_hostVars(InServer /\ Binds(g))
                              /\ WF_hostVars(InServer /\ DrainExpires(g))
                              /\ WF_hostVars(InServer /\ Close(g))
    /\ WF_hostVars(InProcess /\ HookCalled) /\ WF_hostVars(InProcess /\ GiveUpOnHook)
    /\ WF_hostVars(InProcess /\ KernelStopReturns) /\ WF_hostVars(InProcess /\ ExitAfterStop)
    /\ \A n \in 1..MaxMessages : WF_hostVars(InTooling /\ Settles(n))
    /\ WF_hostVars(InTooling /\ listenResolves)
    /\ WF_hostVars(InClient /\ request) /\ WF_hostVars(InClient /\ BackoffElapses)
    /\ WF_hostVars(InClient /\ Responds)
Spec == Init /\ [][Next]_hostVars
FairSpec == Spec /\ Fairness

-----------------------------------------------------------------------------
(* The invariants are those of the parts.                                   *)

\* What is stopped or awaited ends: Kernel.stop(), KernelHttpServer.stop() and the process,
\* although hooks hang, connections stay open and work never completes; and
\* McpStdioTransport.listen() and HttpClient.request() settle their promises.
PromisesSettle ==
    /\ StopReturnsEventually /\ StopResolves /\ ProcessEnds
    /\ Closed ~> Resolved
    /\ Requested ~> Settled
=============================================================================
