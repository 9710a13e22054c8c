------------------------------ MODULE HttpServer ------------------------------
(***************************************************************************)
(* One KernelHttpServer: binding, connections, requests with a bounded     *)
(* body, and stop() with its drain window.                                 *)
(*                                                                         *)
(* An instance may be started again after stop(); each start() creates a   *)
(* new Node server, called a generation.  `connections` is one set for all *)
(* generations.  Bodies are counted in chunks.  CORS decisions and what    *)
(* kernel.handle() computes are reduced to their outcome.                  *)
(***************************************************************************)
EXTENDS Naturals, FiniteSets

CONSTANTS
    Sockets,                \* connections clients may open, each once
    MaxGenerations,         \* how often start() may be called
    MaxBodySize,            \* kernel-server.max-body-size, in chunks
    NoServer,
    RestartWhileDraining    \* may start() be called before stop() resolved?

\* What the constants have to be.
ServerAssumption ==
    /\ MaxGenerations \in Nat /\ MaxBodySize \in Nat
    /\ RestartWhileDraining \in BOOLEAN /\ NoServer \notin 1..MaxGenerations

Generations == 1..MaxGenerations

VARIABLES
    server,       \* KernelHttpServer.server: a generation or NoServer
    generation,   \* the last generation created
    node,         \* the state of each Node server
    drainTimer,   \* generations whose drain timer is armed
    connections,  \* KernelHttpServer.connections
    owner,        \* the generation that accepted a socket
    socket,       \* the state of each socket
    received,     \* chunks of the current body
    destroyedBy   \* the generation whose drain timer destroyed the socket

httpVars == <<server, generation, node, drainTimer, connections, owner, socket,
          received, destroyedBy>>
serverVars == <<server, generation, node, drainTimer>>

Open(s) == socket[s] \in {"idle", "reading", "handling", "closing"}

ServerInit ==
    /\ server = NoServer
    /\ generation = 0
    /\ node = [g \in Generations |-> "new"]
    /\ drainTimer = {}
    /\ connections = {}
    /\ owner = [s \in Sockets |-> NoServer]
    /\ socket = [s \in Sockets |-> "new"]
    /\ received = [s \in Sockets |-> 0]
    /\ destroyedBy = [s \in Sockets |-> NoServer]

-----------------------------------------------------------------------------
(* start() and stop().                                                     *)

\* start() throws when a server is set; otherwise a Node server is created
\* and told to listen.
NoServerRunning == server = NoServer
ServerStart ==
    /\ NoServerRunning
    /\ generation < MaxGenerations
    /\ RestartWhileDraining \/ \A g \in Generations : node[g] # "closing"
    /\ generation' = generation + 1
    /\ server' = generation + 1
    /\ node' = [node EXCEPT ![generation + 1] = "binding"]
    /\ UNCHANGED <<drainTimer, connections, owner, socket, received, destroyedBy>>

\* The "listening" event: start() resolves.
Listening(g) ==
    /\ node[g] = "binding"
    /\ node' = [node EXCEPT ![g] = "listening"]
    /\ UNCHANGED <<server, generation, drainTimer, connections, owner, socket, received,
                   destroyedBy>>

\* The "error" event: start() rejects and forgets the server.
BindError(g) ==
    /\ node[g] = "binding"
    /\ node' = [node EXCEPT ![g] = "failed"]
    /\ server' = NoServer
    /\ UNCHANGED <<generation, drainTimer, connections, owner, socket, received,
                   destroyedBy>>

\* stop() of a server that listens: it is forgotten at once, the drain timer
\* is armed and server.close() refuses new connections.  Without a server
\* stop() does nothing.  Every caller awaits start() first, so stop() never
\* meets a server that is still binding.
WithoutDrainTimer(g) == drainTimer
WithDrainTimer(g) == drainTimer \cup {g}
ServerStop ==
    /\ server # NoServer
    /\ node[server] = "listening"
    /\ server' = NoServer
    /\ node' = [node EXCEPT ![server] = "closing"]
    /\ drainTimer' = WithDrainTimer(server)
    /\ UNCHANGED <<generation, connections, owner, socket, received, destroyedBy>>

\* The drain timer: every tracked connection is destroyed.
DrainExpires(g) ==
    /\ g \in drainTimer
    /\ drainTimer' = drainTimer \ {g}
    /\ socket' = [s \in Sockets |->
                    IF s \in connections /\ Open(s) THEN "closed" ELSE socket[s]]
    /\ destroyedBy' = [s \in Sockets |->
                         IF s \in connections /\ Open(s) THEN g ELSE destroyedBy[s]]
    /\ connections' = {s \in connections : ~Open(s)}
    /\ UNCHANGED <<server, generation, node, owner, received>>

\* The callback of server.close(), once the last connection of that Node
\* server is gone: the timer is cleared, the set emptied and stop() resolves.
KeepDrainTimer(g) == drainTimer
ClearDrainTimer(g) == drainTimer \ {g}
Close(g) ==
    /\ node[g] = "closing"
    /\ \A s \in Sockets : owner[s] = g => ~Open(s)
    /\ node' = [node EXCEPT ![g] = "closed"]
    /\ drainTimer' = ClearDrainTimer(g)
    /\ connections' = {}
    /\ UNCHANGED <<server, generation, owner, socket, received, destroyedBy>>

-----------------------------------------------------------------------------
(* Connections and requests.                                               *)

\* A client connects: the "connection" listener tracks the socket.
TrackNothing(s) == connections
TrackConnection(s) == connections \cup {s}
Connect(s, g) ==
    /\ socket[s] = "new"
    /\ node[g] = "listening"
    /\ socket' = [socket EXCEPT ![s] = "idle"]
    /\ owner' = [owner EXCEPT ![s] = g]
    /\ connections' = TrackConnection(s)
    /\ UNCHANGED <<serverVars, received, destroyedBy>>

SocketStep(s, from, to) ==
    /\ socket[s] = from
    /\ socket' = [socket EXCEPT ![s] = to]
    /\ UNCHANGED <<serverVars, connections, owner, destroyedBy>>

\* handleRequest() of a request other than GET and HEAD.  The body is read,
\* or a disallowed host or a CORS preflight is answered at once, or a declared
\* length over the limit is answered with 413.
RequestWithBody(s) ==
    /\ \E to \in {"reading", "idle", "closing"} : SocketStep(s, "idle", to)
    /\ received' = [received EXCEPT ![s] = 0]

\* A GET or HEAD request goes to kernel.handle() without a body.
RequestWithoutBody(s) ==
    /\ SocketStep(s, "idle", "handling")
    /\ received' = [received EXCEPT ![s] = 0]

\* readBody(): a chunk over the limit ends the reading with 413 and the
\* connection is closed after the answer.
OverLimitByMoreThanOne(n) == n > MaxBodySize + 1
OverLimit(n) == n > MaxBodySize
BodyChunk(s) ==
    /\ received' = [received EXCEPT ![s] = @ + 1]
    /\ SocketStep(s, "reading", IF OverLimit(received[s] + 1) THEN "closing" ELSE "reading")

\* The end of the body: kernel.handle() is called.
BodyEnds(s) ==
    /\ SocketStep(s, "reading", "handling")
    /\ UNCHANGED received

\* kernel.handle() settled: the response, or a 500, is written; when the
\* headers had been sent already, the response is destroyed.
WriteResponse(s) ==
    /\ \E to \in {"idle", "closing"} : SocketStep(s, "handling", to)
    /\ UNCHANGED received

\* A socket closes: the client hangs up at any time, a keep-alive socket of
\* a closing server times out, a 413 destroys it.
SocketCloses(s) ==
    /\ Open(s)
    /\ socket' = [socket EXCEPT ![s] = "closed"]
    /\ connections' = connections \ {s}
    /\ UNCHANGED <<serverVars, owner, received, destroyedBy>>

-----------------------------------------------------------------------------

ServerNext ==
    \/ ServerStart \/ ServerStop
    \/ \E g \in Generations :
         Listening(g) \/ BindError(g) \/ DrainExpires(g) \/ Close(g)
    \/ \E s \in Sockets :
         \/ \E g \in Generations : Connect(s, g)
         \/ RequestWithBody(s) \/ RequestWithoutBody(s) \/ BodyChunk(s)
         \/ BodyEnds(s) \/ WriteResponse(s) \/ SocketCloses(s)

\* Timers fire and Node reports what happened.  Clients need neither send
\* anything nor hang up, and kernel.handle() need not settle.
Binds(g) == Listening(g) \/ BindError(g)
ServerSpec ==
    /\ ServerInit /\ [][ServerNext]_httpVars
    /\ \A g \in Generations : WF_httpVars(Binds(g)) /\ WF_httpVars(DrainExpires(g)) /\ WF_httpVars(Close(g))

-----------------------------------------------------------------------------
(* Properties                                                              *)

\* Every variable keeps its type; no more than one chunk beyond the limit on a
\* body is ever received.
ServerTypeOK ==
    /\ server \in Generations \cup {NoServer}
    /\ generation \in 0..MaxGenerations
    /\ node \in [Generations -> {"new", "binding", "listening", "closing", "closed", "failed"}]
    /\ drainTimer \subseteq Generations
    /\ connections \subseteq Sockets
    /\ owner \in [Sockets -> Generations \cup {NoServer}]
    /\ socket \in [Sockets -> {"new", "idle", "reading", "handling", "closing", "closed"}]
    /\ received \in [Sockets -> 0..(MaxBodySize + 1)]
    /\ destroyedBy \in [Sockets -> Generations \cup {NoServer}]

\* "Set of currently-open connections": whatever clients, requests, failed
\* binds and restarts do, an open socket is tracked, so that stop() can
\* destroy it.
OpenConnectionsTracked == \A s \in Sockets : Open(s) => s \in connections

\* A drain timer destroys connections of the server it was armed for only,
\* never those of a server that was started since.
DrainSparesOthers ==
    \A s \in Sockets : destroyedBy[s] # NoServer => destroyedBy[s] = owner[s]

\* What stop() destroys is what is open, and only that, and no body outgrows its limit.
ConnectionsAreTracked == ServerTypeOK /\ OpenConnectionsTracked /\ DrainSparesOthers

\* KernelHttpServer keeps the contract of a runtime server: connections are accepted
\* only between start() and stop(), the drain timer leaves none of them open, and
\* stop() resolves when all are gone.
HttpContract ==
    INSTANCE RuntimeServer WITH
        Items <- Sockets, Awaiters <- Generations, CutsOff <- TRUE,
        accepting <- \E g \in Generations : node[g] = "listening",
        working <- {s \in Sockets : Open(s)},
        awaiting <- {g \in Generations : node[g] = "closing"}
HttpServerKeepsContract == HttpContract!ContractSpec

\* stop() resolves although keep-alive sockets stay open and requests hang.
Draining(g) == node[g] = "closing"
Drained(g) == node[g] = "closed"
StopResolves == \A g \in Generations : Draining(g) ~> Drained(g)
=============================================================================
