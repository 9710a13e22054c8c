----------------------------- MODULE HttpProofs -----------------------------
(***************************************************************************)
(* Proofs about packages/http.  HttpServer: for any number of connections, *)
(* restarts and body sizes, an instance that is not started again before   *)
(* its stop() resolved tracks exactly its open connections and destroys    *)
(* no other server's.  HttpClient: whatever the servers answer, the        *)
(* retries and redirects of one request are bounded by its options.  Mcp:  *)
(* a tool runs only for a message that names it, once per id in flight.    *)
(* HttpExchange: every answer follows the CORS policy.                     *)
(***************************************************************************)
EXTENDS HttpServer, HttpClient, Mcp, HttpExchange, TLAPS

\* A generation that has not ended: it will listen, listens or drains.
Active(g) == node[g] \in {"binding", "listening", "closing"}
\* One Node server at a time: what is forgotten is drained before the next is created.
OneAtATime ==
    /\ \A g, h \in Generations : Active(g) /\ Active(h) => g = h
    /\ \A g \in Generations : node[g] # "new" <=> g <= generation
    /\ \A g \in Generations : node[g] \in {"binding", "listening"} => server = g
    /\ server # NoServer => node[server] \in {"binding", "listening"}
    /\ \A g \in drainTimer : node[g] = "closing"

\* An open socket belongs to a Node server that serves or drains it.
OwnersAreActive ==
    \A s \in Sockets : Open(s) => owner[s] \in Generations /\ node[owner[s]] \in {"listening", "closing"}

\* A body that is still read has not exceeded its limit.
WithinLimit == \A s \in Sockets : socket[s] = "reading" => received[s] <= MaxBodySize
\* A socket that was destroyed is closed.
DestroyedIsClosed == \A s \in Sockets : destroyedBy[s] # NoServer => socket[s] = "closed"

TypeInv == ServerTypeOK /\ WithinLimit
ServerInv == TypeInv /\ OneAtATime /\ OwnersAreActive /\ DestroyedIsClosed
             /\ OpenConnectionsTracked /\ DrainSparesOthers

-----------------------------------------------------------------------------
\* The states of a socket, as sets the provers can enumerate.
LEMMA SocketStepFrame ==
    ASSUME NEW s, NEW from, NEW to, SocketStep(s, from, to)
    PROVE  /\ socket[s] = from /\ socket' = [socket EXCEPT ![s] = to]
           /\ UNCHANGED <<server, generation, node, drainTimer, connections, owner, destroyedBy>>
  BY DEF SocketStep, serverVars

\* The types, and the limit on a body, in every step of start(), stop() and requests.
LEMMA ServerTypeStep ==
    ASSUME ServerAssumption, TypeInv, [ServerNext]_httpVars
    PROVE  TypeInv'
<1> USE DEF TypeInv, ServerTypeOK, WithinLimit, ServerAssumption, Generations
<1>1. CASE ServerStart
  BY <1>1 DEF ServerStart
<1>2. CASE ServerStop
  BY <1>2 DEF ServerStop, WithDrainTimer
<1>3. ASSUME NEW g \in Generations, Listening(g) \/ BindError(g) \/ Close(g)
      PROVE  TypeInv'
  BY <1>3 DEF Listening, BindError, Close, ClearDrainTimer
<1>4. ASSUME NEW g \in Generations, DrainExpires(g)
      PROVE  TypeInv'
  BY <1>4 DEF DrainExpires, Open
<1>5. ASSUME NEW s \in Sockets, NEW g \in Generations, Connect(s, g)
      PROVE  TypeInv'
  BY <1>5 DEF Connect, TrackConnection, serverVars
<1>6. ASSUME NEW s \in Sockets, RequestWithBody(s) \/ RequestWithoutBody(s)
      PROVE  TypeInv'
  <2>1. received' = [received EXCEPT ![s] = 0]
    BY <1>6 DEF RequestWithBody, RequestWithoutBody
  <2>2. \E to \in {"reading", "idle", "closing", "handling"} : SocketStep(s, "idle", to)
    BY <1>6 DEF RequestWithBody, RequestWithoutBody
  <2> QED BY <2>1, <2>2 DEF SocketStep, serverVars
<1>7. ASSUME NEW s \in Sockets, BodyChunk(s)
      PROVE  TypeInv'
  <2>1. received[s] + 1 \in 0..(MaxBodySize + 1)
    BY <1>7 DEF BodyChunk, SocketStep
  <2>2. PICK to \in {"reading", "closing"} :
          /\ SocketStep(s, "reading", to)
          /\ to = "reading" => received[s] + 1 <= MaxBodySize
    BY <1>7, <2>1 DEF BodyChunk, OverLimit
  <2>3. QED
    BY <1>7, <2>1, <2>2 DEF BodyChunk, SocketStep, serverVars
<1>8. ASSUME NEW s \in Sockets, BodyEnds(s) \/ WriteResponse(s)
      PROVE  TypeInv'
  BY <1>8 DEF BodyEnds, WriteResponse, SocketStep, serverVars
<1>9. ASSUME NEW s \in Sockets, SocketCloses(s)
      PROVE  TypeInv'
  BY <1>9 DEF SocketCloses, serverVars
<1>10. CASE UNCHANGED httpVars
  BY <1>10 DEF httpVars
<1> QED
  BY <1>1, <1>2, <1>3, <1>4, <1>5, <1>6, <1>7, <1>8, <1>9, <1>10 DEF ServerNext

\* Every variable of KernelHttpServer keeps its type and no body outgrows its limit by
\* more than the chunk that ends it, also when start() is called while stop() drains.
THEOREM ServerTypeCorrect ==
    ASSUME ServerAssumption
    PROVE  ServerSpec => []ServerTypeOK
<1>1. ServerInit => TypeInv
  BY DEF ServerInit, TypeInv, ServerTypeOK, WithinLimit, ServerAssumption, Generations
<1>2. TypeInv /\ [ServerNext]_httpVars => TypeInv'
  BY ServerTypeStep
<1>3. TypeInv => ServerTypeOK
  BY DEF TypeInv
<1> QED
  BY <1>1, <1>2, <1>3, PTL DEF ServerSpec

-----------------------------------------------------------------------------
\* A step of one request moves its socket between open states and changes no server.
LEMMA RequestStep ==
    ASSUME ServerInv, NEW s \in Sockets, NEW from, NEW to, SocketStep(s, from, to),
           from \in {"idle", "reading", "handling"},
           to \in {"idle", "reading", "handling", "closing"}
    PROVE  (OneAtATime /\ OwnersAreActive /\ DestroyedIsClosed
            /\ OpenConnectionsTracked /\ DrainSparesOthers)'
<1> USE DEF ServerInv, TypeInv, ServerTypeOK
<1>1. socket' = [socket EXCEPT ![s] = to] /\ socket[s] = from
      /\ UNCHANGED <<server, generation, node, drainTimer, connections, owner, destroyedBy>>
  BY SocketStepFrame
<1>2. \A t \in Sockets : Open(t)' <=> Open(t)
  BY <1>1 DEF Open
<1>3. OneAtATime'
  BY <1>1 DEF OneAtATime, Active
<1>4. OwnersAreActive' /\ OpenConnectionsTracked' /\ DrainSparesOthers'
  BY <1>1, <1>2 DEF OwnersAreActive, OpenConnectionsTracked, DrainSparesOthers
<1>5. DestroyedIsClosed'
  BY <1>1 DEF DestroyedIsClosed
<1> QED BY <1>3, <1>4, <1>5

\* start() creates a Node server only when none is active, and close() forgets the
\* connections of the only one that was: this is where the restart is excluded.
LEMMA ServerInvStep ==
    ASSUME ServerAssumption, ~RestartWhileDraining, ServerInv, [ServerNext]_httpVars
    PROVE  ServerInv'
<1>0. TypeInv'
  BY ServerTypeStep DEF ServerInv
<1> DEFINE Goal == (OneAtATime /\ OwnersAreActive /\ DestroyedIsClosed
                    /\ OpenConnectionsTracked /\ DrainSparesOthers)'
<1> USE DEF ServerInv, TypeInv, ServerTypeOK, ServerAssumption, Generations
<1>1. ASSUME ServerStart PROVE Goal
  <2>1. generation + 1 \in Generations /\ node[generation + 1] = "new"
    BY <1>1 DEF ServerStart, OneAtATime
  <2>2. \A g \in Generations : ~Active(g)
    BY <1>1 DEF ServerStart, OneAtATime, Active, NoServerRunning
  <2>3. OneAtATime'
    BY <1>1, <2>1, <2>2 DEF ServerStart, OneAtATime, Active, NoServerRunning
  <2>4. \A s \in Sockets : ~Open(s)
    BY <2>2 DEF OwnersAreActive, Active
  <2>5. OwnersAreActive' /\ DestroyedIsClosed' /\ OpenConnectionsTracked' /\ DrainSparesOthers'
    BY <1>1, <2>4 DEF ServerStart, Open, OwnersAreActive, DestroyedIsClosed, OpenConnectionsTracked, DrainSparesOthers
  <2> QED BY <2>3, <2>5
<1>2. ASSUME ServerStop PROVE Goal
  <2>1. OneAtATime'
    BY <1>2 DEF ServerStop, OneAtATime, Active, WithDrainTimer
  <2>2. OwnersAreActive' /\ DestroyedIsClosed' /\ OpenConnectionsTracked' /\ DrainSparesOthers'
    BY <1>2 DEF ServerStop, Open, OwnersAreActive, DestroyedIsClosed, OpenConnectionsTracked, DrainSparesOthers
  <2> QED BY <2>1, <2>2
<1>3. ASSUME NEW g \in Generations, Listening(g) \/ BindError(g)
      PROVE  Goal
  <2>1. OneAtATime'
    <3>1. CASE Listening(g)
      BY <3>1 DEF Listening, OneAtATime, Active
    <3>2. CASE BindError(g)
      <4>1. server = g /\ \A h \in Generations \ {g} : ~Active(h)
        BY <3>2 DEF BindError, OneAtATime, Active
      <4> QED BY <3>2, <4>1 DEF BindError, OneAtATime, Active
    <3> QED BY <1>3, <3>1, <3>2
  <2>2. OwnersAreActive' /\ DestroyedIsClosed' /\ OpenConnectionsTracked' /\ DrainSparesOthers'
    BY <1>3 DEF Listening, BindError, Open, OwnersAreActive, DestroyedIsClosed, OpenConnectionsTracked, DrainSparesOthers
  <2> QED BY <2>1, <2>2
<1>4. ASSUME NEW g \in Generations, DrainExpires(g)
      PROVE  Goal
  <2>1. OneAtATime'
    BY <1>4 DEF DrainExpires, OneAtATime, Active
  <2>2. \A s \in Sockets : Open(s) => owner[s] = g
    BY <1>4 DEF DrainExpires, OneAtATime, OwnersAreActive, Active
  <2>3. \A s \in Sockets : ~Open(s)'
    BY <1>4 DEF DrainExpires, Open, OpenConnectionsTracked
  <2>4. OwnersAreActive' /\ OpenConnectionsTracked'
    BY <2>3 DEF OwnersAreActive, OpenConnectionsTracked
  <2>5. DestroyedIsClosed' /\ DrainSparesOthers'
    BY <1>4, <2>2 DEF DrainExpires, DestroyedIsClosed, DrainSparesOthers
  <2> QED BY <2>1, <2>4, <2>5
<1>5. ASSUME NEW g \in Generations, Close(g)
      PROVE  Goal
  <2>1. OneAtATime'
    BY <1>5 DEF Close, OneAtATime, Active, ClearDrainTimer
  <2>2. \A s \in Sockets : ~Open(s)
    BY <1>5 DEF Close, OneAtATime, OwnersAreActive, Active
  <2>3. OwnersAreActive' /\ DestroyedIsClosed' /\ OpenConnectionsTracked' /\ DrainSparesOthers'
    BY <1>5, <2>2 DEF Close, Open, OwnersAreActive, DestroyedIsClosed, OpenConnectionsTracked, DrainSparesOthers
  <2> QED BY <2>1, <2>3
<1>6. ASSUME NEW s \in Sockets, NEW g \in Generations, Connect(s, g)
      PROVE  Goal
  <2>1. OneAtATime'
    BY <1>6 DEF Connect, OneAtATime, Active, serverVars
  <2>2. OwnersAreActive' /\ OpenConnectionsTracked'
    BY <1>6 DEF Connect, Open, OwnersAreActive, OpenConnectionsTracked, TrackConnection, serverVars
  <2>3. destroyedBy[s] = NoServer
    BY <1>6 DEF Connect, DestroyedIsClosed
  <2>4. DestroyedIsClosed' /\ DrainSparesOthers'
    BY <1>6, <2>3 DEF Connect, DestroyedIsClosed, DrainSparesOthers
  <2> QED BY <2>1, <2>2, <2>4
<1>7. ASSUME NEW s \in Sockets,
             RequestWithBody(s) \/ RequestWithoutBody(s) \/ BodyChunk(s) \/ BodyEnds(s) \/ WriteResponse(s)
      PROVE  Goal
  <2>1. \E from \in {"idle", "reading", "handling"} :
          \E to \in {"idle", "reading", "handling", "closing"} : SocketStep(s, from, to)
    BY <1>7 DEF RequestWithBody, RequestWithoutBody, BodyChunk, BodyEnds, WriteResponse
  <2> QED BY <2>1, RequestStep
<1>8. ASSUME NEW s \in Sockets, SocketCloses(s)
      PROVE  Goal
  <2>1. OneAtATime'
    BY <1>8 DEF SocketCloses, OneAtATime, Active, serverVars
  <2>2. OwnersAreActive' /\ DestroyedIsClosed' /\ OpenConnectionsTracked' /\ DrainSparesOthers'
    BY <1>8 DEF SocketCloses, Open, OwnersAreActive, DestroyedIsClosed, OpenConnectionsTracked,
                DrainSparesOthers, serverVars
  <2> QED BY <2>1, <2>2
<1>9. ASSUME UNCHANGED httpVars PROVE Goal
  BY <1>9 DEF httpVars, OneAtATime, Active, Open, OwnersAreActive, DestroyedIsClosed,
              OpenConnectionsTracked, DrainSparesOthers
<1>10. Goal
  BY <1>1, <1>2, <1>3, <1>4, <1>5, <1>6, <1>7, <1>8, <1>9 DEF ServerNext
<1> QED BY <1>0, <1>10

\* KernelHttpServer, as its callers use it (stop() is awaited before start() is called
\* again): every open connection is tracked, so that stop() can destroy it, and a drain
\* timer destroys no connection of a later server.
THEOREM ServerTracksConnections ==
    ASSUME ServerAssumption, ~RestartWhileDraining
    PROVE  ServerSpec => []ConnectionsAreTracked
<1>1. ServerInit => ServerInv
  BY DEF ServerInit, ServerInv, TypeInv, ServerTypeOK, WithinLimit, ServerAssumption, Generations, OneAtATime, Active,
         Open, OwnersAreActive, DestroyedIsClosed, OpenConnectionsTracked, DrainSparesOthers
<1>2. ServerInv /\ [ServerNext]_httpVars => ServerInv'
  BY ServerInvStep
<1>3. ServerInv => ConnectionsAreTracked
  BY DEF ServerInv, TypeInv, ConnectionsAreTracked
<1> QED
  BY <1>1, <1>2, <1>3, PTL DEF ServerSpec

-----------------------------------------------------------------------------
(* KernelHttpServer implements RuntimeServer.                               *)

IsListening == \E g \in Generations : node[g] = "listening"
OpenSockets == {s \in Sockets : Open(s)}
ClosingServers == {g \in Generations : node[g] = "closing"}

\* The contract, in the terms of the server.
LEMMA HttpContractSees ==
    ASSUME UNCHANGED <<IsListening, OpenSockets, ClosingServers>>
    PROVE  UNCHANGED HttpContract!contractVars
  BY DEF HttpContract!contractVars, IsListening, OpenSockets, ClosingServers

LEMMA HttpContractTerms ==
    /\ HttpContract!StartResolves <=>
         ~IsListening /\ IsListening' = TRUE /\ ClosingServers' = {} /\ UNCHANGED OpenSockets
    /\ \A w : HttpContract!Begin(w) <=> /\ IsListening /\ w \notin OpenSockets /\ OpenSockets' = OpenSockets \cup {w}
                                        /\ UNCHANGED <<IsListening, ClosingServers>>
    /\ \A w : HttpContract!End(w) <=> /\ w \in OpenSockets /\ OpenSockets' = OpenSockets \ {w}
                                      /\ UNCHANGED <<IsListening, ClosingServers>>
    /\ \A C : HttpContract!StopCalled(C) <=>
                IsListening' = FALSE /\ ClosingServers' = ClosingServers \cup C /\ UNCHANGED OpenSockets
    /\ HttpContract!CutsOffTheRest <=> /\ ~IsListening /\ ClosingServers # {} /\ OpenSockets' = {}
                                       /\ UNCHANGED <<IsListening, ClosingServers>>
    /\ \A c : HttpContract!StopIsOver(c) <=> /\ c \in ClosingServers /\ ~IsListening /\ OpenSockets' = {}
                                             /\ ClosingServers' = ClosingServers \ {c} /\ UNCHANGED IsListening
  BY DEF HttpContract!StartResolves, HttpContract!Begin, HttpContract!End, HttpContract!StopCalled,
         HttpContract!CutsOffTheRest, HttpContract!StopIsOver, IsListening, OpenSockets, ClosingServers

\* Every step of the server is a step of the contract or a stutter: the drain timer leaves
\* nothing open because every open connection is tracked, and close() is called back when
\* all are gone because open connections are those of the server that drains.
LEMMA HttpContractStep ==
    ASSUME ServerAssumption, ~RestartWhileDraining, ServerInv, [ServerNext]_httpVars
    PROVE  [HttpContract!ContractNext]_(HttpContract!contractVars)
<1> DEFINE Goal == HttpContract!ContractNext \/ UNCHANGED HttpContract!contractVars
<1> SUFFICES Goal
  OBVIOUS
<1>t. /\ node \in [Generations -> {"new", "binding", "listening", "closing", "closed", "failed"}]
      /\ socket \in [Sockets -> {"new", "idle", "reading", "handling", "closing", "closed"}]
  BY DEF ServerInv, TypeInv, ServerTypeOK
<1>a. OneAtATime /\ OwnersAreActive /\ OpenConnectionsTracked
  BY DEF ServerInv
<1>1. ASSUME ServerStart PROVE Goal
  <2>1. generation + 1 \in Generations /\ node[generation + 1] = "new"
    BY <1>1, <1>a DEF ServerStart, OneAtATime, ServerInv, TypeInv, ServerTypeOK, ServerAssumption, Generations
  <2>2. node' = [node EXCEPT ![generation + 1] = "binding"] /\ UNCHANGED socket
    BY <1>1 DEF ServerStart
  <2>3. UNCHANGED <<IsListening, OpenSockets, ClosingServers>>
    BY <1>t, <2>1, <2>2 DEF IsListening, OpenSockets, ClosingServers, Open
  <2> QED BY <2>3, HttpContractSees
<1>2. ASSUME ServerStop PROVE Goal
  <2>1. /\ server \in Generations /\ node[server] = "listening" /\ node' = [node EXCEPT ![server] = "closing"]
        /\ UNCHANGED socket
    BY <1>2 DEF ServerStop, ServerInv, TypeInv, ServerTypeOK
  <2>2. IsListening' = FALSE
    BY <1>t, <1>a, <2>1 DEF IsListening, OneAtATime, Active
  <2>3. ClosingServers' = ClosingServers \cup {server}
    BY <1>t, <2>1 DEF ClosingServers
  <2>4. UNCHANGED OpenSockets
    BY <2>1 DEF OpenSockets, Open
  <2>5. PICK C \in SUBSET Generations : C = {server}
    BY <2>1
  <2>6. HttpContract!StopCalled(C)
    BY <2>2, <2>3, <2>4, <2>5, HttpContractTerms
  <2> QED BY <2>6 DEF HttpContract!ContractNext
<1>3. ASSUME NEW g \in Generations, Listening(g) PROVE Goal
  <2>1. node[g] = "binding" /\ node' = [node EXCEPT ![g] = "listening"] /\ UNCHANGED socket
    BY <1>3 DEF Listening
  <2>2. \A h \in Generations : Active(h) => h = g
    BY <1>a, <2>1 DEF OneAtATime, Active
  <2>3. ~IsListening /\ IsListening' = TRUE
    BY <1>t, <2>1, <2>2 DEF IsListening, Active
  <2>4. ClosingServers' = {}
    BY <1>t, <2>1, <2>2 DEF ClosingServers, Active
  <2>5. UNCHANGED OpenSockets
    BY <2>1 DEF OpenSockets, Open
  <2>6. HttpContract!StartResolves
    BY <2>3, <2>4, <2>5, HttpContractTerms
  <2> QED BY <2>6 DEF HttpContract!ContractNext
<1>4. ASSUME NEW g \in Generations, BindError(g) PROVE Goal
  <2>1. node[g] = "binding" /\ node' = [node EXCEPT ![g] = "failed"] /\ UNCHANGED socket
    BY <1>4 DEF BindError
  <2>2. UNCHANGED <<IsListening, OpenSockets, ClosingServers>>
    BY <1>t, <2>1 DEF IsListening, OpenSockets, ClosingServers, Open
  <2> QED BY <2>2, HttpContractSees
<1>5. ASSUME NEW g \in Generations, DrainExpires(g) PROVE Goal
  <2>1. /\ node[g] = "closing" /\ UNCHANGED node
        /\ socket' = [s \in Sockets |-> IF s \in connections /\ Open(s) THEN "closed" ELSE socket[s]]
    BY <1>5, <1>a DEF DrainExpires, OneAtATime
  <2>2. g \in ClosingServers /\ ~IsListening
    BY <1>a, <2>1 DEF ClosingServers, IsListening, OneAtATime, Active
  <2>3. UNCHANGED <<IsListening, ClosingServers>>
    BY <2>1 DEF IsListening, ClosingServers
  <2>4. OpenSockets' = {}
    BY <1>a, <2>1 DEF OpenSockets, Open, OpenConnectionsTracked
  <2>5. HttpContract!CutsOffTheRest
    BY <2>2, <2>3, <2>4, HttpContractTerms
  <2> QED BY <2>5 DEF HttpContract!ContractNext
<1>6. ASSUME NEW g \in Generations, Close(g) PROVE Goal
  <2>1. /\ node[g] = "closing" /\ node' = [node EXCEPT ![g] = "closed"] /\ UNCHANGED socket
        /\ \A s \in Sockets : owner[s] = g => ~Open(s)
    BY <1>6 DEF Close
  <2>2. g \in ClosingServers /\ ~IsListening
    BY <1>a, <2>1 DEF ClosingServers, IsListening, OneAtATime, Active
  <2>3. UNCHANGED IsListening /\ ClosingServers' = ClosingServers \ {g}
    BY <1>t, <2>1 DEF IsListening, ClosingServers
  <2>4. \A s \in Sockets : ~Open(s)
    BY <1>a, <2>1 DEF OneAtATime, OwnersAreActive, Active
  <2>5. OpenSockets' = {}
    BY <2>1, <2>4 DEF OpenSockets, Open
  <2>6. HttpContract!StopIsOver(g)
    BY <2>2, <2>3, <2>5, HttpContractTerms
  <2> QED BY <2>6 DEF HttpContract!ContractNext
<1>7. ASSUME NEW s \in Sockets, NEW g \in Generations, Connect(s, g) PROVE Goal
  <2>1. /\ socket[s] = "new" /\ node[g] = "listening" /\ socket' = [socket EXCEPT ![s] = "idle"]
        /\ UNCHANGED node
    BY <1>7 DEF Connect, serverVars
  <2>2. IsListening /\ UNCHANGED <<IsListening, ClosingServers>>
    BY <2>1 DEF IsListening, ClosingServers
  <2>3. s \notin OpenSockets /\ OpenSockets' = OpenSockets \cup {s}
    BY <1>t, <2>1 DEF OpenSockets, Open
  <2>4. HttpContract!Begin(s)
    BY <2>2, <2>3, HttpContractTerms
  <2> QED BY <2>4 DEF HttpContract!ContractNext
<1>8. ASSUME NEW s \in Sockets,
             RequestWithBody(s) \/ RequestWithoutBody(s) \/ BodyChunk(s) \/ BodyEnds(s) \/ WriteResponse(s)
      PROVE  Goal
  <2>1. PICK from \in {"idle", "reading", "handling"} :
          \E to \in {"idle", "reading", "handling", "closing"} : SocketStep(s, from, to)
    BY <1>8 DEF RequestWithBody, RequestWithoutBody, BodyChunk, BodyEnds, WriteResponse
  <2>2. PICK to \in {"idle", "reading", "handling", "closing"} : SocketStep(s, from, to)
    BY <2>1
  <2>3. socket[s] = from /\ socket' = [socket EXCEPT ![s] = to] /\ UNCHANGED node
    BY <2>2, SocketStepFrame
  <2>4. UNCHANGED <<IsListening, OpenSockets, ClosingServers>>
    BY <1>t, <2>3 DEF IsListening, OpenSockets, ClosingServers, Open
  <2> QED BY <2>4, HttpContractSees
<1>9. ASSUME NEW s \in Sockets, SocketCloses(s) PROVE Goal
  <2>1. Open(s) /\ socket' = [socket EXCEPT ![s] = "closed"] /\ UNCHANGED node
    BY <1>9 DEF SocketCloses, serverVars
  <2>2. UNCHANGED <<IsListening, ClosingServers>>
    BY <2>1 DEF IsListening, ClosingServers
  <2>3. s \in OpenSockets /\ OpenSockets' = OpenSockets \ {s}
    BY <1>t, <2>1 DEF OpenSockets, Open
  <2>4. HttpContract!End(s)
    BY <2>2, <2>3, HttpContractTerms
  <2> QED BY <2>4 DEF HttpContract!ContractNext
<1>10. ASSUME UNCHANGED httpVars PROVE Goal
  <2>1. UNCHANGED <<IsListening, OpenSockets, ClosingServers>>
    BY <1>10 DEF httpVars, IsListening, OpenSockets, ClosingServers, Open
  <2> QED BY <2>1, HttpContractSees
<1> QED BY <1>1, <1>2, <1>3, <1>4, <1>5, <1>6, <1>7, <1>8, <1>9, <1>10 DEF ServerNext

\* KernelHttpServer, as its callers use it, is the server p:start and the shutdown hooks take
\* it for: it implements RuntimeServer, with any number of connections and restarts.
THEOREM HttpServerImplementsContract ==
    ASSUME ServerAssumption, ~RestartWhileDraining
    PROVE  ServerSpec => HttpServerKeepsContract
<1>1. ServerInit => ServerInv
  BY DEF ServerInit, ServerInv, TypeInv, ServerTypeOK, WithinLimit, ServerAssumption, Generations, OneAtATime, Active,
         Open, OwnersAreActive, DestroyedIsClosed, OpenConnectionsTracked, DrainSparesOthers
<1>2. ServerInv /\ [ServerNext]_httpVars => ServerInv'
  BY ServerInvStep
<1>3. ServerInit => HttpContract!ContractInit
  BY DEF ServerInit, HttpContract!ContractInit, Open
<1>4. ServerInv /\ [ServerNext]_httpVars => [HttpContract!ContractNext]_(HttpContract!contractVars)
  BY HttpContractStep
<1> QED BY <1>1, <1>2, <1>3, <1>4, PTL DEF ServerSpec, HttpServerKeepsContract, HttpContract!ContractSpec

-----------------------------------------------------------------------------
(* HttpClient.  The requests of one URL are counted by `inHop`, those of    *)
(* all by `sent`; the options bound the retries of a URL and the redirects. *)

ExchangeFields ==
    {"pc", "options", "url", "sent", "inHop", "retryCount", "redirectCount", "response"}
ExchangeType ==
    /\ DOMAIN exchange = ExchangeFields
    /\ exchange.options \in Options
    /\ exchange.pc \in {"new", "sent", "resent", "backingOff", "resolved", "rejected", "forgotten"}
    /\ exchange.sent \in Nat /\ exchange.inHop \in Nat
    /\ exchange.retryCount \in Nat /\ exchange.redirectCount \in Nat

\* Every request to a URL but the first is a retry, and redirects need the option.
CountsAgree ==
    /\ exchange.inHop <= exchange.retryCount + 1
    /\ exchange.pc = "new" => exchange.inHop = 0 /\ exchange.retryCount = 0
    /\ exchange.pc = "backingOff" => exchange.inHop = exchange.retryCount
    /\ exchange.pc \in {"sent", "resent", "resolved"} => exchange.inHop = exchange.retryCount + 1
    /\ ~exchange.options.followRedirects => exchange.redirectCount = 0

MaximaHold ==
    LET R == exchange.options.maximumNumberOfRedirects
        T == exchange.options.maximumNumberOfRetries
    IN  /\ T > 0 => exchange.retryCount <= T
        /\ R > 0 => exchange.redirectCount <= R
        /\ T > 0 => exchange.sent <= exchange.redirectCount * (T + 1) + exchange.inHop

\* What a promise was resolved with.
ResolvedWith ==
    exchange.pc = "resolved" =>
        /\ exchange.response.status = "serverError" =>
             exchange.options.maximumNumberOfRetries > 0
             /\ exchange.retryCount >= exchange.options.maximumNumberOfRetries
        /\ exchange.response.status = "redirect" => ~exchange.options.followRedirects

ClientInv == ExchangeType /\ CountsAgree /\ MaximaHold /\ ResolvedWith

\* Retries of a URL that are used up, once more.
LEMMA NextHop ==
    ASSUME NEW T \in Nat, NEW c \in Nat, NEW n \in Nat, NEW k \in Nat,
           n <= c * (T + 1) + k, k <= T + 1
    PROVE  n <= (c + 1) * (T + 1)
<1>1. c * (T + 1) \in Nat /\ (c + 1) * (T + 1) = c * (T + 1) + (T + 1)
  OBVIOUS
<1> DEFINE p == c * (T + 1)
<1>2. p \in Nat /\ n <= p + k
  BY <1>1
<1> HIDE DEF p
<1>3. n <= p + (T + 1)
  BY <1>2
<1> QED BY <1>1, <1>3 DEF p

\* What executeRequest() does: one more request is sent, or the promise is rejected.
Sends(e, x, next) ==
    /\ DOMAIN x = ExchangeFields
    /\ x.options = e.options /\ x.retryCount = e.retryCount /\ x.redirectCount = e.redirectCount
    /\ \/ x.pc = "rejected" /\ x.sent = e.sent /\ x.inHop = e.inHop
       \/ x.pc = next /\ x.sent = e.sent + 1 /\ x.inHop = e.inHop + 1
\* executeRequest() counts the request it sends.
LEMMA ExecuteRequest ==
    ASSUME NEW e, DOMAIN e = ExchangeFields, NEW next
    PROVE  Sends(e, executeRequest(e, next), next)
  BY DEF executeRequest, ExchangeFields, Sends

\* One more request to the same URL.
LEMMA SentAgain ==
    ASSUME ClientInv, ClientAssumption, NEW next \in {"sent", "resent"},
           exchange.pc \in {"new", "backingOff"}, Sends(exchange, exchange', next)
    PROVE  ClientInv'
<1>1. exchange.inHop = exchange.retryCount
  BY DEF ClientInv, CountsAgree, ExchangeType
<1>2. ExchangeType' /\ CountsAgree' /\ ResolvedWith'
  BY <1>1 DEF ClientInv, Sends, ExchangeType, CountsAgree, ResolvedWith
<1>3. MaximaHold'
  <2> DEFINE T == exchange.options.maximumNumberOfRetries
             p == exchange.redirectCount * (T + 1)
  <2>1. T \in Nat /\ p \in Nat
    BY DEF ClientInv, ExchangeType, ClientAssumption
  <2>2. T > 0 => exchange.sent <= p + exchange.inHop
    BY DEF ClientInv, MaximaHold
  <2>3. T > 0 => exchange'.sent <= p + exchange'.inHop
    <3> HIDE DEF p, T
    <3> QED BY <2>1, <2>2 DEF ClientInv, ExchangeType, Sends
  <2> QED BY <2>3 DEF ClientInv, MaximaHold, Sends
<1> QED BY <1>2, <1>3 DEF ClientInv

\* A redirect that is followed: the next URL starts without retries.
Redirects(e, x) ==
    /\ e.options.followRedirects
    /\ e.options.maximumNumberOfRedirects > 0 => e.redirectCount < e.options.maximumNumberOfRedirects
    /\ DOMAIN x = ExchangeFields
    /\ x.options = e.options /\ x.retryCount = 0 /\ x.redirectCount = e.redirectCount + 1
    /\ \/ x.pc = "rejected" /\ x.sent = e.sent /\ x.inHop = 0
       \/ x.pc = "sent" /\ x.sent = e.sent + 1 /\ x.inHop = 1
\* One more hop: the retries start over.
LEMMA Redirected ==
    ASSUME ClientInv, ClientAssumption, exchange.pc \in {"sent", "resent"}, Redirects(exchange, exchange')
    PROVE  ClientInv'
<1>1. exchange.inHop = exchange.retryCount + 1
  BY DEF ClientInv, CountsAgree, ExchangeType
<1>2. ExchangeType' /\ CountsAgree' /\ ResolvedWith'
  BY <1>1 DEF ClientInv, Redirects, ExchangeType, CountsAgree, ResolvedWith
<1>3. MaximaHold'
  <2> DEFINE T == exchange.options.maximumNumberOfRetries
             c == exchange.redirectCount
             n == exchange.sent
             k == exchange.inHop
             q == (c + 1) * (T + 1)
  <2>1. T \in Nat /\ c \in Nat /\ n \in Nat /\ k \in Nat /\ exchange.options.maximumNumberOfRedirects \in Nat
    BY DEF ClientInv, ExchangeType, ClientAssumption
  <2>2. T > 0 => n <= c * (T + 1) + k /\ k <= T + 1
    BY <1>1, <2>1 DEF ClientInv, MaximaHold, ExchangeType
  <2>3. T > 0 => n <= q
    <3> HIDE DEF T, c, n, k
    <3> QED BY <2>1, <2>2, NextHop
  <2>4. q \in Nat
    <3> HIDE DEF T, c
    <3> QED BY <2>1
  <2>5. T > 0 => exchange'.sent <= q + exchange'.inHop
    <3> HIDE DEF T, q
    <3> QED BY <2>1, <2>3, <2>4 DEF Redirects
  <2> QED BY <2>1, <2>5 DEF ClientInv, MaximaHold, Redirects
<1> QED BY <1>2, <1>3 DEF ClientInv

\* What a response can do to a request that was sent: handleResponseError() followed by
\* handleResponseRedirect().
Moves(e, x, to) ==
    /\ DOMAIN x = ExchangeFields
    /\ x.options = e.options /\ x.redirectCount = e.redirectCount
    /\ x.sent = e.sent /\ x.inHop = e.inHop /\ x.pc = to
Retries(e, x) ==
    /\ Moves(e, x, "backingOff") /\ x.retryCount = e.retryCount + 1
    /\ e.options.maximumNumberOfRetries > 0 => e.retryCount < e.options.maximumNumberOfRetries
Resolves(e, x, r) ==
    /\ Moves(e, x, "resolved") /\ x.retryCount = e.retryCount /\ x.response = r
    /\ r.status = "serverError" => /\ e.options.maximumNumberOfRetries > 0
                                   /\ e.options.maximumNumberOfRetries <= e.retryCount
    /\ r.status = "redirect" => ~e.options.followRedirects
Rejects(e, x) == Moves(e, x, "rejected") /\ x.retryCount = e.retryCount

\* handleRedirect() follows, forgets or rejects.
LEMMA HandleRedirect ==
    ASSUME NEW e, NEW r, DOMAIN e = ExchangeFields,
           e.redirectCount \in Nat, e.options.maximumNumberOfRedirects \in Nat,
           r.status = "serverError" => /\ e.options.maximumNumberOfRetries > 0
                                       /\ e.options.maximumNumberOfRetries <= e.retryCount
    PROVE  LET x == handleResponseRedirect(e, r) IN
           Resolves(e, x, r) \/ Rejects(e, x) \/ Redirects(e, x)
<1>1. CASE ~isResponseRedirect(r) \/ ~e.options.followRedirects
  BY <1>1 DEF handleResponseRedirect, isResponseRedirect, Resolves, Moves, ExchangeFields
<1>2. CASE /\ isResponseRedirect(r) /\ e.options.followRedirects
           /\ \/ reached(e.options.maximumNumberOfRedirects, e.redirectCount) \/ r.location = NoResponse
              \/ appendLocationHeaderToUrl(e.url, r.location) = NoResponse
  BY <1>2 DEF handleResponseRedirect, Rejects, Moves, ExchangeFields
<1>3. CASE /\ isResponseRedirect(r) /\ e.options.followRedirects
           /\ ~reached(e.options.maximumNumberOfRedirects, e.redirectCount) /\ r.location # NoResponse
           /\ appendLocationHeaderToUrl(e.url, r.location) # NoResponse
  <2> DEFINE h == [e EXCEPT !.url = appendLocationHeaderToUrl(e.url, r.location),
                            !.redirectCount = @ + 1, !.retryCount = 0, !.inHop = 0]
  <2>1. handleResponseRedirect(e, r) = executeRequest(h, "sent")
    BY <1>3 DEF handleResponseRedirect
  <2>2. /\ DOMAIN h = ExchangeFields /\ h.options = e.options /\ h.retryCount = 0 /\ h.inHop = 0
        /\ h.redirectCount = e.redirectCount + 1 /\ h.sent = e.sent
    BY DEF ExchangeFields
  <2> HIDE DEF h
  <2>3. Sends(h, executeRequest(h, "sent"), "sent")
    BY <2>2, ExecuteRequest
  <2>4. e.options.maximumNumberOfRedirects > 0 => e.redirectCount < e.options.maximumNumberOfRedirects
    BY <1>3 DEF reached
  <2>5. \A x : Sends(h, x, "sent") => Redirects(e, x)
    BY <1>3, <2>2, <2>4 DEF Sends, Redirects
  <2> QED BY <2>1, <2>3, <2>5
<1> QED BY <1>1, <1>2, <1>3

\* handleResponseError() retries as often as allowed, then goes on to the redirects.
LEMMA HandleResponse ==
    ASSUME NEW e, NEW r, DOMAIN e = ExchangeFields,
           e.redirectCount \in Nat, e.options.maximumNumberOfRedirects \in Nat,
           e.retryCount \in Nat, e.options.maximumNumberOfRetries \in Nat
    PROVE  LET x == handleResponseError(e, r) IN
           Retries(e, x) \/ Resolves(e, x, r) \/ Rejects(e, x) \/ Redirects(e, x)
<1> DEFINE retried == isResponseError(r) /\ isRetryable(r)
                      /\ ~reached(e.options.maximumNumberOfRetries, e.retryCount)
<1>1. CASE retried
  <2>1. handleResponseError(e, r) = [e EXCEPT !.pc = "backingOff", !.retryCount = @ + 1, !.response = r]
    BY <1>1 DEF handleResponseError
  <2>2. Retries(e, [e EXCEPT !.pc = "backingOff", !.retryCount = @ + 1, !.response = r])
    BY <1>1 DEF Retries, Moves, ExchangeFields, reached
  <2> QED BY <2>1, <2>2
<1>2. CASE ~retried
  <2>1. handleResponseError(e, r) = handleResponseRedirect(e, r)
    BY <1>2 DEF handleResponseError
  <2>2. r.status = "serverError" => /\ e.options.maximumNumberOfRetries > 0
                                    /\ e.options.maximumNumberOfRetries <= e.retryCount
    BY <1>2 DEF isResponseError, isRetryable, reached
  <2> QED BY <2>1, <2>2, HandleRedirect
<1> QED BY <1>1, <1>2

\* The counters through every answer, failure, retry and redirect.
LEMMA ClientInvStep ==
    ASSUME ClientAssumption, ClientInv, [ClientNext]_clientVars
    PROVE  ClientInv'
<1>0. /\ DOMAIN exchange = ExchangeFields
      /\ exchange.redirectCount \in Nat /\ exchange.retryCount \in Nat
      /\ exchange.options.maximumNumberOfRedirects \in Nat /\ exchange.options.maximumNumberOfRetries \in Nat
  BY DEF ClientInv, ExchangeType, ClientAssumption
<1>1. CASE request
  <2>1. Sends(exchange, exchange', "sent")
    BY <1>0, <1>1, ExecuteRequest DEF request
  <2> QED BY <1>1, <2>1, SentAgain DEF request
<1>2. CASE BackoffElapses
  <2>1. Sends(exchange, exchange', "resent")
    BY <1>0, <1>2, ExecuteRequest DEF BackoffElapses
  <2> QED BY <1>2, <2>1, SentAgain DEF BackoffElapses
<1>3. CASE NetworkFails \/ InterceptorThrows
  <2>1. \E to \in {"rejected", "forgotten"} : Moves(exchange, exchange', to)
    BY <1>0, <1>3 DEF NetworkFails, InterceptorThrows, Moves, ExchangeFields
  <2>2. exchange'.retryCount = exchange.retryCount
    BY <1>0, <1>3 DEF NetworkFails, InterceptorThrows, ExchangeFields
  <2>3. ExchangeType' /\ CountsAgree' /\ ResolvedWith'
    BY <2>1, <2>2 DEF ClientInv, Moves, ExchangeType, CountsAgree, ResolvedWith
  <2>4. MaximaHold'
    BY <2>1, <2>2 DEF ClientInv, Moves, MaximaHold
  <2> QED BY <2>3, <2>4 DEF ClientInv
<1>4. ASSUME NEW r \in Responses, Answers(r)
      PROVE  ClientInv'
  <2>1. exchange.pc \in {"sent", "resent"} /\ exchange.inHop = exchange.retryCount + 1
    BY <1>4 DEF Answers, ClientInv, CountsAgree
  <2>2. \/ Retries(exchange, exchange') \/ Resolves(exchange, exchange', r)
        \/ Rejects(exchange, exchange') \/ Redirects(exchange, exchange')
    BY <1>0, <1>4, HandleResponse DEF Answers
  <2>3. CASE Redirects(exchange, exchange')
    BY <2>1, <2>3, Redirected
  <2>4. ASSUME Retries(exchange, exchange') \/ Resolves(exchange, exchange', r) \/ Rejects(exchange, exchange')
        PROVE  ClientInv'
    <3>1. ExchangeType'
      BY <2>4 DEF ClientInv, ExchangeType, Retries, Resolves, Rejects, Moves
    <3>2. CountsAgree'
      BY <2>1, <2>4 DEF ClientInv, ExchangeType, CountsAgree, Retries, Resolves, Rejects, Moves
    <3>3. ResolvedWith'
      BY <1>0, <2>4 DEF ResolvedWith, Retries, Resolves, Rejects, Moves
    <3>4. MaximaHold'
      <4>1. exchange'.options = exchange.options /\ exchange'.redirectCount = exchange.redirectCount
            /\ exchange'.sent = exchange.sent /\ exchange'.inHop = exchange.inHop
        BY <2>4 DEF Retries, Resolves, Rejects, Moves
      <4>2. exchange.options.maximumNumberOfRetries > 0 =>
              exchange'.retryCount <= exchange.options.maximumNumberOfRetries
        BY <1>0, <2>4 DEF ClientInv, MaximaHold, Retries, Resolves, Rejects
      <4> QED BY <4>1, <4>2 DEF ClientInv, MaximaHold
    <3> QED BY <3>1, <3>2, <3>3, <3>4 DEF ClientInv
  <2> QED BY <2>2, <2>3, <2>4
<1>5. CASE UNCHANGED clientVars
  BY <1>5 DEF clientVars, ClientInv, ExchangeType, CountsAgree, MaximaHold, ResolvedWith
<1> QED BY <1>1, <1>2, <1>3, <1>4, <1>5 DEF ClientNext

\* The bound on all requests from the bound on the redirects.
LEMMA TotalBound ==
    ASSUME NEW T \in Nat, NEW R \in Nat, NEW c \in Nat, NEW n \in Nat, NEW k \in Nat,
           n <= c * (T + 1) + k, k <= T + 1, c <= R
    PROVE  n <= (T + 1) * (R + 1)
<1>1. n <= (c + 1) * (T + 1)
  BY NextHop
<1>2. PICK d \in Nat : R = c + d
  <2>1. R - c \in Nat /\ R = c + (R - c)
    OBVIOUS
  <2> QED BY <2>1
<1>3. (T + 1) * (R + 1) = (c + 1) * (T + 1) + d * (T + 1)
  BY <1>2
<1>4. d * (T + 1) \in Nat /\ (c + 1) * (T + 1) \in Nat
  OBVIOUS
<1> DEFINE p == (c + 1) * (T + 1)
           q == d * (T + 1)
<1>5. n <= p + q
  <2>1. p \in Nat /\ q \in Nat /\ n <= p
    BY <1>1, <1>4
  <2> HIDE DEF p, q
  <2> QED BY <2>1
<1> QED BY <1>3, <1>5

\* HttpClient.request(), for all options, all responses and all their orders: maxima
\* above zero bound the requests to one URL and in all, a server error is returned only
\* after every retry and a redirect only when none is followed.
THEOREM ClientRequestsAreBounded ==
    ASSUME ClientAssumption
    PROVE  ClientSpec => []RequestsAreBounded
<1>1. ClientInit => ClientInv
  <2> SUFFICES ASSUME ClientInit PROVE ClientInv
    OBVIOUS
  <2>1. PICK o \in Options, p \in {"https:", "ftp:"} : exchange = NewRequest(o, p)
    BY DEF ClientInit
  <2>2. ExchangeType
    BY <2>1 DEF NewRequest, ExchangeType, ExchangeFields
  <2>3. CountsAgree /\ ResolvedWith
    BY <2>1 DEF NewRequest, CountsAgree, ResolvedWith
  <2>4. o.maximumNumberOfRedirects \in Nat /\ o.maximumNumberOfRetries \in Nat
    BY DEF ClientAssumption
  <2>5. MaximaHold
    BY <2>1, <2>4 DEF NewRequest, MaximaHold
  <2> QED BY <2>2, <2>3, <2>5 DEF ClientInv
<1>2. ClientInv /\ [ClientNext]_clientVars => ClientInv'
  BY ClientInvStep
<1>3. ClientInv => RequestsAreBounded
  <2> SUFFICES ASSUME ClientInv PROVE RequestsAreBounded
    OBVIOUS
  <2> DEFINE T == exchange.options.maximumNumberOfRetries
             R == exchange.options.maximumNumberOfRedirects
             c == exchange.redirectCount
             n == exchange.sent
             k == exchange.inHop
  <2>1. T \in Nat /\ R \in Nat /\ c \in Nat /\ n \in Nat /\ k \in Nat /\ exchange.retryCount \in Nat
    BY DEF ClientInv, ExchangeType, ClientAssumption
  <2>2. T > 0 => n <= c * (T + 1) + k /\ k <= T + 1
    BY <2>1 DEF ClientInv, MaximaHold, CountsAgree
  <2>3. R > 0 => c <= R
    BY DEF ClientInv, MaximaHold
  <2>4. T > 0 /\ R > 0 => n <= (T + 1) * (R + 1)
    <3> HIDE DEF T, R, c, n, k
    <3> QED BY <2>1, <2>2, <2>3, TotalBound
  <2>5. exchange.pc = "resolved" /\ exchange.response.status = "serverError" => T > 0 /\ k = T + 1
    BY <2>1 DEF ClientInv, ResolvedWith, CountsAgree, MaximaHold
  <2>6. exchange.pc = "resolved" /\ exchange.response.status = "redirect"
          => ~exchange.options.followRedirects /\ c = 0
    BY DEF ClientInv, ResolvedWith, CountsAgree
  <2> QED BY <2>2, <2>4, <2>5, <2>6 DEF RequestsAreBounded
<1> QED
  BY <1>1, <1>2, <1>3, PTL DEF ClientSpec

-----------------------------------------------------------------------------
(* Mcp: every call has its own answer.                                      *)
Statuses == {None, 200, 202, 400, 403, 404, 405, 500}
CallRecords ==
    [message : Messages, via : {"stdio", "http"}, at : Steps \cup {"settled", "done"},
     outcome : Outcomes \cup {None}, aborted : BOOLEAN, ran : BOOLEAN, listed : SUBSET Allowed,
     answer : Outcomes \cup {None, "parseError", "refused"},
     status : Statuses, headers : Headers \cup {None}]

\* A call that callTool() lets through, and that the HTTP transport did not refuse.
IsToolCall(c) ==
    /\ c.message.method = "tools/call" /\ c.message.params /\ c.message.tool \in Tools
    /\ c.message.id # None /\ versionError(c.message) = None
    /\ c.via = "http" => c.headers \in Headers /\ refusal(c.headers, c.message) = None

\* What a call has gone through, by where it is.
HasBeenChecked(c) ==
    /\ c.at \in {"policy", "map", "tool"} \/ c.ran => IsToolCall(c)
    /\ c.at \in {"map", "tool"} \/ c.ran => c.message.tool \in Allowed
HasItsAnswer(c) ==
    ~ReuseIds /\ c.via = "stdio" /\ c.message.readable =>
        /\ c.at \in Steps => ~(c.message.valid /\ c.message.id = None)
        /\ c.at \in {"settled", "done"} =>
              /\ c.outcome \in Outcomes
              /\ c.outcome = "none" <=> c.message.valid /\ c.message.id = None
        /\ c.at = "done" => c.answer = IF c.outcome = "none" \/ c.aborted THEN None ELSE c.outcome
        /\ c.at # "done" => c.answer = None
CallIsSound(c) == c \in CallRecords /\ HasBeenChecked(c) /\ HasItsAnswer(c)

\* The table of controllers, when clients do not reuse the id of a request in flight:
\* it has every request in flight, and nothing else.
Registered ==
    /\ \A n \in DOMAIN calls : InFlight(n) /\ calls[n].message.id # None =>
          inFlight[calls[n].message.id] = n
    /\ \A id \in Ids : inFlight[id] # None =>
          inFlight[id] \in DOMAIN calls /\ InFlight(inFlight[id]) /\ calls[inFlight[id]].message.id = id
Cancelled == \A n \in DOMAIN calls : calls[n].aborted <=> n \in cancelled

McpInv ==
    /\ calls \in Seq(CallRecords) /\ Len(calls) <= MaxMessages
    /\ \A n \in DOMAIN calls : CallIsSound(calls[n])
    /\ inFlight \in [Ids -> 1..MaxMessages \cup {None}]
    /\ input \in {"open", "closed", "resolved"} /\ cancelled \subseteq DOMAIN calls
    /\ ~ReuseIds => Registered /\ Cancelled
    /\ input = "resolved" => nothingPending

-----------------------------------------------------------------------------
\* What dispatch() decides before its first await.
LEMMA DispatchFacts ==
    ASSUME McpAssumption, NEW m \in Messages
    PROVE  /\ dispatch(m) \in Outcomes \cup {"list", "policy"}
           /\ dispatch(m) = "none" <=> m.valid /\ m.id = None
           /\ dispatch(m) \in Steps => m.id # None
           /\ dispatch(m) = "policy" =>
                 /\ m.method = "tools/call" /\ m.params /\ m.tool \in Tools
                 /\ m.id # None /\ versionError(m) = None
<1>1. versionError(m) \in {None, "unsupportedVersion", "invalidParams"}
  BY DEF versionError
<1>2. /\ handle(m) \in {"result", "invalidParams", "unsupportedVersion", "list", "unknownTool", "policy", "methodNotFound"}
      /\ handle(m) = "policy" => m.method = "tools/call" /\ m.params /\ m.tool \in Tools /\ versionError(m) = None
  <2>1. CASE m.method = "initialize"
    BY <2>1 DEF handle, initialize
  <2>2. CASE m.method # "initialize" /\ versionError(m) # None
    BY <1>1, <2>2 DEF handle
  <2>3. CASE m.method # "initialize" /\ versionError(m) = None
    BY <2>3 DEF handle, callTool
  <2> QED BY <2>1, <2>2, <2>3
<1> QED BY <1>2 DEF dispatch, Outcomes, Steps

\* A call record of which one field changes.
LEMMA FieldChanges ==
    ASSUME NEW r \in CallRecords
    PROVE  /\ \A x \in Steps \cup {"settled", "done"} : [r EXCEPT !.at = x] \in CallRecords
           /\ \A x \in Outcomes \cup {None} : [r EXCEPT !.outcome = x] \in CallRecords
           /\ \A x \in SUBSET Allowed : [r EXCEPT !.listed = x] \in CallRecords
           /\ \A x \in BOOLEAN : [r EXCEPT !.ran = x] \in CallRecords
           /\ \A x \in BOOLEAN : [r EXCEPT !.aborted = x] \in CallRecords
           /\ \A x \in Outcomes \cup {None, "parseError", "refused"} : [r EXCEPT !.answer = x] \in CallRecords
           /\ \A x \in Statuses : [r EXCEPT !.status = x] \in CallRecords
           /\ \A x \in Headers \cup {None} : [r EXCEPT !.headers = x] \in CallRecords
<1>1. \A x \in Steps \cup {"settled", "done"} : [r EXCEPT !.at = x] \in CallRecords
  BY DEF CallRecords
<1>2. \A x \in Outcomes \cup {None} : [r EXCEPT !.outcome = x] \in CallRecords
  BY DEF CallRecords
<1>3. \A x \in SUBSET Allowed : [r EXCEPT !.listed = x] \in CallRecords
  BY DEF CallRecords
<1>4. \A x \in BOOLEAN : [r EXCEPT !.ran = x] \in CallRecords
  BY DEF CallRecords
<1>5. \A x \in BOOLEAN : [r EXCEPT !.aborted = x] \in CallRecords
  BY DEF CallRecords
<1>6. \A x \in Outcomes \cup {None, "parseError", "refused"} : [r EXCEPT !.answer = x] \in CallRecords
  BY DEF CallRecords
<1>7. \A x \in Statuses : [r EXCEPT !.status = x] \in CallRecords
  BY DEF CallRecords
<1>8. \A x \in Headers \cup {None} : [r EXCEPT !.headers = x] \in CallRecords
  BY DEF CallRecords
<1> QED BY <1>1, <1>2, <1>3, <1>4, <1>5, <1>6, <1>7, <1>8

\* A call begins where dispatch() says, with its answer already known or still open.
LEMMA NewCall ==
    ASSUME McpAssumption, NEW m \in Messages, NEW via \in {"stdio", "http"},
           NEW st \in Statuses
    PROVE  LET c == Call(m, via, st) IN
           /\ c \in CallRecords /\ HasItsAnswer(c)
           /\ c.message = m /\ c.via = via /\ ~c.aborted /\ ~c.ran /\ c.at # "done"
           /\ c.at \in {"map", "tool"} => FALSE
           /\ c.at = "policy" => dispatch(m) = "policy"
<1> DEFINE c == Call(m, via, st)
<1>0. dispatch(m) \in Outcomes \cup {"list", "policy"}
  BY DispatchFacts
<1>1. CASE dispatch(m) \in Steps
  <2>1. c = [message |-> m, via |-> via, at |-> dispatch(m), outcome |-> None,
             aborted |-> FALSE, ran |-> FALSE, listed |-> {}, answer |-> None, status |-> st, headers |-> None]
    BY <1>1 DEF Call
  <2>2. dispatch(m) \in {"list", "policy"}
    BY <1>0, <1>1 DEF Outcomes, Steps
  <2> HIDE DEF c
  <2>3. c \in CallRecords
    BY <2>1, <2>2 DEF CallRecords, Steps
  <2> QED BY <1>1, <2>1, <2>2, <2>3, DispatchFacts DEF HasItsAnswer, Steps, c
<1>2. CASE dispatch(m) \notin Steps
  <2>1. c = [message |-> m, via |-> via, at |-> "settled", outcome |-> dispatch(m),
             aborted |-> FALSE, ran |-> FALSE, listed |-> {}, answer |-> None, status |-> st, headers |-> None]
    BY <1>2 DEF Call
  <2>2. dispatch(m) \in Outcomes
    BY <1>0, <1>2 DEF Steps
  <2> HIDE DEF c
  <2>3. c \in CallRecords
    BY <2>1, <2>2 DEF CallRecords
  <2> QED BY <2>1, <2>2, <2>3, DispatchFacts DEF HasItsAnswer, Steps, c
<1> QED BY <1>1, <1>2

\* A call goes on: the controllers and the cancellations are as they were.
LEMMA OneCallChanges ==
    ASSUME McpAssumption, McpInv, NEW n \in DOMAIN calls, NEW c, CallIsSound(c),
           calls' = [calls EXCEPT ![n] = c],
           c.message = calls[n].message, c.via = calls[n].via, c.aborted = calls[n].aborted,
           c.via = "stdio" => (c.at = "done" <=> calls[n].at = "done"),
           UNCHANGED <<inFlight, input, cancelled>>
    PROVE  McpInv'
<1>1. /\ calls' \in Seq(CallRecords) /\ Len(calls') = Len(calls) /\ DOMAIN calls' = DOMAIN calls
      /\ calls'[n] = c /\ \A k \in DOMAIN calls : k # n => calls'[k] = calls[k]
  BY DEF McpInv, CallIsSound
<1>2. \A k \in DOMAIN calls : /\ calls'[k].message = calls[k].message
                             /\ calls'[k].aborted = calls[k].aborted
                             /\ InFlight(k)' <=> InFlight(k)
  BY <1>1 DEF InFlight
<1>3. \A k \in DOMAIN calls' : CallIsSound(calls'[k])
  BY <1>1 DEF McpInv
<1>4. ~ReuseIds => Registered'
  <2> SUFFICES ASSUME ~ReuseIds PROVE Registered'
    OBVIOUS
  <2>1. Registered
    BY DEF McpInv
  <2> QED BY <1>1, <1>2, <2>1 DEF Registered
<1>5. ~ReuseIds => Cancelled'
  BY <1>1, <1>2 DEF McpInv, Cancelled
<1>6. input' = "resolved" => nothingPending'
  BY <1>1, <1>2 DEF McpInv, nothingPending
<1> QED BY <1>1, <1>3, <1>4, <1>5, <1>6 DEF McpInv

\* Where a call goes on before it is answered: nothing about its answer is decided but
\* the outcome, which is not "none".
LEMMA OutcomeStep ==
    ASSUME McpAssumption, McpInv, NEW n \in DOMAIN calls, calls[n].at \in Steps,
           NEW c \in CallRecords, c.at = "settled", c.outcome \in Outcomes \ {"none"},
           c.message = calls[n].message, c.via = calls[n].via, c.aborted = calls[n].aborted,
           c.ran = calls[n].ran, c.headers = calls[n].headers, c.answer = calls[n].answer,
           calls' = [calls EXCEPT ![n] = c], UNCHANGED <<inFlight, input, cancelled>>
    PROVE  McpInv'
<1>1. CallIsSound(calls[n])
  BY DEF McpInv
<1>2. HasBeenChecked(c)
  BY <1>1 DEF CallIsSound, HasBeenChecked, IsToolCall
<1>3. HasItsAnswer(c)
  BY <1>1 DEF CallIsSound, HasItsAnswer, Steps
<1>4. CallIsSound(c) /\ c.at # "done" /\ calls[n].at # "done"
  BY <1>2, <1>3 DEF CallIsSound, Steps
<1> QED BY <1>4, OneCallChanges

\* A call goes from one step to the next.
LEMMA MoveStep ==
    ASSUME McpAssumption, McpInv, NEW n \in DOMAIN calls, calls[n].at \in Steps,
           NEW c \in CallRecords, c.at \in Steps,
           c.message = calls[n].message, c.via = calls[n].via, c.aborted = calls[n].aborted,
           c.headers = calls[n].headers, c.answer = calls[n].answer,
           IsToolCall(calls[n]), calls[n].message.tool \in Allowed,
           calls' = [calls EXCEPT ![n] = c], UNCHANGED <<inFlight, input, cancelled>>
    PROVE  McpInv'
<1>1. CallIsSound(calls[n])
  BY DEF McpInv
<1>2. HasBeenChecked(c)
  BY DEF HasBeenChecked, IsToolCall
<1>3. HasItsAnswer(c)
  BY <1>1 DEF CallIsSound, HasItsAnswer, Steps
<1>4. CallIsSound(c) /\ c.at # "done" /\ calls[n].at # "done"
  BY <1>2, <1>3 DEF CallIsSound, Steps
<1> QED BY <1>4, OneCallChanges

\* McpDispatcher and McpToolInvoker after their awaits.
LEMMA DispatchedStep ==
    ASSUME McpAssumption, McpInv, NEW n \in DOMAIN calls, Dispatched(n)
    PROVE  McpInv'
<1>0. CallIsSound(calls[n]) /\ calls[n] \in CallRecords /\ UNCHANGED <<inFlight, input, cancelled>>
  BY DEF McpInv, CallIsSound, Dispatched, allowedTools, policy, mapArguments, toolSettles
<1>1. calls[n].at \in Steps
  BY DEF Dispatched, allowedTools, policy, mapArguments, toolSettles, At, Steps
<1>2. ASSUME NEW o \in Outcomes \ {"none"}, Outcome(n, o) PROVE McpInv'
  <2> DEFINE c == [calls[n] EXCEPT !.at = "settled", !.outcome = o]
  <2>1. c \in CallRecords
    <3>1. [calls[n] EXCEPT !.at = "settled"] \in CallRecords
      BY <1>0, FieldChanges
    <3> QED BY <3>1, FieldChanges
  <2>2. /\ c.at = "settled" /\ c.outcome = o
        /\ c.message = calls[n].message /\ c.via = calls[n].via /\ c.aborted = calls[n].aborted
        /\ c.ran = calls[n].ran /\ c.headers = calls[n].headers /\ c.answer = calls[n].answer
    BY <1>0 DEF CallRecords
  <2>3. calls' = [calls EXCEPT ![n] = c]
    BY <1>2 DEF Outcome
  <2> HIDE DEF c
  <2> QED BY <1>0, <1>1, <2>1, <2>2, <2>3, OutcomeStep
<1>3. CASE allowedTools(n)
  <2>1. CASE calls' = [calls EXCEPT ![n].at = "settled", ![n].outcome = "result", ![n].listed = Allowed]
    <3> DEFINE c == [calls[n] EXCEPT !.at = "settled", !.outcome = "result", !.listed = Allowed]
    <3>1. "result" \in Outcomes \ {"none"}
      BY DEF Outcomes
    <3>2. c \in CallRecords
      <4>1. [calls[n] EXCEPT !.at = "settled"] \in CallRecords
        BY <1>0, FieldChanges
      <4>2. [calls[n] EXCEPT !.at = "settled", !.outcome = "result"] \in CallRecords
        BY <3>1, <4>1, FieldChanges
      <4> QED BY <4>2, FieldChanges
    <3>3. /\ c.at = "settled" /\ c.outcome = "result"
          /\ c.message = calls[n].message /\ c.via = calls[n].via /\ c.aborted = calls[n].aborted
          /\ c.ran = calls[n].ran /\ c.headers = calls[n].headers /\ c.answer = calls[n].answer
      BY <1>0 DEF CallRecords
    <3>4. calls' = [calls EXCEPT ![n] = c]
      BY <2>1
    <3> HIDE DEF c
    <3> QED BY <1>0, <1>1, <3>1, <3>2, <3>3, <3>4, OutcomeStep
  <2> QED BY <1>2, <1>3, <2>1 DEF allowedTools, Outcomes
<1>4. CASE policy(n)
  <2>1. CASE isAllowed(calls[n].message.tool) /\ calls' = [calls EXCEPT ![n].at = "map"]
    <3> DEFINE c == [calls[n] EXCEPT !.at = "map"]
    <3>1. IsToolCall(calls[n])
      BY <1>0, <1>4 DEF policy, At, CallIsSound, HasBeenChecked
    <3>2. c \in CallRecords
      BY <1>0, FieldChanges DEF Steps
    <3>3. /\ c.at = "map"
          /\ c.message = calls[n].message /\ c.via = calls[n].via /\ c.aborted = calls[n].aborted
          /\ c.headers = calls[n].headers /\ c.answer = calls[n].answer
      BY <1>0 DEF CallRecords
    <3>4. calls' = [calls EXCEPT ![n] = c] /\ calls[n].message.tool \in Allowed
      BY <2>1 DEF isAllowed
    <3> HIDE DEF c
    <3>5. c.at \in Steps
      BY <3>3 DEF Steps
    <3> QED BY <1>0, <1>1, <3>1, <3>2, <3>3, <3>4, <3>5, MoveStep
  <2> QED BY <1>2, <1>4, <2>1 DEF policy, Outcomes
<1>5. CASE mapArguments(n)
  <2>1. CASE calls' = [calls EXCEPT ![n].at = "tool", ![n].ran = TRUE]
    <3> DEFINE c == [calls[n] EXCEPT !.at = "tool", !.ran = TRUE]
    <3>1. IsToolCall(calls[n]) /\ calls[n].message.tool \in Allowed
      BY <1>0, <1>5 DEF mapArguments, At, CallIsSound, HasBeenChecked
    <3>2. c \in CallRecords
      <4>1. [calls[n] EXCEPT !.at = "tool"] \in CallRecords
        BY <1>0, FieldChanges DEF Steps
      <4> QED BY <4>1, FieldChanges
    <3>3. /\ c.at = "tool"
          /\ c.message = calls[n].message /\ c.via = calls[n].via /\ c.aborted = calls[n].aborted
          /\ c.headers = calls[n].headers /\ c.answer = calls[n].answer
      BY <1>0 DEF CallRecords
    <3>4. calls' = [calls EXCEPT ![n] = c]
      BY <2>1
    <3> HIDE DEF c
    <3>5. c.at \in Steps
      BY <3>3 DEF Steps
    <3> QED BY <1>0, <1>1, <3>1, <3>2, <3>3, <3>4, <3>5, MoveStep
  <2> QED BY <1>2, <1>5, <2>1 DEF mapArguments, Outcomes
<1>6. CASE toolSettles(n)
  BY <1>2, <1>6 DEF toolSettles, Outcomes
<1> QED BY <1>3, <1>4, <1>5, <1>6 DEF Dispatched

\* A call that is answered keeps the type of its record.
LEMMA AnsweredCall ==
    ASSUME NEW r \in CallRecords, NEW o \in Outcomes \cup {None}
    PROVE  [r EXCEPT !.at = "done", !.answer = o] \in CallRecords
<1>1. PICK q \in CallRecords : q = [r EXCEPT !.at = "done"]
  BY FieldChanges
<1>2. [q EXCEPT !.answer = o] \in CallRecords
  BY DEF CallRecords
<1> QED BY <1>1, <1>2

\* A call that is answered with a status is still a call.
LEMMA AnsweredOverHttp ==
    ASSUME NEW r \in CallRecords, NEW o \in Outcomes \cup {None},
           NEW x \in Statuses
    PROVE  [r EXCEPT !.at = "done", !.answer = o, !.status = x] \in CallRecords
<1>1. PICK q \in CallRecords : q = [r EXCEPT !.at = "done", !.answer = o]
  BY AnsweredCall
<1>2. [q EXCEPT !.status = x] \in CallRecords
  BY DEF CallRecords
<1> QED BY <1>1, <1>2

\* McpHttpTransport.handle() answers.
LEMMA HttpRespondStep ==
    ASSUME McpAssumption, McpInv, NEW n \in DOMAIN calls, httpRespond(n)
    PROVE  McpInv'
<1> DEFINE st == status(calls[n].message, calls[n].outcome)
           c == [calls[n] EXCEPT !.at = "done", !.answer = calls[n].outcome, !.status = st]
<1>0. CallIsSound(calls[n]) /\ calls[n] \in CallRecords /\ UNCHANGED <<inFlight, input, cancelled>>
  BY DEF McpInv, CallIsSound, httpRespond
<1>1. st \in Statuses /\ calls[n].outcome \in Outcomes \cup {None}
  BY <1>0 DEF status, CallRecords, Statuses
<1>2. c \in CallRecords
  <2>1. PICK r \in CallRecords : r = calls[n]
    BY <1>0
  <2>2. PICK o \in Outcomes \cup {None} : o = calls[n].outcome
    BY <1>1
  <2>3. PICK x \in Statuses : x = st
    BY <1>1
  <2>4. [r EXCEPT !.at = "done", !.answer = o, !.status = x] \in CallRecords
    BY AnsweredOverHttp
  <2> HIDE DEF st
  <2> QED BY <2>1, <2>2, <2>3, <2>4
<1>3. /\ c.at = "done"
      /\ c.message = calls[n].message /\ c.via = calls[n].via /\ c.aborted = calls[n].aborted
      /\ c.ran = calls[n].ran /\ c.headers = calls[n].headers
  BY <1>0 DEF CallRecords
<1>4. calls' = [calls EXCEPT ![n] = c] /\ calls[n].via = "http"
  BY DEF httpRespond
<1> HIDE DEF c
<1>5. CallIsSound(c)
  BY <1>0, <1>2, <1>3, <1>4 DEF CallIsSound, HasBeenChecked, HasItsAnswer, IsToolCall
<1> QED BY <1>0, <1>3, <1>4, <1>5, OneCallChanges

\* McpStdioTransport answers, unless the call was cancelled, and forgets its controller:
\* without reused ids that is the one of this call.
LEMMA RespondStep ==
    ASSUME McpAssumption, McpInv, NEW n \in DOMAIN calls, respond(n)
    PROVE  McpInv'
<1> DEFINE silent == calls[n].outcome = "none" \/ calls[n].aborted
           o == IF silent THEN None ELSE calls[n].outcome
           id == calls[n].message.id
           c == [calls[n] EXCEPT !.at = "done", !.answer = o]
<1>0. CallIsSound(calls[n]) /\ calls[n] \in CallRecords /\ UNCHANGED <<input, cancelled>>
  BY DEF McpInv, CallIsSound, respond
<1>1. o \in Outcomes \cup {None}
  BY <1>0 DEF CallRecords
<1>2. calls[n].via = "stdio" /\ calls[n].at = "settled" /\ calls' = [calls EXCEPT ![n] = c]
      /\ inFlight' = IF id = None THEN inFlight ELSE [inFlight EXCEPT ![id] = None]
  BY DEF respond, hasSettled, At
<1>3. c \in CallRecords
  <2> HIDE DEF o
  <2>1. PICK r \in CallRecords : r = calls[n]
    BY <1>0
  <2>2. [r EXCEPT !.at = "done", !.answer = o] \in CallRecords
    BY <1>1, AnsweredCall
  <2> QED BY <2>1, <2>2
<1>4. /\ c.at = "done" /\ c.answer = o /\ c.outcome = calls[n].outcome
      /\ c.message = calls[n].message /\ c.via = calls[n].via /\ c.aborted = calls[n].aborted
      /\ c.ran = calls[n].ran /\ c.headers = calls[n].headers
  BY <1>0 DEF CallRecords
<1> HIDE DEF c
<1>5. CallIsSound(c)
  <2>1. HasBeenChecked(c)
    BY <1>0, <1>4 DEF CallIsSound, HasBeenChecked, IsToolCall
  <2>2. HasItsAnswer(c)
    BY <1>0, <1>2, <1>4 DEF CallIsSound, HasItsAnswer, Steps
  <2> QED BY <1>3, <2>1, <2>2 DEF CallIsSound
<1>6. id = None \/ id \in Ids
  BY <1>0 DEF Ids, CallRecords
<1>7. /\ calls' \in Seq(CallRecords) /\ Len(calls') = Len(calls) /\ DOMAIN calls' = DOMAIN calls
      /\ calls'[n] = c /\ \A k \in DOMAIN calls : k # n => calls'[k] = calls[k]
  BY <1>2, <1>3 DEF McpInv
<1>8. /\ \A k \in DOMAIN calls : /\ calls'[k].message = calls[k].message
                                /\ calls'[k].aborted = calls[k].aborted
                                /\ k # n => (InFlight(k)' <=> InFlight(k))
      /\ InFlight(n) /\ ~InFlight(n)'
  BY <1>2, <1>4, <1>7 DEF InFlight
<1>9. inFlight' \in [Ids -> 1..MaxMessages \cup {None}]
  BY <1>2 DEF McpInv
<1>10. \A k \in DOMAIN calls' : CallIsSound(calls'[k])
  BY <1>5, <1>7 DEF McpInv
<1>11. ~ReuseIds => Registered'
  <2> SUFFICES ASSUME ~ReuseIds PROVE Registered'
    OBVIOUS
  <2>1. Registered /\ inFlight \in [Ids -> 1..MaxMessages \cup {None}]
    BY DEF McpInv
  <2>2. \A i \in Ids : inFlight'[i] = IF i = id THEN None ELSE inFlight[i]
    BY <1>2, <2>1 DEF Ids
  <2>3. \A k \in DOMAIN calls : calls[k].message.id = None \/ calls[k].message.id \in Ids
    BY DEF McpInv, CallIsSound, CallRecords, Ids
  <2>4. ASSUME NEW k \in DOMAIN calls', InFlight(k)', calls'[k].message.id # None
        PROVE  inFlight'[calls'[k].message.id] = k
    <3>1. k # n /\ InFlight(k) /\ inFlight[calls[k].message.id] = k /\ calls[k].message.id \in Ids
      BY <1>7, <1>8, <2>1, <2>3, <2>4 DEF Registered
    <3>2. calls[k].message.id # id
      <4>1. id # None => inFlight[id] = n
        BY <1>8, <2>1 DEF Registered
      <4> QED BY <2>4, <3>1, <4>1, <1>7, <1>8
    <3> QED BY <1>7, <1>8, <2>2, <3>1, <3>2
  <2>5. ASSUME NEW i \in Ids, inFlight'[i] # None
        PROVE  /\ inFlight'[i] \in DOMAIN calls'
               /\ InFlight(inFlight[i])' /\ inFlight'[i] = inFlight[i]
               /\ calls'[inFlight'[i]].message.id = i
    <3>1. i # id /\ inFlight'[i] = inFlight[i]
      BY <2>2, <2>5
    <3>2. inFlight[i] \in DOMAIN calls /\ InFlight(inFlight[i]) /\ calls[inFlight[i]].message.id = i
      BY <2>1, <2>5, <3>1 DEF Registered
    <3>3. inFlight[i] # n
      BY <3>1, <3>2
    <3>4. InFlight(inFlight[i])'
      BY <1>7, <3>1, <3>2, <3>3 DEF InFlight
    <3> QED BY <1>7, <1>8, <3>1, <3>2, <3>4
  <2> QED BY <2>4, <2>5 DEF Registered, InFlight
<1>12. ~ReuseIds => Cancelled'
  <2> HIDE DEF o, id, silent
  <2> SUFFICES ASSUME ~ReuseIds PROVE Cancelled'
    OBVIOUS
  <2>1. Cancelled
    BY DEF McpInv
  <2>2. ASSUME NEW k \in DOMAIN calls' PROVE calls'[k].aborted <=> k \in cancelled'
    <3>0. k \in DOMAIN calls
      BY <1>7
    <3>1. calls'[k].aborted = calls[k].aborted /\ cancelled' = cancelled
      <4>1. cancelled' = cancelled
        BY <1>0
      <4>2. CASE k = n
        BY <4>1, <1>4, <1>7, <4>2, Zenon
      <4>3. CASE k # n
        BY <4>1, <1>7, <3>0, <4>3, Zenon
      <4> QED BY <4>1, <4>2, <4>3, Zenon
    <3>2. calls[k].aborted <=> k \in cancelled
      BY <2>1, <3>0 DEF Cancelled
    <3> QED BY <3>1, <3>2, Zenon
  <2> QED BY <2>2, Zenon DEF Cancelled
<1>13. input' = "resolved" => nothingPending'
  BY <1>0, <1>7, <1>8 DEF McpInv, nothingPending
<1> QED BY <1>0, <1>7, <1>9, <1>10, <1>11, <1>12, <1>13 DEF McpInv

\* A call joins the others; nobody has cancelled it yet.
LEMMA JoinStep ==
    ASSUME McpAssumption, McpInv, NEW c, CallIsSound(c), ~c.aborted,
           calls' = Append(calls, c), Len(calls) + 1 <= MaxMessages, UNCHANGED <<input, cancelled>>,
           inFlight' \in [Ids -> 1..MaxMessages \cup {None}],
           ~ReuseIds => Registered',
           input = "resolved" => ~(c.via = "stdio" /\ c.at # "done")
    PROVE  McpInv'
<1>1. /\ calls \in Seq(CallRecords) /\ c \in CallRecords /\ Len(calls) \in Nat /\ DOMAIN calls = 1..Len(calls)
      /\ cancelled \subseteq DOMAIN calls
  BY DEF McpInv, CallIsSound
<1>2. /\ calls' \in Seq(CallRecords) /\ Len(calls') = Len(calls) + 1 /\ DOMAIN calls' = 1..(Len(calls) + 1)
      /\ calls'[Len(calls) + 1] = c /\ \A k \in DOMAIN calls : calls'[k] = calls[k]
  BY <1>1
<1>3. \A k \in DOMAIN calls' : k \in DOMAIN calls \/ k = Len(calls) + 1
  BY <1>1, <1>2
<1>4. \A k \in DOMAIN calls' : CallIsSound(calls'[k])
  BY <1>2, <1>3 DEF McpInv
<1>5. ~ReuseIds => Cancelled'
  <2> SUFFICES ASSUME ~ReuseIds, NEW k \in DOMAIN calls' PROVE calls'[k].aborted <=> k \in cancelled'
    BY DEF Cancelled
  <2>1. CASE k \in DOMAIN calls
    <3>1. calls[k].aborted <=> k \in cancelled
      BY <2>1 DEF McpInv, Cancelled
    <3>2. calls'[k] = calls[k]
      BY <1>2, <2>1
    <3> QED BY <3>1, <3>2
  <2>2. CASE k = Len(calls) + 1
    <3>1. k \notin cancelled
      BY <1>1, <2>2
    <3>2. calls'[k] = c
      BY <1>2, <2>2
    <3> QED BY <3>1, <3>2
  <2> QED BY <1>3, <2>1, <2>2
<1>6. input' = "resolved" => nothingPending'
  BY <1>2, <1>3 DEF McpInv, nothingPending, InFlight
<1>7. Len(calls') <= MaxMessages /\ cancelled' \subseteq DOMAIN calls'
  BY <1>1, <1>2
<1> QED BY <1>2, <1>4, <1>5, <1>6, <1>7 DEF McpInv

\* A call that is not in flight over stdio joins: the controllers stay as they are.
LEMMA JoinUnregistered ==
    ASSUME McpAssumption, McpInv, NEW c, CallIsSound(c), ~c.aborted, ~(c.via = "stdio" /\ c.at # "done"),
           calls' = Append(calls, c), Len(calls) < MaxMessages, UNCHANGED <<inFlight, input, cancelled>>
    PROVE  McpInv'
<1>1. /\ calls \in Seq(CallRecords) /\ c \in CallRecords /\ Len(calls) \in Nat /\ DOMAIN calls = 1..Len(calls)
      /\ inFlight \in [Ids -> 1..MaxMessages \cup {None}] /\ MaxMessages \in Nat
  BY DEF McpInv, CallIsSound, McpAssumption
<1>2. /\ DOMAIN calls' = 1..(Len(calls) + 1)
      /\ calls'[Len(calls) + 1] = c /\ \A k \in DOMAIN calls : calls'[k] = calls[k]
  BY <1>1
<1>3. \A k \in DOMAIN calls' : k \in DOMAIN calls \/ k = Len(calls) + 1
  BY <1>1, <1>2
<1>4. \A k \in DOMAIN calls : k \in DOMAIN calls'
  BY <1>1, <1>2
<1>5. ~ReuseIds => Registered'
  <2> SUFFICES ASSUME ~ReuseIds PROVE Registered'
    OBVIOUS
  <2>1. Registered
    BY DEF McpInv
  <2>2. \A k \in DOMAIN calls' : InFlight(k)' => k \in DOMAIN calls /\ InFlight(k)
    BY <1>2, <1>3 DEF InFlight
  <2>3. \A k \in DOMAIN calls : InFlight(k) => InFlight(k)'
    BY <1>2 DEF InFlight
  <2>4. \A k \in DOMAIN calls : calls'[k].message = calls[k].message
    BY <1>2
  <2>5. \A k \in DOMAIN calls' : InFlight(k)' /\ calls'[k].message.id # None => inFlight'[calls'[k].message.id] = k
    BY <2>1, <2>2, <2>4 DEF Registered
  <2>6. ASSUME NEW id \in Ids, inFlight'[id] # None
        PROVE  inFlight'[id] \in DOMAIN calls' /\ InFlight(inFlight[id])' /\ calls'[inFlight'[id]].message.id = id
    <3>1. inFlight[id] \in DOMAIN calls /\ InFlight(inFlight[id]) /\ calls[inFlight[id]].message.id = id
      BY <2>1, <2>6 DEF Registered
    <3> QED BY <1>2, <1>4, <3>1 DEF InFlight
  <2> QED BY <2>5, <2>6 DEF Registered
<1>6. Len(calls) + 1 <= MaxMessages
  BY <1>1
<1> QED BY <1>1, <1>5, <1>6, JoinStep

\* A line that is no JSON is answered at once.
LEMMA ParseErrorStep ==
    ASSUME McpAssumption, McpInv, NEW m \in Messages, parseError(m)
    PROVE  McpInv'
<1> DEFINE n == Call(m, "stdio", None)
           c == [n EXCEPT !.at = "done", !.answer = "parseError"]
<1>1. n \in CallRecords /\ n.message = m /\ n.via = "stdio" /\ ~n.aborted /\ ~n.ran
  BY NewCall DEF Statuses
<1>2. ~m.readable /\ Len(calls) < MaxMessages /\ calls' = Append(calls, c) /\ UNCHANGED <<inFlight, input, cancelled>>
  BY DEF parseError
<1> HIDE DEF n
<1>3. c \in CallRecords
  <2>1. PICK q \in CallRecords : q = [n EXCEPT !.at = "done"]
    BY <1>1, FieldChanges
  <2>2. [q EXCEPT !.answer = "parseError"] \in CallRecords
    BY DEF CallRecords
  <2> QED BY <2>1, <2>2
<1>4. c.at = "done" /\ c.message = m /\ c.via = "stdio" /\ ~c.aborted /\ ~c.ran
  BY <1>1 DEF CallRecords
<1> HIDE DEF c
<1>5. CallIsSound(c)
  BY <1>2, <1>3, <1>4 DEF CallIsSound, HasBeenChecked, HasItsAnswer
<1> QED BY <1>2, <1>4, <1>5, JoinUnregistered

\* McpHttpTransport.handle(): a request that it refuses is answered, another dispatched
\* with the headers that agreed with it.
LEMMA ReceiveStep ==
    ASSUME McpAssumption, McpInv, NEW m \in Messages, NEW h \in Headers, receive(h, m)
    PROVE  McpInv'
<1>0. Len(calls) < MaxMessages /\ UNCHANGED <<inFlight, input, cancelled>>
  BY DEF receive
<1>1. CASE refusal(h, m) = None
  <2> DEFINE n == Call(m, "http", None)
             c == [n EXCEPT !.headers = h]
  <2>1. /\ n \in CallRecords /\ n.message = m /\ n.via = "http" /\ ~n.aborted /\ ~n.ran
        /\ n.at \notin {"map", "tool"} /\ (n.at = "policy" => dispatch(m) = "policy")
    BY NewCall DEF Statuses
  <2>2. calls' = Append(calls, c)
    BY <1>1 DEF receive
  <2> HIDE DEF n
  <2>3. c \in CallRecords
    BY <2>1, FieldChanges
  <2>4. c.at = n.at /\ c.headers = h /\ c.message = m /\ c.via = "http" /\ ~c.aborted /\ ~c.ran
    BY <2>1 DEF CallRecords
  <2> HIDE DEF c
  <2>5. HasBeenChecked(c)
    BY <1>1, <2>1, <2>4, DispatchFacts DEF HasBeenChecked, IsToolCall
  <2>6. CallIsSound(c)
    BY <2>3, <2>4, <2>5 DEF CallIsSound, HasItsAnswer
  <2> QED BY <1>0, <2>2, <2>4, <2>6, JoinUnregistered
<1>2. CASE refusal(h, m) # None
  <2> DEFINE n == Call(m, "http", refusal(h, m))
             c == [n EXCEPT !.at = "done", !.answer = "refused"]
  <2>0. refusal(h, m) \in Statuses
    BY DEF refusal, Statuses
  <2>1. n \in CallRecords /\ n.message = m /\ n.via = "http" /\ ~n.aborted /\ ~n.ran
    BY <2>0, NewCall
  <2>2. calls' = Append(calls, c)
    BY <1>2 DEF receive
  <2> HIDE DEF n
  <2>3. c \in CallRecords
    <3>1. PICK q \in CallRecords : q = [n EXCEPT !.at = "done"]
      BY <2>1, FieldChanges
    <3>2. [q EXCEPT !.answer = "refused"] \in CallRecords
      BY DEF CallRecords
    <3> QED BY <3>1, <3>2
  <2>4. c.at = "done" /\ c.message = m /\ c.via = "http" /\ ~c.aborted /\ ~c.ran
    BY <2>1 DEF CallRecords
  <2> HIDE DEF c
  <2>5. CallIsSound(c)
    BY <2>3, <2>4 DEF CallIsSound, HasBeenChecked, HasItsAnswer
  <2> QED BY <1>0, <2>2, <2>4, <2>5, JoinUnregistered
<1> QED BY <1>1, <1>2

\* McpStdioTransport.serve(): no request in flight has the id, so its entry is free.
LEMMA ServeStep ==
    ASSUME McpAssumption, McpInv, NEW m \in Messages, serve(m)
    PROVE  McpInv'
<1> DEFINE c == Call(m, "stdio", None)
<1>0. /\ calls \in Seq(CallRecords) /\ Len(calls) \in Nat /\ DOMAIN calls = 1..Len(calls)
      /\ inFlight \in [Ids -> 1..MaxMessages \cup {None}] /\ MaxMessages \in Nat
  BY DEF McpInv, McpAssumption
<1>1. PICK n : n = Len(calls) + 1
  OBVIOUS
<1>2. /\ input = "open" /\ n <= MaxMessages /\ m.readable
      /\ calls' = Append(calls, c)
      /\ inFlight' = IF m.id = None THEN inFlight ELSE [inFlight EXCEPT ![m.id] = n]
      /\ UNCHANGED <<input, cancelled>>
      /\ m.id # None /\ ~ReuseIds => \A k \in DOMAIN calls : InFlight(k) => calls[k].message.id # m.id
  BY <1>1 DEF serve
<1>3. /\ c \in CallRecords /\ HasItsAnswer(c) /\ c.message = m /\ c.via = "stdio" /\ ~c.aborted /\ ~c.ran
      /\ c.at # "done" /\ c.at \notin {"map", "tool"} /\ (c.at = "policy" => dispatch(m) = "policy")
  BY NewCall DEF Statuses
<1> HIDE DEF c
<1>4. CallIsSound(c)
  <2>1. HasBeenChecked(c)
    BY <1>3, DispatchFacts DEF HasBeenChecked, IsToolCall
  <2> QED BY <1>3, <2>1 DEF CallIsSound
<1>5. /\ DOMAIN calls' = 1..n /\ n \in 1..MaxMessages
      /\ calls'[n] = c /\ \A k \in DOMAIN calls : calls'[k] = calls[k] /\ k # n
  BY <1>0, <1>1, <1>2, <1>3
<1>6. \A k \in DOMAIN calls' : k \in DOMAIN calls \/ k = n
  BY <1>0, <1>1, <1>5
<1>7. \A k \in DOMAIN calls : k \in DOMAIN calls'
  BY <1>0, <1>1, <1>5
<1>8. inFlight' \in [Ids -> 1..MaxMessages \cup {None}]
  BY <1>0, <1>2, <1>5
<1>9. ~ReuseIds => Registered'
  <2> SUFFICES ASSUME ~ReuseIds PROVE Registered'
    OBVIOUS
  <2>1. Registered
    BY DEF McpInv
  <2>2. m.id # None => m.id \in Ids
    BY DEF Ids
  <2>3. \A i \in Ids : inFlight'[i] = IF i = m.id THEN n ELSE inFlight[i]
    BY <1>0, <1>2, <2>2 DEF Ids
  <2>4. \A k \in DOMAIN calls : calls[k].message.id = None \/ calls[k].message.id \in Ids
    BY DEF McpInv, CallIsSound, CallRecords, Ids
  <2>5. ASSUME NEW k \in DOMAIN calls', InFlight(k)', calls'[k].message.id # None
        PROVE  inFlight'[calls'[k].message.id] = k
    <3>1. CASE k = n
      BY <1>3, <1>5, <2>2, <2>3, <2>5, <3>1
    <3>2. CASE k \in DOMAIN calls
      <4>1. calls'[k] = calls[k] /\ InFlight(k)
        BY <1>5, <2>5, <3>2 DEF InFlight
      <4>2. inFlight[calls[k].message.id] = k /\ calls[k].message.id \in Ids
        BY <2>1, <2>4, <2>5, <3>2, <4>1 DEF Registered
      <4>3. calls[k].message.id # m.id
        BY <1>2, <2>5, <3>2, <4>1
      <4> QED BY <2>3, <4>1, <4>2, <4>3
    <3> QED BY <1>6, <3>1, <3>2
  <2>6. ASSUME NEW i \in Ids, NEW k, k = inFlight'[i], k # None
        PROVE  k \in DOMAIN calls' /\ InFlight(k)' /\ calls'[k].message.id = i
    <3>1. CASE i = m.id
      BY <1>3, <1>5, <2>3, <2>6, <3>1 DEF InFlight
    <3>2. CASE i # m.id
      <4>1. k = inFlight[i]
        BY <2>3, <2>6, <3>2
      <4>2. k \in DOMAIN calls /\ InFlight(k) /\ calls[k].message.id = i
        BY <2>1, <2>6, <4>1 DEF Registered
      <4> QED BY <1>5, <1>7, <4>2 DEF InFlight
    <3> QED BY <3>1, <3>2
  <2> QED BY <2>5, <2>6 DEF Registered, InFlight
<1> QED BY <1>1, <1>2, <1>3, <1>4, <1>8, <1>9, JoinStep

\* notifications/cancelled: without reused ids the registered call is the only one in
\* flight with that id, so the signal that is aborted is the one the client means.
LEMMA CancelStep ==
    ASSUME McpAssumption, McpInv, NEW id \in Ids, cancel(id)
    PROVE  McpInv'
<1>0. /\ calls \in Seq(CallRecords) /\ DOMAIN calls = 1..Len(calls)
      /\ calls' = abort(id) /\ UNCHANGED <<inFlight, input>> /\ input = "open"
      /\ cancelled' = cancelled \cup {n \in DOMAIN calls : InFlight(n) /\ calls[n].message.id = id}
      /\ Len(calls) \in Nat /\ Len(calls) <= MaxMessages
  BY DEF McpInv, cancel
<1>00. cancelled' \subseteq DOMAIN calls
  BY <1>0 DEF McpInv
<1>000. ASSUME ~ReuseIds, NEW n \in DOMAIN calls, InFlight(n), calls[n].message.id = id
        PROVE  inFlight[id] = n /\ inFlight[id] # None
  <2>1. id # None /\ Registered
    BY <1>000 DEF Ids, McpInv
  <2>2. inFlight[id] = n
    BY <1>000, <2>1 DEF Registered
  <2>3. n \in 1..MaxMessages /\ None \notin 1..MaxMessages
    BY <1>0 DEF McpAssumption
  <2> QED BY <2>2, <2>3
<1>1. CASE inFlight[id] = None \/ inFlight[id] \notin DOMAIN calls
  <2>1. calls' = calls
    BY <1>0, <1>1 DEF abort
  <2>2. ~ReuseIds => cancelled' = cancelled
    BY <1>0, <1>000, <1>1
  <2>3. ~ReuseIds => Registered' /\ Cancelled'
    BY <1>0, <2>1, <2>2 DEF McpInv, Registered, Cancelled, InFlight
  <2> QED BY <1>0, <1>00, <2>1, <2>3 DEF McpInv
<1>2. CASE inFlight[id] # None /\ inFlight[id] \in DOMAIN calls
  <2>1. PICK n \in DOMAIN calls : n = inFlight[id]
    BY <1>2
  <2> DEFINE c == [calls[n] EXCEPT !.aborted = TRUE]
  <2>2. CallIsSound(calls[n]) /\ calls[n] \in CallRecords
    BY DEF McpInv, CallIsSound
  <2>3. calls' = [calls EXCEPT ![n] = c]
    BY <1>0, <1>2, <2>1 DEF abort
  <2>4. c \in CallRecords
    BY <2>2, FieldChanges
  <2>5. /\ c.at = calls[n].at /\ c.message = calls[n].message /\ c.via = calls[n].via
        /\ c.ran = calls[n].ran /\ c.headers = calls[n].headers /\ c.answer = calls[n].answer
        /\ c.outcome = calls[n].outcome
    BY <2>2 DEF CallRecords
  <2>5a. c.aborted
    BY <2>2 DEF CallRecords
  <2> HIDE DEF c
  <2>6. /\ calls' \in Seq(CallRecords) /\ Len(calls') = Len(calls) /\ DOMAIN calls' = DOMAIN calls
        /\ calls'[n] = c /\ \A k \in DOMAIN calls : k # n => calls'[k] = calls[k]
    BY <1>0, <2>3, <2>4
  <2>7. \A k \in DOMAIN calls : calls'[k].message = calls[k].message /\ (InFlight(k)' <=> InFlight(k))
    BY <2>5, <2>6 DEF InFlight
  <2>8. ~ReuseIds => Registered /\ Cancelled /\ InFlight(n) /\ calls[n].message.id = id
    BY <1>2, <2>1 DEF McpInv, Registered
  <2>9. CallIsSound(c)
    <3>1. HasBeenChecked(c)
      BY <2>2, <2>5 DEF CallIsSound, HasBeenChecked, IsToolCall
    <3>2. HasItsAnswer(c)
      BY <2>2, <2>5, <2>8 DEF CallIsSound, HasItsAnswer, InFlight
    <3> QED BY <2>4, <3>1, <3>2 DEF CallIsSound
  <2>10. \A k \in DOMAIN calls' : CallIsSound(calls'[k])
    BY <2>6, <2>9 DEF McpInv
  <2>11. ~ReuseIds => Registered'
    BY <1>0, <2>6, <2>7, <2>8 DEF Registered
  <2>12. ~ReuseIds => Cancelled'
    <3> SUFFICES ASSUME ~ReuseIds, NEW k \in DOMAIN calls' PROVE calls'[k].aborted <=> k \in cancelled'
      BY DEF Cancelled
    <3>1. CASE k = n
      <4>1. k \in cancelled'
        BY <1>0, <2>8, <3>1
      <4>2. calls'[k] = c
        BY <2>6, <3>1
      <4> QED BY <2>5a, <4>1, <4>2
    <3>2. CASE k # n
      <4>1. k \in DOMAIN calls /\ calls'[k] = calls[k]
        BY <2>6, <3>2
      <4>2. k \in cancelled' <=> k \in cancelled
        BY <1>0, <1>000, <2>1, <3>2
      <4>3. calls[k].aborted <=> k \in cancelled
        BY <2>8, <4>1 DEF Cancelled
      <4> QED BY <4>1, <4>2, <4>3
    <3> QED BY <3>1, <3>2
  <2> QED BY <1>0, <1>00, <2>6, <2>10, <2>11, <2>12 DEF McpInv
<1> QED BY <1>1, <1>2

\* The input ends, and listen() resolves when nothing is in flight.
LEMMA InputStep ==
    ASSUME McpAssumption, McpInv, endOfInput \/ listenResolves \/ UNCHANGED mcpVars
    PROVE  McpInv'
<1>0. UNCHANGED <<calls, inFlight, cancelled>> /\ input' \in {"open", "closed", "resolved"}
  BY DEF endOfInput, listenResolves, mcpVars, McpInv
<1>1. input' = "resolved" => nothingPending
  BY DEF endOfInput, listenResolves, mcpVars, McpInv
<1>2. input' = "resolved" => nothingPending'
  BY <1>0, <1>1 DEF nothingPending, InFlight
<1>3. ~ReuseIds => Registered' /\ Cancelled'
  BY <1>0 DEF McpInv, Registered, Cancelled, InFlight
<1> QED BY <1>0, <1>2, <1>3 DEF McpInv

\* The invariant holds throughout.
LEMMA McpInvHolds == ASSUME McpAssumption PROVE McpSpec => []McpInv
<1>1. ASSUME McpInit PROVE McpInv
  <2>1. inFlight \in [Ids -> 1..MaxMessages \cup {None}]
    BY <1>1 DEF McpInit
  <2>2. calls \in Seq(CallRecords) /\ Len(calls) <= MaxMessages /\ DOMAIN calls = {}
    BY <1>1 DEF McpInit, McpAssumption
  <2>3. \A i \in Ids : inFlight[i] = None
    BY <1>1 DEF McpInit
  <2> QED BY <1>1, <2>1, <2>2, <2>3 DEF McpInit, McpInv, Registered, Cancelled
<1>2. ASSUME McpInv, [McpNext]_mcpVars PROVE McpInv'
  BY <1>2, ServeStep, ParseErrorStep, ReceiveStep, CancelStep, DispatchedStep, RespondStep,
     HttpRespondStep, InputStep DEF McpNext
<1> QED BY <1>1, <1>2, PTL DEF McpSpec

\* For any messages, headers, tools, policies and number of calls: over stdio a request
\* is answered before listen() resolves unless it was cancelled, and then never (for
\* clients that do not reuse the id of a request in flight); a tool runs only if it is
\* in the catalog, no policy refuses it, and over HTTP the headers named it.
THEOREM McpIsSoundHolds == ASSUME McpAssumption PROVE McpSpec => []McpIsSound
<1>1. ASSUME McpInv PROVE McpIsSound
  <2>1. AnsweredUnlessCancelled
    <3> SUFFICES ASSUME ~ReuseIds, NEW n \in DOMAIN calls, calls[n].via = "stdio", calls[n].message.readable
                 PROVE  LET m == calls[n].message IN
                        /\ n \in cancelled => calls[n].answer = None
                        /\ m.valid /\ m.id = None => calls[n].answer = None
                        /\ input = "resolved" /\ (~m.valid \/ m.id # None) /\ n \notin cancelled =>
                             calls[n].answer # None
      BY DEF AnsweredUnlessCancelled
    <3>1. calls[n] \in CallRecords /\ HasItsAnswer(calls[n]) /\ (calls[n].aborted <=> n \in cancelled)
      BY <1>1 DEF McpInv, CallIsSound, Cancelled
    <3>2. calls[n].at \in Steps \cup {"settled", "done"}
      BY <3>1 DEF CallRecords
    <3>3. CASE calls[n].at # "done"
      <4>1. calls[n].answer = None
        BY <3>1, <3>3 DEF HasItsAnswer
      <4>2. input # "resolved"
        BY <1>1, <3>3 DEF McpInv, nothingPending, InFlight
      <4> QED BY <4>1, <4>2
    <3>4. CASE calls[n].at = "done"
      <4>1. /\ calls[n].outcome \in Outcomes
            /\ calls[n].outcome = "none" <=> calls[n].message.valid /\ calls[n].message.id = None
            /\ calls[n].answer = IF calls[n].outcome = "none" \/ calls[n].aborted THEN None ELSE calls[n].outcome
        BY <3>1, <3>4 DEF HasItsAnswer
      <4>2. calls[n].outcome # None
        BY <4>1 DEF McpAssumption
      <4> QED BY <3>1, <4>1, <4>2
    <3> QED BY <3>3, <3>4
  <2>2. OnlyAllowedToolsRun
    <3> SUFFICES ASSUME NEW n \in DOMAIN calls, calls[n].ran
                 PROVE  LET m == calls[n].message
                            h == calls[n].headers
                        IN  /\ m.tool \in Tools \cap Allowed
                            /\ m.method = "tools/call" /\ m.params
                            /\ calls[n].via = "http" =>
                                 /\ h.origin /\ h.post
                                 /\ era(m) = "modern" => h.version = m.version /\ h.method = m.method /\ h.tool = m.tool
      BY DEF OnlyAllowedToolsRun
    <3>1. IsToolCall(calls[n]) /\ calls[n].message.tool \in Allowed
      BY <1>1 DEF McpInv, CallIsSound, HasBeenChecked
    <3> DEFINE m == calls[n].message
               h == calls[n].headers
    <3>2. m.method = "tools/call" /\ m.params /\ m.tool \in Tools /\ m.id # None /\ versionError(m) = None
      BY <3>1 DEF IsToolCall
    <3> HIDE DEF m, h
    <3>3. ASSUME calls[n].via = "http"
          PROVE  /\ h.origin /\ h.post
                 /\ era(m) = "modern" => h.version = m.version /\ h.method = m.method /\ h.tool = m.tool
      <4>1. refusal(h, m) = None /\ h \in Headers
        BY <3>1, <3>3 DEF IsToolCall, h, m
      <4>2. None # 400 /\ None # 403 /\ None # 405
        BY DEF McpAssumption
      <4>3. h.origin /\ h.post /\ validateHeaders(h, m) = None
        <5>1. CASE ~h.origin
          BY <4>1, <4>2, <5>1 DEF refusal
        <5>2. CASE h.origin /\ ~h.post
          BY <4>1, <4>2, <5>2 DEF refusal
        <5>3. CASE h.origin /\ h.post
          BY <4>1, <4>2, <5>3 DEF refusal
        <5> QED BY <5>1, <5>2, <5>3
      <4>4. era(m) = "modern" => m.version # None /\ m.version \in ModernVersions
        BY <3>2 DEF era, versionError, AllVersions, McpAssumption, Outcomes
      <4>5. None # "headerMismatch"
        BY DEF McpAssumption
      <4>6. ASSUME era(m) = "modern"
            PROVE  h.version = m.version /\ h.method = m.method /\ h.tool = m.tool
        BY <3>2, <4>3, <4>4, <4>5, <4>6 DEF validateHeaders
      <4> QED BY <4>3, <4>6
    <3> QED BY <3>1, <3>2, <3>3 DEF m, h
  <2> QED BY <2>1, <2>2 DEF McpIsSound
<1> QED BY <1>1, McpInvHolds, PTL

-----------------------------------------------------------------------------
(* HttpExchange: the headers of an answer.                                 *)

\* Setting a header changes no other.
LEMMA WithHeader ==
    ASSUME NEW headers, NEW name, NEW value
    PROVE  /\ DOMAIN With(headers, name, value) = DOMAIN headers \cup {name}
           /\ With(headers, name, value)[name] = value
           /\ \A h \in DOMAIN headers : h # name => With(headers, name, value)[h] = headers[h]
  BY DEF With

\* The origin that headers allow.
Echoed(headers) == IF "Allow-Origin" \in DOMAIN headers THEN headers["Allow-Origin"] ELSE Unsent

LEMMA WithAnother ==
    ASSUME NEW headers, NEW name, NEW value, name \notin {"Allow-Origin", "Allow-Private-Network"}
    PROVE  LET h == With(headers, name, value) IN
           /\ Echoed(h) = Echoed(headers) /\ ("Allow-Origin" \in DOMAIN h <=> "Allow-Origin" \in DOMAIN headers)
           /\ "Allow-Private-Network" \in DOMAIN h <=> "Allow-Private-Network" \in DOMAIN headers
<1> PICK h : h = With(headers, name, value)
  OBVIOUS
<1>1. DOMAIN h = DOMAIN headers \cup {name}
  BY WithHeader
<1>2. "Allow-Origin" \in DOMAIN headers => h["Allow-Origin"] = headers["Allow-Origin"]
  BY DEF With
<1> QED BY <1>1, <1>2 DEF Echoed

LEMMA AllowEchoes ==
    ASSUME NEW corsPolicy, NEW origin
    PROVE  /\ "Allow-Origin" \in DOMAIN Allow(corsPolicy, origin) /\ Echoed(Allow(corsPolicy, origin)) = origin
           /\ "Allow-Private-Network" \notin DOMAIN Allow(corsPolicy, origin)
<1> DEFINE a == With(NoHeaders, "Allow-Origin", origin)
           b == With(a, "Vary", "Origin")
<1>1. /\ "Allow-Origin" \in DOMAIN a /\ Echoed(a) = origin /\ "Allow-Private-Network" \notin DOMAIN a
  <2>1. DOMAIN a = {"Allow-Origin"} /\ a["Allow-Origin"] = origin
    BY DEF NoHeaders, With
  <2> QED BY <2>1 DEF Echoed
<1> HIDE DEF a
<1>2. /\ "Allow-Origin" \in DOMAIN b /\ Echoed(b) = origin /\ "Allow-Private-Network" \notin DOMAIN b
  BY <1>1, WithAnother
<1>3. Allow(corsPolicy, origin) = IF corsPolicy.credentials THEN With(b, "Allow-Credentials", "true") ELSE b
  BY DEF Allow, a
<1> HIDE DEF b
<1> QED BY <1>2, <1>3, WithAnother

\* The headers of CORS name the origin of the request when it is allowed, and nothing else.
LEMMA CorsHeaders ==
    ASSUME NEW corsPolicy, NEW origin
    PROVE  LET cors == buildResponseHeaders(corsPolicy, origin) IN
           /\ isOriginAllowed(corsPolicy, origin) => "Allow-Origin" \in DOMAIN cors /\ Echoed(cors) = origin
           /\ ~isOriginAllowed(corsPolicy, origin) => DOMAIN cors = {}
           /\ "Allow-Private-Network" \notin DOMAIN cors
<1>1. CASE isOriginAllowed(corsPolicy, origin)
  <2>1. isOriginCheckEnabled(corsPolicy)
    BY <1>1 DEF isOriginAllowed, isOriginCheckEnabled
  <2>2. buildResponseHeaders(corsPolicy, origin) =
          IF corsPolicy.exposed THEN With(Allow(corsPolicy, origin), "Expose-Headers", "configured") ELSE Allow(corsPolicy, origin)
    BY <1>1, <2>1 DEF buildResponseHeaders
  <2> QED BY <1>1, <2>2, AllowEchoes, WithAnother
<1>2. CASE ~isOriginAllowed(corsPolicy, origin)
  BY <1>2 DEF buildResponseHeaders, NoHeaders
<1> QED BY <1>1, <1>2

LEMMA PreflightHeaders ==
    ASSUME NEW corsPolicy, NEW r
    PROVE  LET headers == buildPreflightResponse(corsPolicy, r).headers IN
           /\ isOriginAllowed(corsPolicy, r.origin) => Echoed(headers) = r.origin
           /\ ~isOriginAllowed(corsPolicy, r.origin) => DOMAIN headers = {}
           /\ "Allow-Private-Network" \in DOMAIN headers
                => corsPolicy.privateNetwork /\ r.privateNetwork /\ isOriginAllowed(corsPolicy, r.origin)
<1> DEFINE a == With(Allow(corsPolicy, r.origin), "Allow-Methods", "configured")
           b == With(a, "Max-Age", "configured")
<1>1. /\ "Allow-Origin" \in DOMAIN a /\ Echoed(a) = r.origin /\ "Allow-Private-Network" \notin DOMAIN a
  BY AllowEchoes, WithAnother
<1>2. buildPreflightResponse(corsPolicy, r).headers =
        IF ~isOriginAllowed(corsPolicy, r.origin) THEN NoHeaders
        ELSE IF corsPolicy.privateNetwork /\ r.privateNetwork THEN With(b, "Allow-Private-Network", "true") ELSE b
  BY DEF buildPreflightResponse
<1> HIDE DEF a
<1>3. /\ "Allow-Origin" \in DOMAIN b /\ Echoed(b) = r.origin /\ "Allow-Private-Network" \notin DOMAIN b
  BY <1>1, WithAnother
<1> HIDE DEF b
<1>4. Echoed(With(b, "Allow-Private-Network", "true")) = r.origin
  <2> PICK h : h = With(b, "Allow-Private-Network", "true")
    OBVIOUS
  <2>1. "Allow-Origin" \in DOMAIN h /\ h["Allow-Origin"] = b["Allow-Origin"]
    BY <1>3 DEF With
  <2> QED BY <1>3, <2>1 DEF Echoed
<1>5. DOMAIN NoHeaders = {}
  BY DEF NoHeaders
<1> QED BY <1>2, <1>3, <1>4, <1>5

\* The headers of the application are sent under those of CORS.
LEMMA ResponseHeaders ==
    ASSUME NEW result, NEW cors, "Allow-Private-Network" \notin DOMAIN cors
    PROVE  LET headers == writeResponse(result, cors).headers IN
           /\ "Allow-Origin" \in DOMAIN cors => Echoed(headers) = Echoed(cors)
           /\ "Allow-Origin" \notin DOMAIN cors => Echoed(headers) = Echoed(result.headers)
           /\ "Allow-Private-Network" \in DOMAIN headers <=> "Allow-Private-Network" \in DOMAIN result.headers
<1> DEFINE named == IF result.kind = "object" /\ ~\E h \in DOMAIN result.headers : h \in {"content-type", "Content-Type"}
                      THEN With(result.headers, "content-type", "application/json") ELSE result.headers
<1>1. /\ Echoed(named) = Echoed(result.headers)
      /\ "Allow-Origin" \in DOMAIN named <=> "Allow-Origin" \in DOMAIN result.headers
      /\ "Allow-Private-Network" \in DOMAIN named <=> "Allow-Private-Network" \in DOMAIN result.headers
  BY WithAnother
<1>2. writeResponse(result, cors).headers = Merge(named, cors)
  BY DEF writeResponse
<1> HIDE DEF named
<1>3. /\ DOMAIN Merge(named, cors) = DOMAIN named \cup DOMAIN cors
      /\ \A h \in DOMAIN named \cup DOMAIN cors :
           Merge(named, cors)[h] = IF h \in DOMAIN cors THEN cors[h] ELSE named[h]
  BY DEF Merge
<1> QED BY <1>1, <1>2, <1>3 DEF Echoed

LEMMA ErrorHeaders ==
    ASSUME NEW statusCode, NEW cors, "Allow-Private-Network" \notin DOMAIN cors
    PROVE  /\ Echoed(JsonError(statusCode, cors).headers) = Echoed(cors)
           /\ "Allow-Private-Network" \notin DOMAIN JsonError(statusCode, cors).headers
<1>1. JsonError(statusCode, cors).headers = With(cors, "content-type", "application/json")
  BY DEF JsonError
<1> QED BY <1>1, WithAnother

LEMMA RawBodyIsKept ==
    ASSUME NEW r
    PROVE  LET body == mapToPristineRequest(r).body IN body # Unsent => body[Len(body)] = r.body
<1>1. CASE r.method \in {"GET", "HEAD"} \/ r.body = ""
  BY <1>1 DEF mapToPristineRequest
<1>2. CASE ~(r.method \in {"GET", "HEAD"} \/ r.body = "")
  <2>1. mapToPristineRequest(r).body = decode(r.contentType, r.charset, r.body)
    BY <1>2 DEF mapToPristineRequest
  <2> PICK body : body = r.body
    OBVIOUS
  <2>2. \A x : Len(<<"text", x, body>>) = 3 /\ <<"text", x, body>>[3] = body
    OBVIOUS
  <2>3. Len(<<"value", body>>) = 2 /\ <<"value", body>>[2] = body /\ Len(<<"bytes", body>>) = 2 /\ <<"bytes", body>>[2] = body
    OBVIOUS
  <2>4. decode(r.contentType, r.charset, body) \in {<<"value", body>>, <<"bytes", body>>, decodeText(body, r.charset)}
    BY DEF decode
  <2>5. decodeText(body, r.charset)[Len(decodeText(body, r.charset))] = body
    BY <2>2 DEF decodeText
  <2> QED BY <2>1, <2>3, <2>4, <2>5
<1> QED BY <1>1, <1>2

\* Whatever the request is and however it ends, the answer follows the policy.
LEMMA EveryAnswerFollowsPolicy ==
    ASSUME NEW corsPolicy, NEW r, NEW outcome, outcome.kind \in OutcomeKinds
    PROVE  AnswerFollowsPolicy(corsPolicy, r, outcome)
<1>a. PICK cors : cors = buildResponseHeaders(corsPolicy, r.origin)
  OBVIOUS
<1>b. PICK done : done = handleRequest(corsPolicy, r, outcome)
  OBVIOUS
<1>c. PICK origin \in BOOLEAN : origin <=> isOriginAllowed(corsPolicy, r.origin)
  OBVIOUS
<1>d. PICK headers : headers = done.answer.headers
  OBVIOUS
<1>1. /\ origin => "Allow-Origin" \in DOMAIN cors /\ Echoed(cors) = r.origin
      /\ ~origin => "Allow-Origin" \notin DOMAIN cors /\ Echoed(cors) = Unsent
      /\ "Allow-Private-Network" \notin DOMAIN cors
  BY <1>a, <1>c, CorsHeaders DEF Echoed
<1> DEFINE Own == IF outcome.kind \in {"object", "text"} /\ done.handled THEN Echoed(outcome.headers) ELSE Unsent
<1>2. /\ Echoed(headers) = IF origin THEN r.origin ELSE Own
      /\ done.handled => isHostAllowed(corsPolicy, r.host) /\ ~isPreflight(corsPolicy, r)
      /\ "Allow-Private-Network" \in DOMAIN headers
           => \/ corsPolicy.privateNetwork /\ r.privateNetwork /\ origin
              \/ done.handled /\ "Allow-Private-Network" \in DOMAIN outcome.headers
  <2>1. CASE ~isHostAllowed(corsPolicy, r.host)
    <3>1. done = [handled |-> FALSE, answer |-> JsonError(403, cors)]
      BY <1>a, <1>b, <2>1 DEF handleRequest
    <3>2. done.handled = FALSE /\ done.answer = JsonError(403, cors)
      BY <3>1
    <3>3. PICK statusCode : headers = JsonError(statusCode, cors).headers
      BY <1>d, <3>2
    <3>4. Echoed(headers) = Echoed(cors) /\ "Allow-Private-Network" \notin DOMAIN headers
      BY <1>1, <3>3, ErrorHeaders
    <3> QED BY <1>1, <3>2, <3>4
  <2>2. CASE isHostAllowed(corsPolicy, r.host) /\ isPreflight(corsPolicy, r)
    <3>1. done = [handled |-> FALSE, answer |-> buildPreflightResponse(corsPolicy, r)]
      BY <1>b, <2>2 DEF handleRequest
    <3>2. done.handled = FALSE /\ done.answer = buildPreflightResponse(corsPolicy, r)
      BY <3>1
    <3>3. /\ origin => Echoed(headers) = r.origin
          /\ ~origin => Echoed(headers) = Unsent
          /\ "Allow-Private-Network" \in DOMAIN headers => corsPolicy.privateNetwork /\ r.privateNetwork /\ origin
      BY <1>c, <1>d, <3>2, PreflightHeaders DEF Echoed
    <3> QED BY <3>2, <3>3
  <2>3. CASE isHostAllowed(corsPolicy, r.host) /\ ~isPreflight(corsPolicy, r) /\ outcome.kind \in {"throws", "too large"}
    <3> DEFINE big == outcome.kind = "too large" /\ mapToPristineRequest(r).rawBody # Unsent
    <3>1. done = IF big THEN [handled |-> FALSE, answer |-> JsonError(413, cors)]
                 ELSE [handled |-> TRUE, answer |-> JsonError(500, cors)]
      <4>1. done = IF big THEN [handled |-> FALSE, answer |-> JsonError(413, cors)]
                   ELSE IF outcome.kind \in {"throws", "too large"} THEN [handled |-> TRUE, answer |-> JsonError(500, cors)]
                   ELSE [handled |-> TRUE, answer |-> writeResponse(outcome, cors)]
        BY <1>a, <1>b, <2>3, Zenon DEF handleRequest
      <4> HIDE DEF big
      <4> QED BY <2>3, <4>1, Zenon
    <3> HIDE DEF big
    <3>2. PICK statusCode : headers = JsonError(statusCode, cors).headers
      <4>1. CASE big
        <5>1. done.answer = JsonError(413, cors)
          BY <3>1, <4>1
        <5> QED BY <1>d, <5>1
      <4>2. CASE ~big
        <5>1. done.answer = JsonError(500, cors)
          BY <3>1, <4>2
        <5> QED BY <1>d, <5>1
      <4> QED BY <4>1, <4>2
    <3>3. Echoed(headers) = Echoed(cors) /\ "Allow-Private-Network" \notin DOMAIN headers
      BY <1>1, <3>2, ErrorHeaders
    <3>4. Own = Unsent
      BY <2>3
    <3> QED BY <1>1, <2>3, <3>3, <3>4
  <2>4. CASE isHostAllowed(corsPolicy, r.host) /\ ~isPreflight(corsPolicy, r) /\ outcome.kind \in {"object", "text"}
    <3>1. done = [handled |-> TRUE, answer |-> writeResponse(outcome, cors)]
      BY <1>a, <1>b, <2>4 DEF handleRequest
    <3>2. done.handled = TRUE /\ done.answer = writeResponse(outcome, cors)
      BY <3>1
    <3>3. /\ "Allow-Origin" \in DOMAIN cors => Echoed(headers) = Echoed(cors)
          /\ "Allow-Origin" \notin DOMAIN cors => Echoed(headers) = Echoed(outcome.headers)
          /\ "Allow-Private-Network" \in DOMAIN headers <=> "Allow-Private-Network" \in DOMAIN outcome.headers
      <4>1. headers = writeResponse(outcome, cors).headers
        BY <1>d, <3>2
      <4> QED BY <1>1, <4>1, ResponseHeaders
    <3>4. Own = Echoed(outcome.headers)
      BY <2>4, <3>2
    <3> QED BY <1>1, <2>4, <3>2, <3>3, <3>4
  <2> QED BY <2>1, <2>2, <2>3, <2>4 DEF OutcomeKinds
<1>3. isHostAllowed(corsPolicy, r.host) => (corsPolicy.hosts # {} => r.host \in corsPolicy.hosts)
  BY DEF isHostAllowed, isHostCheckEnabled
<1>4. isPreflight(corsPolicy, r) <=> corsPolicy.origins # {} /\ r.method = "OPTIONS" /\ r.requestMethod # Unsent
  BY DEF isPreflight, isOriginCheckEnabled
<1>5. origin <=> r.origin # Unsent /\ r.origin \in corsPolicy.origins
  BY <1>c DEF isOriginAllowed
<1>6. Own = IF outcome.kind \in {"object", "text"} /\ "Allow-Origin" \in DOMAIN outcome.headers /\ done.handled
              THEN outcome.headers["Allow-Origin"] ELSE Unsent
  BY DEF Echoed
<1> HIDE DEF Own
<1>7. Echoed(headers) = IF r.origin # Unsent /\ r.origin \in corsPolicy.origins THEN r.origin ELSE Own
  BY <1>2, <1>5
<1>8. done.handled => (corsPolicy.hosts # {} => r.host \in corsPolicy.hosts)
                        /\ ~(corsPolicy.origins # {} /\ r.method = "OPTIONS" /\ r.requestMethod # Unsent)
  BY <1>2, <1>3, <1>4
<1>9. "Allow-Private-Network" \in DOMAIN headers
         => \/ corsPolicy.privateNetwork /\ r.privateNetwork /\ Echoed(headers) \in corsPolicy.origins
            \/ done.handled /\ "Allow-Private-Network" \in DOMAIN outcome.headers
  BY <1>2, <1>5, <1>7
<1>10. LET body == mapToPristineRequest(r).body IN body # Unsent => body[Len(body)] = r.body
  BY RawBodyIsKept
<1>11. Echoed(headers) = IF "Allow-Origin" \in DOMAIN done.answer.headers THEN done.answer.headers["Allow-Origin"] ELSE Unsent
  BY <1>d DEF Echoed
<1> QED BY <1>b, <1>d, <1>6, <1>7, <1>8, <1>9, <1>10, <1>11 DEF AnswerFollowsPolicy

\* KernelHttpServer.handleRequest(): a browser at an allowed origin can read every answer,
\* refusals and errors included, no answer of the server names another origin, and neither
\* a host that is not allowed nor a preflight reaches the kernel.
THEOREM AnswersFollowPolicyHolds ==
    ASSUME ExchangeAssumption PROVE ExchangeSpec => []AnswersFollowPolicy
<1>1. ExchangeInit /\ [ExchangeNext]_served => ExchangeInit'
  BY DEF ExchangeInit, ExchangeNext
<1>2. ExchangeInit => AnswersFollowPolicy
  <2> SUFFICES ASSUME ExchangeInit PROVE AnswersFollowPolicy
    OBVIOUS
  <2>1. served.outcome.kind \in OutcomeKinds
    BY DEF ExchangeInit, ExchangeAssumption
  <2>2. AnswerFollowsPolicy(served.policy, served.request, served.outcome)
    BY <2>1, EveryAnswerFollowsPolicy
  <2> QED BY <2>2 DEF AnswersFollowPolicy
<1> QED BY <1>1, <1>2, PTL DEF ExchangeSpec

=============================================================================
