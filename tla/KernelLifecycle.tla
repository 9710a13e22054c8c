--------------------------- MODULE KernelLifecycle ---------------------------
(***************************************************************************)
(* Kernel.start() and Kernel.stop(): the import graph of the AppModule is  *)
(* walked twice (initModule, afterInitModule), each walk an explicit call  *)
(* stack here, and the onShutdown hooks run under a per-hook timeout.      *)
(*                                                                         *)
(* The graph is chosen in Init and never changes.  Registration of tags,   *)
(* providers and configuration is reduced to whether it throws.  A hook    *)
(* that timed out is not cancelled: it runs on in the background.          *)
(***************************************************************************)
EXTENDS Naturals, Sequences, FiniteSets

CONSTANTS
    Modules,          \* the module keynames
    AppModule,        \* the root of the graph
    Graphs,           \* the import graphs: functions Modules -> Seq(Modules)
    Hooked,           \* the modules that have an onShutdown hook
    Callers,          \* the callers of stop(): signal handlers, tests
    NoModule,
    PerHookTimeout    \* is perHookTimeoutMs > 0 ?

Elements(s) == {s[i] : i \in 1..Len(s)}

\* A rank of an import graph: every module is above the modules it imports.
Ranks(graph) ==
    {rank \in [Modules -> 0..Cardinality(Modules)] :
        \A m \in Modules : \A n \in Elements(graph[m]) : rank[n] < rank[m]}

\* What the constants have to be.  No module imports itself along any path: on
\* such a graph afterInitModule() recurses until the stack overflows.
KernelAssumption ==
    /\ IsFiniteSet(Modules)
    /\ Graphs \subseteq [Modules -> Seq(Modules)]
    /\ \A graph \in Graphs : Ranks(graph) # {}
    /\ AppModule \in Modules
    /\ Hooked \subseteq Modules
    /\ PerHookTimeout \in BOOLEAN
    /\ NoModule \notin Modules

VARIABLES
    importModules,  \* the import graph
    phase,          \* of start()
    stack,          \* frames of the recursion: a module and its next import
    instantiated,   \* keys of Kernel.instantiatedModules, in insertion order
    inited,         \* modules whose onInit completed
    afterInited,    \* keys of Kernel.afterInstantiatedModules
    stopped,        \* Kernel.stopped
    call,           \* where each call to stop() is
    visited,        \* how many of moduleNames the loop of that call is done with
    hook,           \* the module whose hook that call awaits
    running,        \* modules whose onShutdown has not settled
    invoked         \* the hooks that were called, in order

kernelVars == <<importModules, phase, stack, instantiated, inited, afterInited,
          stopped, call, visited, hook, running, invoked>>

startVars == <<phase, stack, instantiated, inited, afterInited>>
stopVars == <<stopped, call, visited, hook, running, invoked>>

Frame(m) == [module |-> m, next |-> 1]
Top == stack[Len(stack)]
Pop == SubSeq(stack, 1, Len(stack) - 1)
Advance == [stack EXCEPT ![Len(stack)].next = @ + 1]
ImportsLeftButLast == Top.next < Len(importModules[Top.module])
ImportsLeft == Top.next <= Len(importModules[Top.module])
NextImport == importModules[Top.module][Top.next]

KernelInit ==
    /\ importModules \in Graphs
    /\ phase = "idle"
    /\ stack = <<>>
    /\ instantiated = <<>>
    /\ inited = {}
    /\ afterInited = {}
    /\ stopped = FALSE
    /\ call = [c \in Callers |-> "idle"]
    /\ visited = [c \in Callers |-> 0]
    /\ hook = [c \in Callers |-> NoModule]
    /\ running = {}
    /\ invoked = <<>>

-----------------------------------------------------------------------------
(* Kernel.start().                                                         *)

\* start(): initModule(AppModule) records the module before its imports.
Start ==
    /\ phase = "idle"
    /\ phase' = "init"
    /\ stack' = <<Frame(AppModule)>>
    /\ instantiated' = <<AppModule>>
    /\ UNCHANGED <<importModules, inited, afterInited, stopVars>>

\* The loop of initModule over importModules: a module that is already
\* recorded is skipped, another is recorded and entered.
AlreadyInstantiated(m) == m \in Elements(instantiated)
InitImport ==
    /\ phase = "init"
    /\ ImportsLeft
    /\ IF AlreadyInstantiated(NextImport)
       THEN /\ stack' = Advance
            /\ UNCHANGED instantiated
       ELSE /\ stack' = Append(Advance, Frame(NextImport))
            /\ instantiated' = Append(instantiated, NextImport)
    /\ UNCHANGED <<importModules, phase, inited, afterInited, stopVars>>

\* The imports are done: tags and providers are registered, onInit runs and
\* initModule returns; after the root, the configuration is next.
InitReturns ==
    /\ phase = "init"
    /\ ~ImportsLeft
    /\ inited' = inited \cup {Top.module}
    /\ stack' = Pop
    /\ phase' = IF Len(stack) = 1 THEN "configuration" ELSE "init"
    /\ UNCHANGED <<importModules, instantiated, afterInited, stopVars>>

\* The configuration is registered and loaded, the remaining tags are
\* registered and afterInitModule(AppModule) is entered.
LoadConfiguration ==
    /\ phase = "configuration"
    /\ phase' = "afterInit"
    /\ stack' = <<Frame(AppModule)>>
    /\ UNCHANGED <<importModules, instantiated, inited, afterInited, stopVars>>

\* afterInitModule enters every import, also one it has already visited.
AfterInitImport ==
    /\ phase = "afterInit"
    /\ ImportsLeft
    /\ stack' = Append(Advance, Frame(NextImport))
    /\ UNCHANGED <<importModules, phase, instantiated, inited, afterInited, stopVars>>

\* The imports are done: afterInit runs unless it ran before.  After the root, start()
\* resolves the log handler, which may fail as its last step.
AfterInitReturns ==
    /\ phase = "afterInit"
    /\ ~ImportsLeft
    /\ afterInited' = afterInited \cup {Top.module}
    /\ stack' = Pop
    /\ phase' \in IF Len(stack) = 1 THEN {"started", "failed"} ELSE {"afterInit"}
    /\ UNCHANGED <<importModules, instantiated, inited, stopVars>>

\* A registration, a hook or the configuration throws: start() rejects.
StartFails ==
    /\ \/ phase = "init" /\ ~ImportsLeft
       \/ phase = "afterInit" /\ ~ImportsLeft /\ Top.module \notin afterInited
       \/ phase = "configuration"
    /\ phase' = "failed"
    /\ stack' = <<>>
    /\ UNCHANGED <<importModules, instantiated, inited, afterInited, stopVars>>

-----------------------------------------------------------------------------
(* Kernel.stop().                                                          *)

\* A call to stop().  Hosts stop a kernel whose start() has settled, either
\* way; only the first call does anything.
NeverStopped == FALSE
AlreadyStopped == stopped
\* The keys of instantiatedModules, which no longer change when start() has
\* settled, in insertion order.
moduleNamesReversed == [i \in 1..Len(instantiated) |-> instantiated[Len(instantiated) + 1 - i]]
moduleNames == instantiated
Stop(c) ==
    /\ phase \in {"started", "failed"}
    /\ call[c] = "idle"
    /\ IF AlreadyStopped
       THEN /\ call' = [call EXCEPT ![c] = "returned"]
            /\ UNCHANGED stopped
       ELSE /\ stopped' = TRUE
            /\ call' = [call EXCEPT ![c] = "running"]
    /\ UNCHANGED <<importModules, startVars, visited, hook, running, invoked>>

\* The next module with an onShutdown hook; the loop skips the others.
IsNextHook(c, i) ==
    /\ i \in (visited[c] + 1)..Len(moduleNames)
    /\ moduleNames[i] \in Hooked
    /\ \A j \in (visited[c] + 1)..(i - 1) : moduleNames[j] \notin Hooked

\* Its hook is called and awaited.
CallHook(c) ==
    /\ call[c] = "running" /\ hook[c] = NoModule
    /\ \E i \in 1..Len(moduleNames) :
          /\ IsNextHook(c, i)
          /\ visited' = [visited EXCEPT ![c] = i]
          /\ hook' = [hook EXCEPT ![c] = moduleNames[i]]
          /\ running' = running \cup {moduleNames[i]}
          /\ invoked' = Append(invoked, moduleNames[i])
    /\ UNCHANGED <<importModules, startVars, stopped, call>>

\* A hook resolves or throws.  A call that awaits it goes on with the next
\* module in both cases; the error is logged.
HookSettles(m) ==
    /\ m \in running
    /\ running' = running \ {m}
    /\ hook' = [c \in Callers |-> IF hook[c] = m THEN NoModule ELSE hook[c]]
    /\ UNCHANGED <<importModules, startVars, stopped, call, visited, invoked>>

\* The timer of runWithTimeout() wins the race: the error is logged and the
\* call goes on while the hook still runs.
TimeoutMissing == ~PerHookTimeout
TimeoutArmed == PerHookTimeout
HookTimesOut(c) ==
    /\ TimeoutArmed
    /\ call[c] = "running" /\ hook[c] # NoModule
    /\ hook' = [hook EXCEPT ![c] = NoModule]
    /\ UNCHANGED <<importModules, startVars, stopped, call, visited, running, invoked>>

\* All hooks were called: the log handler is terminated and stop() resolves.
LoopBreaksOnTimeout(c) == running # {} \/ ~\E i \in 1..Len(moduleNames) : IsNextHook(c, i)
LoopIsDone(c) == ~\E i \in 1..Len(moduleNames) : IsNextHook(c, i)
StopReturns(c) ==
    /\ call[c] = "running" /\ hook[c] = NoModule /\ LoopIsDone(c)
    /\ call' = [call EXCEPT ![c] = "returned"]
    /\ UNCHANGED <<importModules, startVars, stopped, visited, hook, running, invoked>>

-----------------------------------------------------------------------------

KernelNext ==
    \/ Start \/ InitImport \/ InitReturns \/ LoadConfiguration
    \/ AfterInitImport \/ AfterInitReturns \/ StartFails
    \/ \E c \in Callers : Stop(c) \/ CallHook(c) \/ HookTimesOut(c) \/ StopReturns(c)
    \/ \E m \in Modules : HookSettles(m)

\* The event loop runs what is ready and timers fire.  A hook need not settle
\* and nobody has to call stop().
Boots ==
    \/ InitImport \/ InitReturns \/ LoadConfiguration
    \/ AfterInitImport \/ AfterInitReturns \/ StartFails
Proceeds(c) == CallHook(c) \/ HookTimesOut(c) \/ StopReturns(c)
KernelSpec ==
    /\ KernelInit /\ [][KernelNext]_kernelVars
    /\ WF_kernelVars(Boots) /\ \A c \in Callers : WF_kernelVars(Proceeds(c))

-----------------------------------------------------------------------------
(* Properties                                                              *)

\* Every variable keeps its type.
KernelTypeOK ==
    /\ importModules \in Graphs
    /\ phase \in {"idle", "init", "configuration", "afterInit", "started", "failed"}
    /\ stack \in Seq([module : Modules, next : Nat \ {0}])
    /\ instantiated \in Seq(Modules)
    /\ inited \subseteq Modules /\ afterInited \subseteq Modules
    /\ stopped \in BOOLEAN
    /\ call \in [Callers -> {"idle", "running", "returned"}]
    /\ visited \in [Callers -> 0..Len(instantiated)]
    /\ hook \in [Callers -> Hooked \cup {NoModule}]
    /\ running \subseteq Hooked
    /\ invoked \in Seq(Hooked)

\* On an acyclic graph with shared imports, whatever the import order, a
\* module is initialised (afterInit'ed) only after all its imports were:
\* initModule records a module before its imports and so relies on the walk
\* never meeting a recorded module that is still being initialised.
ImportsFirst ==
    /\ \A m \in inited : Elements(importModules[m]) \subseteq inited
    /\ \A m \in afterInited : Elements(importModules[m]) \subseteq afterInited
    /\ phase = "started" => /\ Elements(instantiated) = inited
                            /\ inited = afterInited

\* stop() calls each hook at most once, however many callers race.
HooksAtMostOnce ==
    \A i, j \in 1..Len(invoked) : invoked[i] = invoked[j] => i = j

\* When the call that shuts down returns, no instantiated module was left
\* out, although hooks threw or hung and although start() may have failed.
NoHookLeftOut ==
    (\E c \in Callers : call[c] = "returned") /\ (\A c \in Callers : call[c] # "running")
        => Hooked \cap Elements(instantiated) \subseteq Elements(invoked)

\* "Hooks are called in outer-to-inner order ... so that high-level modules
\* can still call into their dependencies while they tear themselves down":
\* no hook is called after the hook of a module it imports.  The insertion
\* order that stop() follows guarantees this only while no module is imported
\* twice.
OuterToInner ==
    (\A m, n \in Modules :
        m # n => Elements(importModules[m]) \cap Elements(importModules[n]) = {})
      => \A i, j \in 1..Len(invoked) :
            i < j => invoked[i] \notin Elements(importModules[invoked[j]])

\* Several callers race to stop a kernel whose modules hang, throw or were never all
\* started: each hook is called once, none is left out, outer modules come first.
StopIsOrderly == HooksAtMostOnce /\ NoHookLeftOut /\ OuterToInner

\* A call to stop() returns although hooks hang.
Stopping(c) == call[c] = "running"
Stopped(c) == call[c] = "returned"
StopReturnsEventually == \A c \in Callers : Stopping(c) ~> Stopped(c)
=============================================================================
