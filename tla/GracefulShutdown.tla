--------------------------- MODULE GracefulShutdown ---------------------------
(***************************************************************************)
(* The life of a `pristine p:start` process: StartCommand.run() starts the *)
(* runtime servers one after the other, a signal makes it call             *)
(* Kernel.stop(), which runs the onShutdown hooks, and the process exits.  *)
(*                                                                         *)
(* The hook of a server's module resolves the server from the container.   *)
(* It gets the instance StartCommand started only if the class is          *)
(* registered as a singleton; otherwise it gets a fresh one, whose stop()  *)
(* finds nothing to do.  Work stands for an HTTP request or a scheduled    *)
(* task that a server is processing.                                       *)
(***************************************************************************)
EXTENDS Naturals, Sequences, FiniteSets, SequencesExt

CONSTANTS
    Servers,          \* the runtime servers, in the order they are injected
    Singletons,       \* those whose class is registered as a singleton
    SelfCutting,      \* those whose stop() cuts work off after a timeout
    Hooks,            \* modules with onShutdown, in the order they are called;
                      \* a server's module has the server's name
    Work,             \* requests and task invocations, each occurs once
    HookTimeout,      \* Kernel.stop(): timeout of one hook, in seconds
    HardExitTimeout,  \* StartCommand.HARD_EXIT_TIMEOUT_MS, in seconds
    Nothing

Stages == {"starting", "rollback", "running", "stopping", "returning", "exited"}
ExitCodes == {"success", "error", "forced", "hardExit", "killed"}

\* What the constants have to be.
ShutdownAssumption ==
    /\ Servers \in Seq(ToSet(Servers)) /\ Hooks \in Seq(ToSet(Hooks))
    /\ IsInjective(Servers) /\ Singletons \cup SelfCutting \subseteq ToSet(Servers)
    /\ IsInjective(Hooks) /\ Nothing \notin ToSet(Hooks) \cup ToSet(Servers)
    /\ Nothing \notin ExitCodes
    /\ HookTimeout \in Nat \ {0} /\ HardExitTimeout \in Nat \ {0}

VARIABLES
    stage,      \* where run() is
    position,   \* the server or hook that run() is at
    failed,     \* the server whose start() failed
    serving,    \* the servers that are listening
    draining,   \* the running servers that refuse new work
    pending,    \* is the hook at `position` being awaited?
    timedOut,   \* the hooks Kernel.stop() gave up on
    servedBy,   \* the server that is processing each piece of work
    done,       \* work that was completed
    exitCode    \* Nothing while the process lives

processVars == <<stage, position, failed, serving, draining, pending, timedOut, servedBy, done,
                 exitCode>>
workVars == <<servedBy, done>>

WorkOf(s) == {w \in Work : servedBy[w] = s}

\* A server's stop() settles when its work is done; KernelHttpServer destroys
\* the connections left after its drain timeout, LocalSchedulerManager waits.
\* Neither of them rejects; run() and the hooks would swallow the error of one
\* that does and go on.
StopNotAwaited(s) == TRUE
StopSettles(s) == s \in SelfCutting \/ WorkOf(s) = {}
CutOff(s) ==
    [w \in Work |-> IF servedBy[w] = s /\ s \in SelfCutting THEN Nothing ELSE servedBy[w]]

ProcessInit ==
    /\ stage = "starting"
    /\ position = 1
    /\ failed = Nothing
    /\ serving = {}
    /\ draining = {}
    /\ pending = FALSE
    /\ timedOut = {}
    /\ servedBy = [w \in Work |-> Nothing]
    /\ done = {}
    /\ exitCode = Nothing

Exit(code) ==
    /\ stage' = "exited"
    /\ exitCode' = code
    /\ UNCHANGED <<position, failed, serving, draining, pending, timedOut, workVars>>

-----------------------------------------------------------------------------
(* Starting the servers.                                                   *)

Current == Servers[position]

\* server.start() resolves.
ServerStarts ==
    /\ stage = "starting"
    /\ position <= Len(Servers)
    /\ serving' = serving \cup {Current}
    /\ position' = position + 1
    /\ UNCHANGED <<stage, failed, draining, pending, timedOut, workVars, exitCode>>

\* server.start() rejects: the servers before it are stopped again.
ServerFails ==
    /\ stage = "starting"
    /\ position <= Len(Servers)
    /\ failed' = Current
    /\ stage' = "rollback"
    /\ position' = 1
    /\ UNCHANGED <<serving, draining, pending, timedOut, workVars, exitCode>>

\* `if (started === server) break;`
RollbackEndsEarly == failed \in {Servers[i] : i \in position..Min({position + 1, Len(Servers)})}
RollbackEnds == Current = failed

\* `await started.stop()` refuses new work at once ...
RollbackStop ==
    /\ stage = "rollback" /\ ~pending /\ ~RollbackEnds
    /\ pending' = TRUE
    /\ draining' = draining \cup {Current}
    /\ UNCHANGED <<stage, position, failed, serving, timedOut, workVars, exitCode>>

\* ... and settles later.
RollbackStopped ==
    /\ stage = "rollback" /\ pending /\ StopSettles(Current)
    /\ pending' = FALSE
    /\ serving' = serving \ {Current}
    /\ draining' = draining \ {Current}
    /\ servedBy' = CutOff(Current)
    /\ position' = position + 1
    /\ UNCHANGED <<stage, failed, timedOut, done, exitCode>>

\* run() returns ExitCode.Error and bin.ts exits with it.
ExitAfterRollback ==
    /\ stage = "rollback" /\ ~pending /\ RollbackEnds
    /\ Exit("error")

\* Every server started: the signal handlers are installed.
AllStarted ==
    /\ stage = "starting"
    /\ position > Len(Servers)
    /\ stage' = "running"
    /\ UNCHANGED <<position, failed, serving, draining, pending, timedOut, workVars, exitCode>>

-----------------------------------------------------------------------------
(* Work.                                                                   *)

Accept(w, s) ==
    /\ stage # "exited"
    /\ s \in serving \ draining
    /\ servedBy[w] = Nothing
    /\ w \notin done
    /\ servedBy' = [servedBy EXCEPT ![w] = s]
    /\ UNCHANGED <<stage, position, failed, serving, draining, pending, timedOut, done, exitCode>>

Complete(w) ==
    /\ stage # "exited"
    /\ servedBy[w] # Nothing
    /\ servedBy' = [servedBy EXCEPT ![w] = Nothing]
    /\ done' = done \cup {w}
    /\ UNCHANGED <<stage, position, failed, serving, draining, pending, timedOut, exitCode>>

-----------------------------------------------------------------------------
(* Shutting down.                                                          *)

\* A signal that arrives before the handlers are installed kills the process.
SignalWhileStarting ==
    /\ stage \in {"starting", "rollback"}
    /\ Exit("killed")

\* The first signal: initiateShutdown() arms the hard exit and calls
\* Kernel.stop().
FirstSignal ==
    /\ stage = "running"
    /\ stage' = "stopping"
    /\ position' = 1
    /\ UNCHANGED <<failed, serving, draining, pending, timedOut, workVars, exitCode>>

\* Another signal forces the exit.
AnotherSignal ==
    /\ stage \in {"stopping", "returning"}
    /\ Exit("forced")

\* The running server a hook reaches through the container, if any.
HookTarget(h) == IF h \in serving \cap Singletons THEN h ELSE Nothing

\* Kernel.stop() calls the next hook.
HookCalled ==
    /\ stage = "stopping" /\ ~pending
    /\ position <= Len(Hooks)
    /\ pending' = TRUE
    /\ draining' = draining \cup ({HookTarget(Hooks[position])} \ {Nothing})
    /\ UNCHANGED <<stage, position, failed, serving, timedOut, workVars, exitCode>>

\* The hook returns; one that stops a server does so when stop() settles.
\* Other hooks return when they like.
HookReturns ==
    LET target == HookTarget(Hooks[position]) IN
    /\ stage = "stopping" /\ pending
    /\ target # Nothing => StopSettles(target)
    /\ pending' = FALSE
    /\ serving' = serving \ {target}
    /\ draining' = draining \ {target}
    /\ servedBy' = CutOff(target)
    /\ position' = position + 1
    /\ UNCHANGED <<stage, failed, timedOut, done, exitCode>>

\* runWithTimeout() rejects: Kernel.stop() logs it and goes on to the next.
AfterTimeout == position + 1
TimeoutNever == FALSE
HookTimeoutArmed == pending
GiveUpOnHook ==
    /\ stage = "stopping" /\ HookTimeoutArmed
    /\ timedOut' = timedOut \cup {Hooks[position]}
    /\ pending' = FALSE
    /\ position' = AfterTimeout
    /\ UNCHANGED <<stage, failed, serving, draining, workVars, exitCode>>

\* Kernel.stop() resolves, the timers are cleared, run() returns Success ...
KernelStopReturns ==
    /\ stage = "stopping" /\ ~pending
    /\ position > Len(Hooks)
    /\ stage' = "returning"
    /\ UNCHANGED <<position, failed, serving, draining, pending, timedOut, workVars, exitCode>>

\* ... and bin.ts exits with it, whatever is still in flight.
ExitAfterStop ==
    /\ stage = "returning"
    /\ Exit("success")

\* The hard-exit timer: it can only fire once the hooks called so far, each
\* of which takes at most HookTimeout, could use up HardExitTimeout.
HardExit ==
    /\ stage = "stopping" /\ pending
    /\ position * HookTimeout >= HardExitTimeout
    /\ Exit("hardExit")

-----------------------------------------------------------------------------

ProcessNext ==
    \/ ServerStarts \/ ServerFails \/ RollbackStop \/ RollbackStopped \/ ExitAfterRollback
    \/ AllStarted
    \/ \E w \in Work : Complete(w) \/ \E s \in ToSet(Servers) : Accept(w, s)
    \/ SignalWhileStarting \/ FirstSignal \/ AnotherSignal
    \/ HookCalled \/ HookReturns \/ GiveUpOnHook \/ KernelStopReturns \/ ExitAfterStop \/ HardExit

\* The event loop runs what is due: timers fire and Kernel.stop() goes on.
\* No hook need return and no work need complete.
ProcessSpec ==
    /\ ProcessInit /\ [][ProcessNext]_processVars
    /\ WF_processVars(HookCalled) /\ WF_processVars(GiveUpOnHook)
    /\ WF_processVars(KernelStopReturns) /\ WF_processVars(ExitAfterStop)

-----------------------------------------------------------------------------
(* Properties                                                              *)

\* Every variable keeps its type, and only a listening server drains.
ProcessTypeOK ==
    /\ stage \in Stages
    /\ position \in 1..(Len(Servers) + Len(Hooks) + 1)
    /\ failed \in ToSet(Servers) \cup {Nothing}
    /\ serving \subseteq ToSet(Servers)
    /\ draining \subseteq serving
    /\ pending \in BOOLEAN
    /\ timedOut \subseteq ToSet(Hooks)
    /\ servedBy \in [Work -> ToSet(Servers) \cup {Nothing}]
    /\ done \subseteq Work
    /\ exitCode \in ExitCodes \cup {Nothing}

\* A shutdown that reports success has drained the servers: no server is
\* cut off in the middle of its work unless Kernel.stop() gave up on its
\* hook.
DrainBeforeExit ==
    exitCode = "success" =>
      \A w \in Work : servedBy[w] # Nothing => servedBy[w] \in timedOut

\* A failed start leaves no server behind: when the process reports the
\* error, every server that had been started was stopped.
RollbackIsComplete == exitCode = "error" => serving = {}

\* However the process ends, it reports success only after it drained its servers and
\* the error only after it rolled back.
ShutdownIsClean == ProcessTypeOK /\ DrainBeforeExit /\ RollbackIsComplete

\* What the process assumes of its servers is their contract: every server it starts,
\* rolls back or stops by a hook behaves as RuntimeServer says.
ProcessContract(s) ==
    INSTANCE RuntimeServer WITH
        Items <- Work, Awaiters <- {s}, CutsOff <- s \in SelfCutting,
        accepting <- s \in serving \ draining, working <- WorkOf(s),
        awaiting <- {s} \cap draining
AllServersStep ==
    \A s \in ToSet(Servers) : [ProcessContract(s)!ContractNext]_(ProcessContract(s)!contractVars)
ServersKeepContract ==
    (\A s \in ToSet(Servers) : ProcessContract(s)!ContractInit) /\ [][AllServersStep]_processVars

\* A signal ends the process although hooks hang and work never completes.
Ending == stage \in {"stopping", "returning"}
Ended == stage = "exited"
ProcessEnds == Ending ~> Ended
=============================================================================
