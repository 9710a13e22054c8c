------------------------------ MODULE CliProofs ------------------------------
(***************************************************************************)
(* Proofs about the command line.                                          *)
(*                                                                         *)
(* GracefulShutdown: for any number of servers, hooks and pieces of work,  *)
(* however servers fail, hooks hang and signals arrive, a process that     *)
(* reports success has drained every server its hooks reach unless it gave *)
(* up on one, and a process that reports the error has stopped everything  *)
(* it had started.                                                         *)
(*                                                                         *)
(* AppBuild: for any sources, configs and depth of rebuilds, what the gate *)
(* lets through as fresh is the compilation of the source.                 *)
(***************************************************************************)
EXTENDS GracefulShutdown, AppBuild, SequenceTheorems, TLAPS

-----------------------------------------------------------------------------
(* GracefulShutdown: nothing is left running.                               *)


\* What run() has started: all servers before the current one, and after a failure
\* those that are not yet stopped again.
StartInOrder ==
    stage = "starting" =>
        /\ position \in 1..(Len(Servers) + 1)
        /\ serving = {Servers[i] : i \in 1..(position - 1)}
        /\ ~pending
RollbackInOrder ==
    stage = "rollback" =>
        \E k \in 1..Len(Servers) :
            /\ failed = Servers[k] /\ position \in 1..k
            /\ serving = {Servers[i] : i \in position..(k - 1)}
            /\ pending => position < k

\* A server that the hook of its module reaches.
Reached(h) == h \in serving \cap Singletons
\* Kernel.stop() is done with the hooks before n: what they reach was stopped, or
\* given up on.
DoneBefore(n) == \A i \in 1..Len(Hooks) : i < n /\ Reached(Hooks[i]) => Hooks[i] \in timedOut
StopInOrder ==
    /\ stage = "running" => ~pending
    /\ stage = "stopping" => /\ position \in 1..(Len(Hooks) + 1) /\ DoneBefore(position)
                             /\ pending => position <= Len(Hooks)
    /\ stage = "returning" => DoneBefore(Len(Hooks) + 1)

\* Only a server that runs has work.
WorkIsServed == \A w \in Work : servedBy[w] # Nothing => servedBy[w] \in serving

ExitIsEarned ==
    /\ stage # "exited" => exitCode = Nothing
    /\ exitCode = "success" => DoneBefore(Len(Hooks) + 1)
    /\ RollbackIsComplete

ShutdownInv ==
    ProcessTypeOK /\ StartInOrder /\ RollbackInOrder /\ StopInOrder /\ WorkIsServed /\ ExitIsEarned

-----------------------------------------------------------------------------
\* What the assumption on the constants says of the two sequences.
LEMMA SequenceFacts ==
    ASSUME ShutdownAssumption
    PROVE  /\ Len(Servers) \in Nat /\ DOMAIN Servers = 1..Len(Servers)
           /\ Len(Hooks) \in Nat /\ DOMAIN Hooks = 1..Len(Hooks)
           /\ ToSet(Servers) = {Servers[i] : i \in 1..Len(Servers)}
           /\ ToSet(Hooks) = {Hooks[i] : i \in 1..Len(Hooks)}
           /\ \A i, j \in 1..Len(Servers) : Servers[i] = Servers[j] => i = j
           /\ \A i \in 1..Len(Hooks) : Hooks[i] # Nothing
           /\ \A i \in 1..Len(Servers) : Servers[i] # Nothing
           /\ Nothing \notin Singletons \cup SelfCutting
<1> USE DEF ShutdownAssumption
<1>1. Len(Servers) \in Nat /\ DOMAIN Servers = 1..Len(Servers)
      /\ Len(Hooks) \in Nat /\ DOMAIN Hooks = 1..Len(Hooks)
  OBVIOUS
<1>2. /\ ToSet(Servers) = {Servers[i] : i \in 1..Len(Servers)}
      /\ ToSet(Hooks) = {Hooks[i] : i \in 1..Len(Hooks)}
  BY <1>1 DEF ToSet
<1>3. \A i, j \in 1..Len(Servers) : Servers[i] = Servers[j] => i = j
  BY <1>1 DEF IsInjective
<1>4. /\ \A i \in 1..Len(Hooks) : Hooks[i] # Nothing
      /\ \A i \in 1..Len(Servers) : Servers[i] # Nothing
      /\ Nothing \notin Singletons \cup SelfCutting
  BY <1>2
<1> QED BY <1>1, <1>2, <1>3, <1>4

\* No work is left with a server whose stop() settled.
LEMMA StopLeavesNoWork ==
    ASSUME ShutdownAssumption, ProcessTypeOK, WorkIsServed, NEW s, s # Nothing => StopSettles(s)
    PROVE  /\ CutOff(s) \in [Work -> ToSet(Servers) \cup {Nothing}]
           /\ \A w \in Work : CutOff(s)[w] # Nothing => CutOff(s)[w] \in serving \ {s}
<1>1. CutOff(s) \in [Work -> ToSet(Servers) \cup {Nothing}]
  BY DEF CutOff, ProcessTypeOK
<1>2. ASSUME NEW w \in Work, CutOff(s)[w] # Nothing
      PROVE  CutOff(s)[w] \in serving \ {s}
  <2>1. CutOff(s)[w] = servedBy[w] /\ ~(servedBy[w] = s /\ s \in SelfCutting)
    BY <1>2 DEF CutOff
  <2>2. servedBy[w] # s
    BY <1>2, <2>1 DEF StopSettles, WorkOf
  <2> QED BY <1>2, <2>1, <2>2 DEF WorkIsServed
<1> QED BY <1>1, <1>2

-----------------------------------------------------------------------------
\* A living process has no exit code.
LEMMA AliveHasNoCode ==
    ASSUME ShutdownAssumption, ShutdownInv, stage' # "exited", stage # "exited", UNCHANGED exitCode
    PROVE  ExitIsEarned'
<1>1. exitCode' = Nothing /\ exitCode' # "success" /\ exitCode' # "error"
  BY DEF ShutdownInv, ExitIsEarned, ShutdownAssumption, ExitCodes
<1> QED BY <1>1 DEF ExitIsEarned, RollbackIsComplete

\* StartCommand.run() up to the last server, or to the one that fails.
LEMMA StartingStep ==
    ASSUME ShutdownAssumption, ShutdownInv, ServerStarts \/ ServerFails \/ AllStarted
    PROVE  ShutdownInv'
<1>0. ExitIsEarned'
  BY AliveHasNoCode DEF ServerStarts, ServerFails, AllStarted
<1> USE DEF ShutdownInv
<1>1. CASE ServerStarts
  <2>1. Current \in ToSet(Servers) /\ position \in 1..Len(Servers)
    BY <1>1, SequenceFacts DEF ServerStarts, Current, StartInOrder
  <2>2. serving' = {Servers[i] : i \in 1..position}
    BY <1>1, <2>1 DEF ServerStarts, Current, StartInOrder
  <2>3. ProcessTypeOK'
    BY <1>1, <2>1, SequenceFacts DEF ServerStarts, ProcessTypeOK, workVars
  <2>4. StartInOrder'
    BY <1>1, <2>1, <2>2, SequenceFacts DEF ServerStarts, StartInOrder
  <2>5. RollbackInOrder' /\ StopInOrder' /\ WorkIsServed'
    BY <1>1 DEF ServerStarts, RollbackInOrder, StopInOrder, WorkIsServed, workVars
  <2> QED BY <1>0, <2>3, <2>4, <2>5
<1>2. CASE ServerFails
  <2>1. Current \in ToSet(Servers) /\ position \in 1..Len(Servers)
    BY <1>2, SequenceFacts DEF ServerFails, Current, StartInOrder
  <2>2. ProcessTypeOK'
    BY <1>2, <2>1, SequenceFacts DEF ServerFails, ProcessTypeOK, workVars, Stages
  <2>3. RollbackInOrder'
    BY <1>2, <2>1, SequenceFacts DEF ServerFails, Current, StartInOrder, RollbackInOrder
  <2>4. StartInOrder' /\ StopInOrder' /\ WorkIsServed'
    BY <1>2 DEF ServerFails, StartInOrder, StopInOrder, WorkIsServed, workVars
  <2> QED BY <1>0, <2>2, <2>3, <2>4
<1>3. CASE AllStarted
  <2>1. ProcessTypeOK'
    BY <1>3, SequenceFacts DEF AllStarted, ProcessTypeOK, workVars, Stages
  <2>2. StartInOrder' /\ RollbackInOrder' /\ StopInOrder' /\ WorkIsServed'
    BY <1>3 DEF AllStarted, StartInOrder, RollbackInOrder, StopInOrder, WorkIsServed, workVars
  <2> QED BY <1>0, <2>1, <2>2
<1> QED BY <1>1, <1>2, <1>3

\* A failed start: the servers before the one that failed are stopped one by one.
LEMMA RollbackStep ==
    ASSUME ShutdownAssumption, ShutdownInv, RollbackStop \/ RollbackStopped
    PROVE  ShutdownInv'
<1>0. ExitIsEarned'
  BY AliveHasNoCode DEF RollbackStop, RollbackStopped
<1> USE DEF ShutdownInv
<1>1. PICK k \in 1..Len(Servers) : /\ failed = Servers[k] /\ position \in 1..k
                                   /\ serving = {Servers[i] : i \in position..(k - 1)}
                                   /\ pending => position < k
  BY DEF RollbackStop, RollbackStopped, RollbackInOrder
<1>2. position < k /\ Current \in serving /\ Current \in ToSet(Servers) /\ Current # Nothing
  <2>1. position # k
    BY <1>1 DEF RollbackStop, RollbackStopped, RollbackEnds, Current, ProcessTypeOK
  <2>2. position < k
    BY <1>1, <2>1, SequenceFacts
  <2> QED BY <1>1, <2>2, SequenceFacts DEF Current
<1>3. CASE RollbackStop
  <2>1. ProcessTypeOK'
    BY <1>2, <1>3, SequenceFacts DEF RollbackStop, ProcessTypeOK, workVars
  <2>2. RollbackInOrder'
    BY <1>1, <1>2, <1>3 DEF RollbackStop, RollbackInOrder
  <2>3. StartInOrder' /\ StopInOrder' /\ WorkIsServed'
    BY <1>3 DEF RollbackStop, StartInOrder, StopInOrder, WorkIsServed, workVars
  <2> QED BY <1>0, <2>1, <2>2, <2>3
<1>4. CASE RollbackStopped
  <2>1. servedBy' = CutOff(Current) /\ StopSettles(Current)
    BY <1>4 DEF RollbackStopped
  <2>2. /\ servedBy' \in [Work -> ToSet(Servers) \cup {Nothing}]
        /\ \A w \in Work : servedBy'[w] # Nothing => servedBy'[w] \in serving \ {Current}
    BY <2>1, StopLeavesNoWork
  <2>3. position + 1 \in 1..k
    BY <1>1, <1>2, SequenceFacts
  <2>4. serving' = {Servers[i] : i \in (position + 1)..(k - 1)}
    <3>1. serving' = serving \ {Servers[position]}
      BY <1>4 DEF RollbackStopped, Current
    <3>2. \A i \in position..(k - 1) : i \in 1..Len(Servers) /\ (Servers[i] = Servers[position] <=> i = position)
      BY <1>1, <1>2, SequenceFacts
    <3> QED BY <1>1, <1>2, <3>1, <3>2, SequenceFacts
  <2>5. ProcessTypeOK'
    <3>1. position' \in 1..(Len(Servers) + Len(Hooks) + 1)
      BY <1>4, <2>3, SequenceFacts DEF RollbackStopped
    <3>2. draining' \subseteq serving' /\ serving' \subseteq ToSet(Servers) /\ pending' \in BOOLEAN
      BY <1>4 DEF RollbackStopped, ProcessTypeOK
    <3> QED BY <1>4, <2>2, <3>1, <3>2 DEF RollbackStopped, ProcessTypeOK
  <2>6. RollbackInOrder'
    BY <1>1, <1>4, <2>3, <2>4 DEF RollbackStopped, RollbackInOrder
  <2>7. WorkIsServed'
    BY <1>4, <2>2 DEF RollbackStopped, WorkIsServed
  <2>8. StartInOrder' /\ StopInOrder'
    BY <1>4 DEF RollbackStopped, StartInOrder, StopInOrder
  <2> QED BY <1>0, <2>5, <2>6, <2>7, <2>8
<1> QED BY <1>3, <1>4

\* Work comes and goes while the process lives.
LEMMA WorkStep ==
    ASSUME ShutdownAssumption, ShutdownInv, NEW w \in Work,
           Complete(w) \/ \E s \in ToSet(Servers) : Accept(w, s)
    PROVE  ShutdownInv'
<1> USE DEF ShutdownInv
<1>0. UNCHANGED <<stage, position, failed, serving, draining, pending, timedOut, exitCode>>
  BY DEF Complete, Accept
<1>1. ProcessTypeOK'
  BY <1>0 DEF Complete, Accept, ProcessTypeOK
<1>2. WorkIsServed'
  BY <1>0 DEF Complete, Accept, ProcessTypeOK, WorkIsServed
<1>3. StartInOrder' /\ RollbackInOrder'
  BY <1>0 DEF StartInOrder, RollbackInOrder
<1>4. StopInOrder' /\ ExitIsEarned'
  BY <1>0 DEF StopInOrder, ExitIsEarned, RollbackIsComplete, DoneBefore, Reached
<1> QED BY <1>1, <1>2, <1>3, <1>4

\* Kernel.stop(): a hook that returns has stopped what it reaches, one that times out
\* is given up on; nothing it did before is undone.
LEMMA StoppingStep ==
    ASSUME ShutdownAssumption, ShutdownInv,
           FirstSignal \/ HookCalled \/ HookReturns \/ GiveUpOnHook \/ KernelStopReturns
    PROVE  ShutdownInv'
<1>0. ExitIsEarned'
  BY AliveHasNoCode DEF FirstSignal, HookCalled, HookReturns, GiveUpOnHook, KernelStopReturns
<1>0a. StartInOrder' /\ RollbackInOrder'
  BY DEF FirstSignal, HookCalled, HookReturns, GiveUpOnHook, KernelStopReturns, StartInOrder, RollbackInOrder
<1> USE DEF ShutdownInv
<1>1. CASE FirstSignal
  <2>1. ProcessTypeOK' /\ WorkIsServed'
    BY <1>1, SequenceFacts DEF FirstSignal, ProcessTypeOK, WorkIsServed, workVars, Stages
  <2>2. StopInOrder'
    BY <1>1, SequenceFacts DEF FirstSignal, StopInOrder, DoneBefore
  <2> QED BY <1>0, <1>0a, <2>1, <2>2
<1>2. CASE HookCalled
  <2>1. ProcessTypeOK'
    BY <1>2, SequenceFacts DEF HookCalled, HookTarget, ProcessTypeOK, workVars
  <2>2. StopInOrder' /\ WorkIsServed'
    BY <1>2 DEF HookCalled, StopInOrder, DoneBefore, Reached, WorkIsServed, workVars
  <2> QED BY <1>0, <1>0a, <2>1, <2>2
<1>3. CASE HookReturns
  <2>1. /\ position \in 1..Len(Hooks) /\ DoneBefore(position)
        /\ stage' = "stopping" /\ position' = position + 1 /\ pending' = FALSE
        /\ UNCHANGED <<failed, timedOut, done, exitCode>>
    BY <1>3, SequenceFacts DEF HookReturns, StopInOrder
  <2>2. PICK n \in 1..Len(Hooks) : n = position
    BY <2>1
  <2>3. PICK target : target = HookTarget(Hooks[n])
    OBVIOUS
  <2>4. /\ target # Nothing => StopSettles(target)
        /\ serving' = serving \ {target} /\ draining' = draining \ {target}
        /\ servedBy' = CutOff(target)
    BY <1>3, <2>2, <2>3 DEF HookReturns
  <2>5. /\ CutOff(target) \in [Work -> ToSet(Servers) \cup {Nothing}]
        /\ \A w \in Work : CutOff(target)[w] # Nothing => CutOff(target)[w] \in serving \ {target}
    BY <2>4, StopLeavesNoWork
  <2>6. ProcessTypeOK'
    <3>1. position' \in 1..(Len(Servers) + Len(Hooks) + 1)
      BY <2>1, <2>2, SequenceFacts
    <3>2. draining' \subseteq serving' /\ serving' \subseteq ToSet(Servers)
      BY <2>4 DEF ProcessTypeOK
    <3> QED BY <2>1, <2>4, <2>5, <3>1, <3>2 DEF ProcessTypeOK, Stages
  <2>7. WorkIsServed'
    BY <2>4, <2>5 DEF WorkIsServed
  <2>8. \A i \in 1..Len(Hooks) : i < n + 1 /\ Hooks[i] \in serving' \cap Singletons => Hooks[i] \in timedOut'
    <3> SUFFICES ASSUME NEW i \in 1..Len(Hooks), i < n + 1, Hooks[i] \in serving' \cap Singletons
                 PROVE  Hooks[i] \in timedOut'
      OBVIOUS
    <3>1. Hooks[n] \notin serving' \cap Singletons
      BY <2>3, <2>4 DEF HookTarget
    <3>2. i < n
      BY <3>1, SequenceFacts
    <3> QED BY <2>1, <2>2, <2>4, <3>2 DEF DoneBefore, Reached
  <2>9. StopInOrder'
    BY <2>1, <2>2, <2>8, SequenceFacts DEF StopInOrder, DoneBefore, Reached
  <2> QED BY <1>0, <1>0a, <2>6, <2>7, <2>9
<1>4. CASE GiveUpOnHook
  <2>1. /\ position \in 1..Len(Hooks) /\ DoneBefore(position)
        /\ stage' = "stopping" /\ position' = position + 1 /\ pending' = FALSE
        /\ timedOut' = timedOut \cup {Hooks[position]}
        /\ UNCHANGED <<failed, serving, draining, servedBy, done, exitCode>>
    BY <1>4, SequenceFacts DEF GiveUpOnHook, HookTimeoutArmed, AfterTimeout, StopInOrder, workVars
  <2>2. PICK n \in 1..Len(Hooks) : n = position
    BY <2>1
  <2>3. ProcessTypeOK' /\ WorkIsServed'
    <3>1. position' \in 1..(Len(Servers) + Len(Hooks) + 1)
      BY <2>1, <2>2, SequenceFacts
    <3>2. timedOut' \subseteq ToSet(Hooks)
      BY <2>1, <2>2, SequenceFacts DEF ProcessTypeOK
    <3> QED BY <2>1, <3>1, <3>2 DEF ProcessTypeOK, Stages, WorkIsServed
  <2>4. \A i \in 1..Len(Hooks) : i < n + 1 /\ Hooks[i] \in serving' \cap Singletons => Hooks[i] \in timedOut'
    <3> SUFFICES ASSUME NEW i \in 1..Len(Hooks), i < n + 1, Hooks[i] \in serving' \cap Singletons
                 PROVE  Hooks[i] \in timedOut'
      OBVIOUS
    <3>1. i = n \/ i < n
      BY SequenceFacts
    <3> QED BY <2>1, <2>2, <3>1 DEF DoneBefore, Reached
  <2>5. StopInOrder'
    BY <2>1, <2>2, <2>4, SequenceFacts DEF StopInOrder, DoneBefore, Reached
  <2> QED BY <1>0, <1>0a, <2>3, <2>5
<1>5. CASE KernelStopReturns
  <2>1. ProcessTypeOK' /\ WorkIsServed'
    BY <1>5 DEF KernelStopReturns, ProcessTypeOK, WorkIsServed, workVars, Stages
  <2>2. position = Len(Hooks) + 1 /\ DoneBefore(position)
    BY <1>5, SequenceFacts DEF KernelStopReturns, StopInOrder
  <2>3. StopInOrder'
    BY <1>5, <2>2 DEF KernelStopReturns, StopInOrder, DoneBefore, Reached
  <2> QED BY <1>0, <1>0a, <2>1, <2>3
<1> QED BY <1>1, <1>2, <1>3, <1>4, <1>5

\* The process ends: success comes after Kernel.stop(), the error after the rollback.
LEMMA ExitStep ==
    ASSUME ShutdownAssumption, ShutdownInv,
           ExitAfterRollback \/ SignalWhileStarting \/ AnotherSignal \/ ExitAfterStop \/ HardExit
    PROVE  ShutdownInv'
<1> USE DEF ShutdownInv
<1>1. PICK code \in ExitCodes : Exit(code)
  BY DEF ExitAfterRollback, SignalWhileStarting, AnotherSignal, ExitAfterStop, HardExit, ExitCodes
<1>2. ProcessTypeOK' /\ StartInOrder' /\ RollbackInOrder' /\ StopInOrder' /\ WorkIsServed'
  BY <1>1 DEF Exit, ProcessTypeOK, Stages, StartInOrder, RollbackInOrder, StopInOrder, WorkIsServed, workVars
<1>3. UNCHANGED <<serving, timedOut>> /\ stage' = "exited" /\ exitCode' = code
  BY <1>1 DEF Exit
<1>4. code = "success" => DoneBefore(Len(Hooks) + 1)
  BY <1>3 DEF ExitAfterRollback, SignalWhileStarting, AnotherSignal, ExitAfterStop, HardExit, Exit, StopInOrder
<1>5. code = "error" => serving = {}
  <2> SUFFICES ASSUME code = "error" PROVE serving = {}
    OBVIOUS
  <2>1. stage = "rollback" /\ ~pending /\ Current = failed
    BY <1>3 DEF ExitAfterRollback, SignalWhileStarting, AnotherSignal, ExitAfterStop, HardExit, Exit, RollbackEnds
  <2>2. PICK k \in 1..Len(Servers) : /\ failed = Servers[k] /\ position \in 1..k
                                     /\ serving = {Servers[i] : i \in position..(k - 1)}
    BY <2>1 DEF RollbackInOrder
  <2>3. position = k
    BY <2>1, <2>2, SequenceFacts DEF Current
  <2> QED BY <2>2, <2>3
<1>6. ExitIsEarned'
  BY <1>3, <1>4, <1>5 DEF ExitIsEarned, RollbackIsComplete, DoneBefore, Reached
<1> QED BY <1>2, <1>6

\* The invariant is inductive: one lemma per group of actions above.
LEMMA ShutdownInvStep ==
    ASSUME ShutdownAssumption, ShutdownInv, [ProcessNext]_processVars
    PROVE  ShutdownInv'
<1>1. CASE UNCHANGED processVars
  BY <1>1 DEF processVars, workVars, ShutdownInv, ProcessTypeOK, StartInOrder, RollbackInOrder, StopInOrder,
              WorkIsServed, ExitIsEarned, RollbackIsComplete, DoneBefore, Reached
<1> QED BY <1>1, StartingStep, RollbackStep, WorkStep, StoppingStep, ExitStep DEF ProcessNext

\* The states from which run() begins.
LEMMA ShutdownInvInit ==
    ASSUME ShutdownAssumption, ProcessInit
    PROVE  ShutdownInv
<1>1. ProcessTypeOK
  <2>1. position \in 1..(Len(Servers) + Len(Hooks) + 1) /\ stage \in Stages
    BY SequenceFacts DEF ProcessInit, Stages
  <2>2. servedBy \in [Work -> ToSet(Servers) \cup {Nothing}]
    BY DEF ProcessInit
  <2> QED BY <2>1, <2>2 DEF ProcessInit, ProcessTypeOK
<1>2. StartInOrder
  BY SequenceFacts DEF ProcessInit, StartInOrder
<1>3. RollbackInOrder /\ StopInOrder /\ WorkIsServed
  BY DEF ProcessInit, RollbackInOrder, StopInOrder, WorkIsServed
<1>4. ExitIsEarned
  BY DEF ProcessInit, ExitIsEarned, RollbackIsComplete, ShutdownAssumption, ExitCodes
<1> QED BY <1>1, <1>2, <1>3, <1>4 DEF ShutdownInv

-----------------------------------------------------------------------------
\* The invariant holds throughout.
LEMMA ShutdownInvHolds == ASSUME ShutdownAssumption PROVE ProcessSpec => []ShutdownInv
<1>1. ProcessInit => ShutdownInv
  BY ShutdownInvInit
<1>2. ShutdownInv /\ [ProcessNext]_processVars => ShutdownInv'
  BY ShutdownInvStep
<1> QED BY <1>1, <1>2, PTL DEF ProcessSpec

\* The variables of the process keep their types.
THEOREM ShutdownTypeCorrect == ASSUME ShutdownAssumption PROVE ProcessSpec => []ProcessTypeOK
<1>1. ShutdownInv => ProcessTypeOK
  BY DEF ShutdownInv
<1> QED BY <1>1, ShutdownInvHolds, PTL

\* When start() of a server fails, run() reports the error only after it stopped every
\* server it had started.
THEOREM RollbackCompletes == ASSUME ShutdownAssumption PROVE ProcessSpec => []RollbackIsComplete
<1>1. ShutdownInv => RollbackIsComplete
  BY DEF ShutdownInv, ExitIsEarned
<1> QED BY <1>1, ShutdownInvHolds, PTL

\* Kernel.stop() drains what its hooks reach: when the process reports success, a
\* server that has a hook and is a singleton is still working only if its hook timed
\* out.
ReachedServersAreDrained ==
    exitCode = "success" =>
      \A w \in Work : servedBy[w] \in Singletons \cap ToSet(Hooks) => servedBy[w] \in timedOut

\* Kernel.stop() drains what its hooks reach, whatever is registered how.
THEOREM StopDrainsWhatItReaches ==
    ASSUME ShutdownAssumption PROVE ProcessSpec => []ReachedServersAreDrained
<1>1. ASSUME ShutdownInv PROVE ReachedServersAreDrained
  <2> SUFFICES ASSUME exitCode = "success", NEW w \in Work, servedBy[w] \in Singletons \cap ToSet(Hooks)
               PROVE  servedBy[w] \in timedOut
    BY DEF ReachedServersAreDrained
  <2>1. PICK i \in 1..Len(Hooks) : servedBy[w] = Hooks[i]
    BY SequenceFacts
  <2>2. Hooks[i] \in serving
    BY <1>1, <2>1, SequenceFacts DEF ShutdownInv, WorkIsServed
  <2>3. DoneBefore(Len(Hooks) + 1)
    BY <1>1 DEF ShutdownInv, ExitIsEarned
  <2>4. i < Len(Hooks) + 1
    BY SequenceFacts
  <2> QED BY <2>1, <2>2, <2>3, <2>4 DEF DoneBefore, Reached
<1> QED BY <1>1, ShutdownInvHolds, PTL

\* When every runtime server is registered as a singleton and its module has a
\* shutdown hook, a process that reports success has drained all of them and one that
\* reports the error has rolled back: the two conditions are what the shutdown of the
\* HTTP server lacks.
THEOREM ShutdownOfSingletonsIsClean ==
    ASSUME ShutdownAssumption, Singletons = ToSet(Servers), ToSet(Servers) \subseteq ToSet(Hooks)
    PROVE  ProcessSpec => []ShutdownIsClean
<1>1. ASSUME ProcessTypeOK, RollbackIsComplete, ReachedServersAreDrained
      PROVE  ShutdownIsClean
  BY <1>1 DEF ShutdownIsClean, DrainBeforeExit, ReachedServersAreDrained, ProcessTypeOK
<1> QED BY <1>1, ShutdownTypeCorrect, RollbackCompletes, StopDrainsWhatItReaches, PTL

-----------------------------------------------------------------------------
(* GracefulShutdown: the servers of a process are those of RuntimeServer.   *)

Accepting(s) == s \in serving \ draining
Awaited(s) == {s} \cap draining

\* The stop() that run() or Kernel.stop() awaits was called.
AwaitedDrains ==
    /\ stage = "rollback" /\ pending => Current \in draining
    /\ stage = "stopping" /\ pending => HookTarget(Hooks[position]) \in draining \cup {Nothing}

\* It is an invariant: what is awaited, and who serves, changes only when the wait is over.
LEMMA AwaitedDrainsStep ==
    ASSUME ShutdownInv, AwaitedDrains, [ProcessNext]_processVars
    PROVE  AwaitedDrains'
<1>1. CASE ServerStarts \/ AllStarted \/ FirstSignal \/ ServerFails
  BY <1>1 DEF ServerStarts, AllStarted, FirstSignal, ServerFails, AwaitedDrains, ShutdownInv, StartInOrder, StopInOrder
<1>2. CASE RollbackStop \/ RollbackStopped \/ HookReturns \/ GiveUpOnHook \/ KernelStopReturns
  BY <1>2 DEF RollbackStop, RollbackStopped, HookReturns, GiveUpOnHook, KernelStopReturns, HookTimeoutArmed,
              AwaitedDrains, Current
<1>3. CASE HookCalled
  BY <1>3 DEF HookCalled, AwaitedDrains, HookTarget
<1>4. CASE ExitAfterRollback \/ SignalWhileStarting \/ AnotherSignal \/ ExitAfterStop \/ HardExit
  BY <1>4 DEF ExitAfterRollback, SignalWhileStarting, AnotherSignal, ExitAfterStop, HardExit, Exit, AwaitedDrains
<1>5. ASSUME NEW w \in Work, Complete(w) \/ \E s \in ToSet(Servers) : Accept(w, s)
      PROVE  AwaitedDrains'
  BY <1>5 DEF Complete, Accept, AwaitedDrains, Current, HookTarget
<1>6. CASE UNCHANGED processVars
  BY <1>6 DEF processVars, AwaitedDrains, Current, HookTarget
<1> QED BY <1>1, <1>2, <1>3, <1>4, <1>5, <1>6 DEF ProcessNext

\* The contract of one server, in the terms of the process.
LEMMA ProcessContractSees ==
    ASSUME NEW s, UNCHANGED <<Accepting(s), WorkOf(s), Awaited(s)>>
    PROVE  UNCHANGED ProcessContract(s)!contractVars
  BY DEF ProcessContract!contractVars, Accepting, Awaited

LEMMA ProcessContractTerms ==
    ASSUME NEW s
    PROVE  /\ ~Accepting(s) /\ Accepting(s)' /\ Awaited(s)' = {} /\ UNCHANGED WorkOf(s)
                => ProcessContract(s)!StartResolves
           /\ \A w \in Work :
                /\ Accepting(s) /\ w \notin WorkOf(s) /\ WorkOf(s)' = WorkOf(s) \cup {w}
                   /\ UNCHANGED <<Accepting(s), Awaited(s)>> => ProcessContract(s)!Begin(w)
                /\ w \in WorkOf(s) /\ WorkOf(s)' = WorkOf(s) \ {w}
                   /\ UNCHANGED <<Accepting(s), Awaited(s)>> => ProcessContract(s)!End(w)
           /\ ~Accepting(s)' /\ Awaited(s)' = {s} /\ UNCHANGED WorkOf(s) => ProcessContract(s)!StopCalled({s})
           /\ s \in Awaited(s) /\ ~Accepting(s) /\ ~Accepting(s)' /\ (WorkOf(s) = {} \/ s \in SelfCutting)
                /\ WorkOf(s)' = {} /\ Awaited(s)' = {} => ProcessContract(s)!StopIsOver(s)
<1>1. ~Accepting(s) /\ Accepting(s)' /\ Awaited(s)' = {} /\ UNCHANGED WorkOf(s)
        => ProcessContract(s)!StartResolves
  BY DEF ProcessContract!StartResolves, Accepting, Awaited
<1>2. ASSUME NEW w \in Work, Accepting(s), w \notin WorkOf(s), WorkOf(s)' = WorkOf(s) \cup {w},
             UNCHANGED <<Accepting(s), Awaited(s)>>
      PROVE  ProcessContract(s)!Begin(w)
  BY <1>2 DEF ProcessContract!Begin, Accepting, Awaited
<1>3. ASSUME NEW w \in Work, w \in WorkOf(s), WorkOf(s)' = WorkOf(s) \ {w}, UNCHANGED <<Accepting(s), Awaited(s)>>
      PROVE  ProcessContract(s)!End(w)
  BY <1>3 DEF ProcessContract!End, Accepting, Awaited
<1>4. ASSUME ~Accepting(s)', Awaited(s)' = {s}, UNCHANGED WorkOf(s)
      PROVE  ProcessContract(s)!StopCalled({s})
  BY <1>4 DEF ProcessContract!StopCalled, Accepting, Awaited
<1>5. ASSUME s \in Awaited(s), ~Accepting(s), ~Accepting(s)', WorkOf(s) = {} \/ s \in SelfCutting,
             WorkOf(s)' = {}, Awaited(s)' = {}
      PROVE  ProcessContract(s)!StopIsOver(s)
  BY <1>5 DEF ProcessContract!StopIsOver, Accepting, Awaited
<1> QED BY <1>1, <1>2, <1>3, <1>4, <1>5

\* stop() of a server t settles, or a hook that stops none returns (t is Nothing).
LEMMA StopOverStep ==
    ASSUME ShutdownAssumption, ProcessTypeOK, NEW s \in ToSet(Servers), NEW t \in ToSet(Servers) \cup {Nothing},
           t # Nothing => StopSettles(t) /\ t \in draining,
           serving' = serving \ {t}, draining' = draining \ {t}, servedBy' = CutOff(t)
    PROVE  ProcessContract(s)!ContractNext \/ UNCHANGED ProcessContract(s)!contractVars
<1>0. s # Nothing /\ Nothing \notin SelfCutting
  BY DEF ShutdownAssumption
<1>1. CASE s = t
  <2>1. s \in Awaited(s) /\ ~Accepting(s) /\ ~Accepting(s)' /\ Awaited(s)' = {}
    BY <1>0, <1>1 DEF Accepting, Awaited
  <2>2. WorkOf(s) = {} \/ s \in SelfCutting
    BY <1>0, <1>1 DEF StopSettles
  <2>3. WorkOf(s)' = {}
    BY <1>0, <1>1, <2>2 DEF WorkOf, CutOff
  <2>4. ProcessContract(s)!StopIsOver(s)
    BY <2>1, <2>2, <2>3, ProcessContractTerms
  <2>5. s \in {s}
    OBVIOUS
  <2> QED BY <2>4, <2>5 DEF ProcessContract!ContractNext
<1>2. CASE s # t
  <2>1. UNCHANGED <<Accepting(s), Awaited(s)>>
    BY <1>2 DEF Accepting, Awaited
  <2>2. UNCHANGED WorkOf(s)
    BY <1>0, <1>2 DEF WorkOf, CutOff
  <2> QED BY <2>1, <2>2, ProcessContractSees
<1> QED BY <1>1, <1>2

\* stop() of a server t is called, or a hook that stops none is (t is Nothing).
LEMMA StopCalledStep ==
    ASSUME ShutdownAssumption, NEW s \in ToSet(Servers), NEW t,
           serving' = serving, draining' = draining \cup ({t} \ {Nothing}), servedBy' = servedBy
    PROVE  ProcessContract(s)!ContractNext \/ UNCHANGED ProcessContract(s)!contractVars
<1>0. s # Nothing
  BY DEF ShutdownAssumption
<1>1. UNCHANGED WorkOf(s)
  BY DEF WorkOf
<1>2. CASE s = t
  <2>1. ~Accepting(s)' /\ Awaited(s)' = {s}
    BY <1>0, <1>2 DEF Accepting, Awaited
  <2>2. ProcessContract(s)!StopCalled({s})
    BY <1>1, <2>1, ProcessContractTerms
  <2>3. {s} \in SUBSET {s}
    OBVIOUS
  <2> QED BY <2>2, <2>3 DEF ProcessContract!ContractNext
<1>3. CASE s # t
  <2>1. UNCHANGED <<Accepting(s), Awaited(s)>>
    BY <1>3 DEF Accepting, Awaited
  <2> QED BY <1>1, <2>1, ProcessContractSees
<1> QED BY <1>2, <1>3

\* Every step of the process is, for each of its servers, a step of the contract or none.
LEMMA ProcessContractStep ==
    ASSUME ShutdownAssumption, ShutdownInv, AwaitedDrains, [ProcessNext]_processVars, NEW s \in ToSet(Servers)
    PROVE  [ProcessContract(s)!ContractNext]_(ProcessContract(s)!contractVars)
<1> DEFINE Goal == ProcessContract(s)!ContractNext \/ UNCHANGED ProcessContract(s)!contractVars
<1> SUFFICES Goal
  OBVIOUS
<1>t. ProcessTypeOK
  BY DEF ShutdownInv
<1>0. s # Nothing
  BY DEF ShutdownAssumption
<1>s. ASSUME UNCHANGED <<serving, draining, servedBy>> PROVE Goal
  BY <1>s, ProcessContractSees DEF Accepting, Awaited, WorkOf
<1>1. CASE ServerStarts
  <2>1. serving' = serving \cup {Current} /\ UNCHANGED <<draining, servedBy>>
    BY <1>1 DEF ServerStarts, workVars
  <2>2. UNCHANGED WorkOf(s)
    BY <2>1 DEF WorkOf
  <2>3. UNCHANGED Awaited(s)
    BY <2>1 DEF Awaited
  <2>4. CASE ~Accepting(s) /\ Accepting(s)'
    <3>1. Awaited(s)' = {}
      BY <2>1, <2>4 DEF Accepting, Awaited
    <3>2. ProcessContract(s)!StartResolves
      BY <2>2, <2>4, <3>1, ProcessContractTerms
    <3> QED BY <3>2 DEF ProcessContract!ContractNext
  <2>5. CASE Accepting(s) \/ ~Accepting(s)'
    <3>1. UNCHANGED Accepting(s)
      BY <2>1, <2>5 DEF Accepting
    <3> QED BY <2>2, <2>3, <3>1, ProcessContractSees
  <2> QED BY <2>4, <2>5
<1>2. CASE ServerFails \/ AllStarted \/ FirstSignal \/ GiveUpOnHook \/ KernelStopReturns
  BY <1>2, <1>s DEF ServerFails, AllStarted, FirstSignal, GiveUpOnHook, KernelStopReturns, workVars
<1>3. CASE ExitAfterRollback \/ SignalWhileStarting \/ AnotherSignal \/ ExitAfterStop \/ HardExit
  BY <1>3, <1>s DEF ExitAfterRollback, SignalWhileStarting, AnotherSignal, ExitAfterStop, HardExit, Exit, workVars
<1>4. CASE RollbackStop
  <2>1. Current # Nothing
    BY <1>4, SequenceFacts DEF RollbackStop, ShutdownInv, RollbackInOrder, Current
  <2>2. serving' = serving /\ draining' = draining \cup ({Current} \ {Nothing}) /\ servedBy' = servedBy
    BY <1>4, <2>1 DEF RollbackStop, workVars
  <2> QED BY <2>2, StopCalledStep
<1>5. CASE HookCalled
  <2>1. /\ serving' = serving /\ draining' = draining \cup ({HookTarget(Hooks[position])} \ {Nothing})
        /\ servedBy' = servedBy
    BY <1>5 DEF HookCalled, workVars
  <2> QED BY <2>1, StopCalledStep
<1>6. CASE RollbackStopped
  <2>1. Current \in draining /\ StopSettles(Current)
    BY <1>6 DEF RollbackStopped, AwaitedDrains
  <2>2. Current \in ToSet(Servers) \cup {Nothing}
    BY <1>t, <2>1 DEF ProcessTypeOK
  <2>3. serving' = serving \ {Current} /\ draining' = draining \ {Current} /\ servedBy' = CutOff(Current)
    BY <1>6 DEF RollbackStopped
  <2> QED BY <1>t, <2>1, <2>2, <2>3, StopOverStep
<1>7. CASE HookReturns
  <2>1. PICK t : t = HookTarget(Hooks[position])
    OBVIOUS
  <2>2. t # Nothing => StopSettles(t) /\ t \in draining
    BY <1>7, <2>1 DEF HookReturns, AwaitedDrains
  <2>3. t \in ToSet(Servers) \cup {Nothing}
    BY <1>t, <2>2 DEF ProcessTypeOK
  <2>4. serving' = serving \ {t} /\ draining' = draining \ {t} /\ servedBy' = CutOff(t)
    BY <1>7, <2>1 DEF HookReturns
  <2> QED BY <1>t, <2>2, <2>3, <2>4, StopOverStep
<1>8. ASSUME NEW w \in Work, NEW t \in ToSet(Servers), Accept(w, t) PROVE Goal
  <2>1. /\ t \in serving \ draining /\ servedBy[w] = Nothing /\ servedBy' = [servedBy EXCEPT ![w] = t]
        /\ UNCHANGED <<serving, draining>>
    BY <1>8 DEF Accept
  <2>2. UNCHANGED <<Accepting(s), Awaited(s)>>
    BY <2>1 DEF Accepting, Awaited
  <2>3. CASE s = t
    <3>1. Accepting(s) /\ w \notin WorkOf(s)
      BY <1>0, <2>1, <2>3 DEF Accepting, WorkOf
    <3>2. WorkOf(s)' = WorkOf(s) \cup {w}
      BY <1>t, <2>1, <2>3 DEF WorkOf, ProcessTypeOK
    <3>3. ProcessContract(s)!Begin(w)
      BY <2>2, <3>1, <3>2, ProcessContractTerms
    <3> QED BY <3>3 DEF ProcessContract!ContractNext
  <2>4. CASE s # t
    <3>1. UNCHANGED WorkOf(s)
      BY <1>t, <1>0, <2>1, <2>4 DEF WorkOf, ProcessTypeOK
    <3> QED BY <2>2, <3>1, ProcessContractSees
  <2> QED BY <2>3, <2>4
<1>9. ASSUME NEW w \in Work, Complete(w) PROVE Goal
  <2>1. servedBy' = [servedBy EXCEPT ![w] = Nothing] /\ UNCHANGED <<serving, draining>>
    BY <1>9 DEF Complete
  <2>2. UNCHANGED <<Accepting(s), Awaited(s)>>
    BY <2>1 DEF Accepting, Awaited
  <2>3. WorkOf(s)' = WorkOf(s) \ {w}
    BY <1>t, <1>0, <2>1 DEF WorkOf, ProcessTypeOK
  <2>4. CASE w \in WorkOf(s)
    <3>1. ProcessContract(s)!End(w)
      BY <2>2, <2>3, <2>4, ProcessContractTerms
    <3> QED BY <3>1 DEF ProcessContract!ContractNext
  <2>5. CASE w \notin WorkOf(s)
    <3>1. UNCHANGED WorkOf(s)
      BY <2>3, <2>5
    <3> QED BY <2>2, <3>1, ProcessContractSees
  <2> QED BY <2>4, <2>5
<1>10. CASE UNCHANGED processVars
  BY <1>10, <1>s DEF processVars
<1> QED BY <1>1, <1>2, <1>3, <1>4, <1>5, <1>6, <1>7, <1>8, <1>9, <1>10 DEF ProcessNext

\* What the process assumes of its servers is what RuntimeServer says, no matter which fail
\* to start, are rolled back, hang in a hook or are cut off.
THEOREM ProcessAssumesTheContract == ASSUME ShutdownAssumption PROVE ProcessSpec => ServersKeepContract
<1>1. ProcessInit => AwaitedDrains
  BY DEF ProcessInit, AwaitedDrains
<1>2. ShutdownInv /\ AwaitedDrains /\ [ProcessNext]_processVars => AwaitedDrains'
  BY AwaitedDrainsStep
<1>3. ProcessInit => \A s \in ToSet(Servers) : ProcessContract(s)!ContractInit
  <2> SUFFICES ASSUME ProcessInit, NEW s \in ToSet(Servers) PROVE ProcessContract(s)!ContractInit
    OBVIOUS
  <2>1. s # Nothing
    BY DEF ShutdownAssumption
  <2> QED BY <2>1 DEF ProcessInit, ProcessContract!ContractInit, WorkOf
<1>4. ShutdownInv /\ AwaitedDrains /\ [ProcessNext]_processVars => [AllServersStep]_processVars
  BY ProcessContractStep DEF AllServersStep
<1> QED BY <1>1, <1>2, <1>3, <1>4, ShutdownInvHolds, PTL DEF ProcessSpec, ServersKeepContract

-----------------------------------------------------------------------------
(* AppBuild: what is loaded as fresh is what is in the source.              *)

Places == {"start", "check", "prompt", "waiting", "recheck", "import", "plugins", "command",
           "build", "compile", "tsc", "manifest", "done"}
ProcessRecords ==
    [command : {"p:build", "other"}, at : Places, code : {Unset, 0, 1}, config : ConfigFiles \cup {Unset},
     app : Sources \cup {Unset, "built-ins"}, plugins : BOOLEAN, gate : {Unset, "fresh", "missing"},
     checked : Sources \cup {Unset}, undisturbed : BOOLEAN, built : ConfigFiles \cup {Unset}, since : Nat,
     left : Seq(Formats), compiled : SUBSET Formats, read : Sources \cup {Unset}]
ProjectOK ==
    /\ project \in [isTTY : BOOLEAN, source : Sources, config : ConfigFiles \cup {Unset},
                    output : [Formats -> Sources \cup {Unset}], manifest : Manifests \cup {Unset}]
    /\ edits \in Nat
    /\ undisturbed \in BOOLEAN
BuildTypeOK == ProjectOK /\ processes \in Seq(ProcessRecords)

\* Only the last process runs.
OthersWait == \A i \in 1..Len(processes) : i < Len(processes) => processes[i].at = "waiting"

\* As long as nothing has disturbed the manifest, the output it names is the one it was written for
\* or has been cleaned away.
ManifestIsFaithful ==
    undisturbed => project.manifest # Unset /\ project.output[project.manifest.out] \in {project.manifest.hash, Unset}

\* On its way to the import a process has a config and no AppModule; what it found at the
\* gate is there until it is imported, because nobody else writes it.
GateIsKept(q) ==
    /\ q.at \in {"check", "prompt", "waiting", "recheck", "import"} => q.config # Unset
    /\ q.at \in {"start", "check", "prompt", "waiting", "recheck", "import"} => q.app = Unset
    /\ q.at = "import" /\ q.gate = "fresh" /\ q.undisturbed => project.output[q.config.out] = q.checked
    /\ q.gate = "fresh" /\ q.undisturbed /\ q.app \notin {Unset, "built-ins"} => q.app = q.checked

\* While nothing is edited, what tsc has read and what it has written is the source.
BuildIsCurrent(q) ==
    /\ q.at \in Places \ {"compile", "tsc", "manifest", "done"} => q.built = Unset /\ q.compiled = {}
    /\ q.since <= edits
    /\ q.at = "tsc" /\ q.since = edits => q.read = project.source
    /\ q.at \in {"compile", "tsc"} => q.left # <<>>
    /\ q.at \in {"compile", "tsc", "manifest"} /\ q.since = edits
         => \A f \in q.compiled : project.output[f] = project.source
    /\ q.at = "tsc" => q.read # Unset
    /\ q.at = "done" /\ q.code = 0 /\ q.built # Unset /\ q.since = edits /\ q.built.paths /\ q.built.out \in q.compiled
         => check(q.built) = "fresh" /\ project.output[q.built.out] = project.source

ProcessIsSound(q) == GateIsKept(q) /\ BuildIsCurrent(q)
BuildInv ==
    /\ BuildTypeOK /\ OthersWait /\ ManifestIsFaithful
    /\ \A i \in 1..Len(processes) : ProcessIsSound(processes[i])

\* What is known of the process that runs.
LEMMA RunningFacts ==
    ASSUME BuildInv, processes # <<>>
    PROVE  /\ Len(processes) \in Nat \ {0} /\ running = processes[Len(processes)]
           /\ running \in ProcessRecords /\ GateIsKept(running) /\ BuildIsCurrent(running)
<1>1. processes \in Seq(ProcessRecords)
  BY DEF BuildInv, BuildTypeOK
<1>2. Len(processes) \in Nat \ {0}
  BY <1>1
<1>3. running = processes[Len(processes)]
  BY DEF running, Last
<1>4. running \in ProcessRecords
  BY <1>1, <1>2, <1>3
<1>5. ProcessIsSound(processes[Len(processes)])
  BY <1>2 DEF BuildInv
<1> QED BY <1>2, <1>3, <1>4, <1>5 DEF ProcessIsSound

\* The first processes of a sequence.
LEMMA FirstProcesses ==
    ASSUME NEW s \in Seq(ProcessRecords), NEW n \in 0..Len(s)
    PROVE  /\ SubSeq(s, 1, n) \in Seq(ProcessRecords) /\ Len(SubSeq(s, 1, n)) = n
           /\ \A i \in 1..n : SubSeq(s, 1, n)[i] = s[i]
<1>1. Len(s) \in Nat /\ n \in Nat /\ \A i \in 1..n : s[i] \in ProcessRecords
  OBVIOUS
<1> QED BY <1>1, SubSeqProperties

\* The process that runs is replaced: the others stay.
LEMMA BecomesFacts ==
    ASSUME processes \in Seq(ProcessRecords), processes # <<>>, NEW q \in ProcessRecords, Becomes(q)
    PROVE  /\ processes' \in Seq(ProcessRecords) /\ Len(processes') = Len(processes)
           /\ processes'[Len(processes)] = q
           /\ \A i \in 1..Len(processes) : i < Len(processes) => processes'[i] = processes[i]
<1> DEFINE front == SubSeq(processes, 1, Len(processes) - 1)
<1>1. Len(processes) \in Nat \ {0}
  OBVIOUS
<1>2. front \in Seq(ProcessRecords) /\ Len(front) = Len(processes) - 1
      /\ \A i \in 1..(Len(processes) - 1) : front[i] = processes[i]
  <2>1. Len(processes) - 1 \in 0..Len(processes)
    BY <1>1
  <2> QED BY <2>1, FirstProcesses
<1>3. processes' = Append(front, q)
  BY DEF Becomes, Front
<1> HIDE DEF front
<1>4. processes' \in Seq(ProcessRecords) /\ Len(processes') = Len(processes) /\ processes'[Len(processes)] = q
  BY <1>1, <1>2, <1>3
<1>5. \A i \in 1..Len(processes) : i < Len(processes) => processes'[i] = processes[i]
  BY <1>1, <1>2, <1>3
<1> QED BY <1>4, <1>5

\* A process that waits is touched by nothing.
LEMMA WaitingStays ==
    ASSUME NEW q \in ProcessRecords, q.at = "waiting", ProcessIsSound(q),
           edits \in Nat, edits' \in Nat, edits <= edits'
    PROVE  ProcessIsSound(q)'
<1>1. GateIsKept(q)'
  BY DEF ProcessIsSound, GateIsKept
<1>2. BuildIsCurrent(q)'
  BY DEF ProcessIsSound, BuildIsCurrent, ProcessRecords, Places
<1> QED BY <1>1, <1>2 DEF ProcessIsSound

\* A step of the process that runs: what has to be shown is about that process only.
LEMMA RunningStep ==
    ASSUME BuildInv, processes # <<>>, NEW q \in ProcessRecords, Becomes(q),
           ProjectOK', edits' = edits, ManifestIsFaithful', GateIsKept(q)', BuildIsCurrent(q)'
    PROVE  BuildInv'
<1> USE DEF BuildInv, BuildTypeOK
<1>1. /\ processes' \in Seq(ProcessRecords) /\ Len(processes') = Len(processes)
      /\ processes'[Len(processes)] = q
      /\ \A i \in 1..Len(processes) : i < Len(processes) => processes'[i] = processes[i]
  BY BecomesFacts
<1>2. OthersWait'
  BY <1>1 DEF OthersWait
<1>3. ASSUME NEW i \in 1..Len(processes) PROVE ProcessIsSound(processes[i])'
  <2>1. CASE i = Len(processes)
    BY <1>1, <2>1 DEF ProcessIsSound
  <2>2. CASE i < Len(processes)
    <3>1. processes'[i] = processes[i] /\ processes[i] \in ProcessRecords
          /\ processes[i].at = "waiting" /\ ProcessIsSound(processes[i])
      BY <1>1, <2>2 DEF OthersWait
    <3>2. edits \in Nat /\ edits' \in Nat /\ edits <= edits'
      BY DEF ProjectOK
    <3>3. \A p \in ProcessRecords : p.at = "waiting" /\ ProcessIsSound(p) => ProcessIsSound(p)'
      BY <3>2, WaitingStays
    <3> QED BY <3>1, <3>3
  <2> QED BY <2>1, <2>2
<1> QED BY <1>1, <1>2, <1>3

\* The same, for a step that touches nothing else.
LEMMA InnerStep ==
    ASSUME BuildInv, processes # <<>>, NEW q \in ProcessRecords, Becomes(q),
           UNCHANGED <<project, edits, undisturbed>>, GateIsKept(q), BuildIsCurrent(q)
    PROVE  BuildInv'
<1>1. ProjectOK' /\ ManifestIsFaithful'
  BY DEF BuildInv, BuildTypeOK, ProjectOK, ManifestIsFaithful
<1>2. GateIsKept(q)' /\ BuildIsCurrent(q)'
  BY DEF GateIsKept, BuildIsCurrent, check
<1> QED BY <1>1, <1>2, RunningStep

\* Sequences of processes that are put together anew: sound if every part is.
LEMMA NewProcesses ==
    ASSUME BuildInv, UNCHANGED <<project, edits, undisturbed>>, processes' \in Seq(ProcessRecords),
           \A i \in 1..Len(processes') :
             /\ i < Len(processes') => processes'[i].at = "waiting"
             /\ GateIsKept(processes'[i]) /\ BuildIsCurrent(processes'[i])
    PROVE  BuildInv'
<1>1. BuildTypeOK' /\ ManifestIsFaithful' /\ OthersWait'
  BY DEF BuildInv, BuildTypeOK, ProjectOK, ManifestIsFaithful, OthersWait
<1>2. \A q \in ProcessRecords : GateIsKept(q) /\ BuildIsCurrent(q) => ProcessIsSound(q)'
  BY DEF ProcessIsSound, GateIsKept, BuildIsCurrent, check
<1>3. ASSUME NEW i \in 1..Len(processes') PROVE ProcessIsSound(processes[i])'
  BY <1>2
<1> QED BY <1>1, <1>3 DEF BuildInv

LEMMA NewProcess ==
    ASSUME ProjectOK, NEW command \in {"p:build", "other"}
    PROVE  Process(command) \in ProcessRecords /\ GateIsKept(Process(command)) /\ BuildIsCurrent(Process(command))
<1> DEFINE q == Process(command)
<1>1. q \in ProcessRecords
  <2>1. <<>> \in Seq(Formats) /\ {} \in SUBSET Formats
    OBVIOUS
  <2> QED BY <2>1 DEF Process, ProcessRecords, Places
<1>2. /\ q.at = "start" /\ q.app = Unset /\ q.gate = Unset /\ q.built = Unset /\ q.compiled = {} /\ q.since = 0
      /\ q.undisturbed = FALSE
  BY DEF Process
<1> HIDE DEF q
<1>3. GateIsKept(q)
  BY <1>2 DEF GateIsKept
<1>4. BuildIsCurrent(q)
  BY <1>2 DEF BuildIsCurrent, ProjectOK
<1> QED BY <1>1, <1>3, <1>4 DEF q

LEMMA EditStep == ASSUME BuildAssumption, BuildInv, Edit PROVE BuildInv'
<1>1. PICK s \in Sources, c \in Configs : project' = [project EXCEPT !.source = s, !.config = c]
  BY DEF Edit
<1>2. ProjectOK' /\ edits \in Nat /\ edits' = edits + 1 /\ project'.output = project.output /\ project'.manifest = project.manifest
  <2>1. c \in ConfigFiles \cup {Unset}
    BY DEF BuildAssumption
  <2>2. ProjectOK /\ edits' = edits + 1 /\ undisturbed' = undisturbed
    BY DEF Edit, BuildInv, BuildTypeOK
  <2>3. project \in [isTTY : BOOLEAN, source : Sources, config : ConfigFiles \cup {Unset},
                     output : [Formats -> Sources \cup {Unset}], manifest : Manifests \cup {Unset}]
    BY <2>2 DEF ProjectOK
  <2> DEFINE outputs == [Formats -> Sources \cup {Unset}]
             files == ConfigFiles \cup {Unset}
             manifests == Manifests \cup {Unset}
  <2> HIDE DEF outputs, files, manifests
  <2>4. project \in [isTTY : BOOLEAN, source : Sources, config : files, output : outputs, manifest : manifests]
        /\ c \in files
    BY <2>1, <2>3 DEF outputs, files, manifests
  <2>5. project' \in [isTTY : BOOLEAN, source : Sources, config : files, output : outputs, manifest : manifests]
        /\ project'.output = project.output /\ project'.manifest = project.manifest
    BY <1>1, <2>4
  <2> QED BY <2>2, <2>5 DEF ProjectOK, outputs, files, manifests
<1>3. processes' = processes /\ undisturbed' = undisturbed
  BY DEF Edit
<1>4. ManifestIsFaithful' /\ OthersWait' /\ BuildTypeOK'
  BY <1>2, <1>3 DEF BuildInv, BuildTypeOK, ManifestIsFaithful, OthersWait
<1>5. ASSUME NEW i \in 1..Len(processes) PROVE ProcessIsSound(processes[i])'
  <2>1. processes[i] \in ProcessRecords /\ GateIsKept(processes[i]) /\ BuildIsCurrent(processes[i])
    BY DEF BuildInv, BuildTypeOK, ProcessIsSound
  <2>2. GateIsKept(processes[i])'
    BY <2>1, <1>2, <1>3 DEF GateIsKept
  <2>3. processes[i].since <= edits /\ processes[i].since \in Nat
    BY <2>1 DEF BuildIsCurrent, ProcessRecords
  <2>4. BuildIsCurrent(processes[i])'
    BY <2>1, <2>3, <1>2, <1>3 DEF BuildIsCurrent
  <2> QED BY <2>2, <2>4 DEF ProcessIsSound
<1> QED BY <1>3, <1>4, <1>5 DEF BuildInv

LEMMA RunStep == ASSUME BuildInv, NEW command \in {"p:build", "other"}, Run(command) PROVE BuildInv'
<1> DEFINE q == Process(command)
<1>1. q \in ProcessRecords /\ GateIsKept(q) /\ BuildIsCurrent(q)
  BY NewProcess DEF BuildInv, BuildTypeOK
<1>2. processes' = <<q>> /\ UNCHANGED <<project, edits, undisturbed>>
  BY DEF Run
<1> HIDE DEF q
<1>3. processes' \in Seq(ProcessRecords) /\ Len(processes') = 1 /\ processes'[1] = q
  BY <1>1, <1>2
<1> QED BY <1>1, <1>2, <1>3, NewProcesses

LEMMA LoadConfigStep == ASSUME BuildAssumption, BuildInv, loadConfig PROVE BuildInv'
<1>1. /\ processes # <<>> /\ running.at = "start" /\ UNCHANGED <<project, edits, undisturbed>>
      /\ running \in ProcessRecords /\ GateIsKept(running) /\ BuildIsCurrent(running)
  BY RunningFacts DEF loadConfig, ProcessAt
<1>2. project.config \in ConfigFiles \cup {Unset}
  BY DEF BuildInv, BuildTypeOK, ProjectOK
<1>3. CASE Exits(1)
  <2> DEFINE q == [running EXCEPT !.at = "done", !.code = 1]
  <2>1. q \in ProcessRecords
    BY <1>1 DEF ProcessRecords, Places
  <2>2. GateIsKept(q) /\ BuildIsCurrent(q)
    BY <1>1 DEF GateIsKept, BuildIsCurrent, ProcessRecords, Places
  <2> QED BY <1>1, <1>3, <2>1, <2>2, InnerStep DEF Exits
<1>4. ASSUME NEW app \in BOOLEAN, app => project.config # Unset,
             Becomes([running EXCEPT !.config = project.config, !.at = IF app THEN "check" ELSE "plugins",
                                     !.app = IF app THEN Unset ELSE "built-ins"])
      PROVE  BuildInv'
  <2> DEFINE place == IF app THEN "check" ELSE "plugins"
             module == IF app THEN Unset ELSE "built-ins"
             q == [running EXCEPT !.config = project.config, !.at = place, !.app = module]
  <2>1. q \in ProcessRecords
    <3>1. place \in Places /\ module \in Sources \cup {Unset, "built-ins"}
      BY DEF Places
    <3> HIDE DEF place, module
    <3> QED BY <1>1, <1>2, <3>1 DEF ProcessRecords
  <2>2. GateIsKept(q)
    BY <1>1, <1>4 DEF GateIsKept, ProcessRecords
  <2>3. BuildIsCurrent(q)
    BY <1>1 DEF BuildIsCurrent, ProcessRecords, Places
  <2> QED BY <1>1, <1>4, <2>1, <2>2, <2>3, InnerStep
<1>5. LET app == project.config # Unset /\ project.config.paths IN app \in BOOLEAN
  BY <1>2 DEF ConfigFiles
<1> QED BY <1>3, <1>4, <1>5 DEF loadConfig

\* What the gate has called fresh under an undisturbed manifest is the compiled source.
LEMMA FreshOutput ==
    ASSUME BuildAssumption, BuildInv, NEW c \in ConfigFiles, check(c) = "fresh"
    PROVE  project.output[c.out] # Unset /\ (undisturbed => project.output[c.out] = project.source)
  BY DEF check, BuildInv, BuildTypeOK, ProjectOK, ManifestIsFaithful, Manifests

LEMMA PassesStep ==
    ASSUME BuildAssumption, BuildInv, processes # <<>>, running.at \in {"check", "recheck"},
           NEW g \in {"fresh", "missing"}, g = "fresh" => check(running.config) = "fresh",
           Passes(g), UNCHANGED <<project, edits, undisturbed>>
    PROVE  BuildInv'
<1>1. running \in ProcessRecords /\ GateIsKept(running) /\ BuildIsCurrent(running)
  BY RunningFacts
<1>2. running.config \in ConfigFiles /\ running.app = Unset
  BY <1>1 DEF GateIsKept, ProcessRecords
<1>3. g = "fresh" /\ undisturbed => project.output[running.config.out] = project.source
  BY <1>2, FreshOutput
<1> DEFINE q == [running EXCEPT !.at = "import", !.gate = g, !.checked = project.source, !.undisturbed = undisturbed]
<1>4. q \in ProcessRecords
  BY <1>1 DEF ProcessRecords, Places, BuildInv, BuildTypeOK, ProjectOK
<1>5. GateIsKept(q)
  BY <1>1, <1>2, <1>3, BuildAssumption DEF GateIsKept, ProcessRecords, BuildAssumption
<1>6. BuildIsCurrent(q)
  BY <1>1 DEF BuildIsCurrent, ProcessRecords, Places
<1> QED BY <1>4, <1>5, <1>6, InnerStep DEF Passes

LEMMA ClosedStep ==
    ASSUME BuildInv, processes # <<>>, running.at \in {"check", "prompt", "recheck"},
           Becomes(Closed), UNCHANGED <<project, edits, undisturbed>>
    PROVE  BuildInv'
<1>1. running \in ProcessRecords /\ GateIsKept(running) /\ BuildIsCurrent(running)
  BY RunningFacts
<1>2. Closed \in ProcessRecords
  BY <1>1 DEF Closed, ProcessRecords, Places
<1>3. GateIsKept(Closed)
  BY <1>1 DEF Closed, GateIsKept, ProcessRecords
<1>4. BuildIsCurrent(Closed)
  BY <1>1 DEF Closed, BuildIsCurrent, ProcessRecords, Places
<1> QED BY <1>2, <1>3, <1>4, InnerStep

LEMMA EnsureFreshBuildStep == ASSUME BuildAssumption, BuildInv, ensureFreshBuild PROVE BuildInv'
<1>1. processes # <<>> /\ running.at = "check" /\ UNCHANGED <<project, edits, undisturbed>>
  BY DEF ensureFreshBuild, ProcessAt
<1>2. CASE check(running.config) = "fresh" /\ Passes("fresh")
  BY <1>1, <1>2, PassesStep
<1>3. CASE Passes("missing")
  BY <1>1, <1>3, PassesStep
<1>4. CASE Go("prompt")
  <2>1. running \in ProcessRecords /\ GateIsKept(running) /\ BuildIsCurrent(running)
    BY <1>1, RunningFacts
  <2> DEFINE q == [running EXCEPT !.at = "prompt"]
  <2>2. q \in ProcessRecords
    BY <2>1 DEF ProcessRecords, Places
  <2>3. GateIsKept(q) /\ BuildIsCurrent(q)
    BY <1>1, <2>1 DEF GateIsKept, BuildIsCurrent, ProcessRecords, Places
  <2> QED BY <1>1, <1>4, <2>2, <2>3, InnerStep DEF Go
<1>5. CASE Becomes(Closed)
  BY <1>1, <1>5, ClosedStep
<1> QED BY <1>2, <1>3, <1>4, <1>5 DEF ensureFreshBuild

LEMMA PromptStep == ASSUME BuildInv, prompt PROVE BuildInv'
<1>1. processes # <<>> /\ running.at = "prompt" /\ UNCHANGED <<project, edits, undisturbed>>
  BY DEF prompt, ProcessAt
<1>2. CASE Becomes(Closed)
  BY <1>1, <1>2, ClosedStep
<1>3. CASE processes' = Append(Front(processes), [running EXCEPT !.at = "waiting"]) \o <<Process("p:build")>>
  <2>1. /\ Len(processes) \in Nat \ {0} /\ running \in ProcessRecords /\ GateIsKept(running) /\ BuildIsCurrent(running)
        /\ processes \in Seq(ProcessRecords)
    BY <1>1, RunningFacts DEF BuildInv, BuildTypeOK
  <2> DEFINE w == [running EXCEPT !.at = "waiting"]
             b == Process("p:build")
             front == SubSeq(processes, 1, Len(processes) - 1)
  <2>2. w \in ProcessRecords /\ w.at = "waiting"
    BY <2>1 DEF ProcessRecords, Places
  <2>3. GateIsKept(w) /\ BuildIsCurrent(w)
    BY <1>1, <2>1 DEF GateIsKept, BuildIsCurrent, ProcessRecords, Places
  <2>4. b \in ProcessRecords /\ GateIsKept(b) /\ BuildIsCurrent(b)
    BY NewProcess DEF BuildInv, BuildTypeOK
  <2>5. front \in Seq(ProcessRecords) /\ Len(front) = Len(processes) - 1
        /\ \A i \in 1..(Len(processes) - 1) : front[i] = processes[i]
    <3>1. Len(processes) - 1 \in 0..Len(processes)
      BY <2>1
    <3> QED BY <2>1, <3>1, FirstProcesses
  <2>6. processes' = Append(front, w) \o <<b>>
    BY <1>3 DEF Front
  <2> HIDE DEF w, b, front
  <2>7. /\ Append(front, w) \in Seq(ProcessRecords) /\ Len(Append(front, w)) = Len(processes)
        /\ Append(front, w)[Len(processes)] = w
        /\ \A i \in 1..(Len(processes) - 1) : Append(front, w)[i] = processes[i]
    BY <2>1, <2>2, <2>5
  <2>8. /\ processes' \in Seq(ProcessRecords) /\ Len(processes') = Len(processes) + 1
        /\ processes'[Len(processes) + 1] = b /\ processes'[Len(processes)] = w
        /\ \A i \in 1..(Len(processes) - 1) : processes'[i] = processes[i]
    <3> DEFINE first == Append(front, w)
    <3> HIDE DEF first
    <3>1. first \in Seq(ProcessRecords) /\ <<b>> \in Seq(ProcessRecords) /\ Len(first) = Len(processes)
      BY <2>4, <2>7 DEF first
    <3>2. processes' = first \o <<b>>
      BY <2>6 DEF first
    <3>3. /\ processes' \in Seq(ProcessRecords) /\ Len(processes') = Len(processes) + 1
          /\ processes'[Len(processes) + 1] = b
          /\ \A i \in 1..Len(processes) : processes'[i] = first[i]
      BY <2>1, <3>1, <3>2
    <3> QED BY <2>1, <2>7, <3>3 DEF first
  <2>9. \A i \in 1..(Len(processes) - 1) :
          processes[i].at = "waiting" /\ GateIsKept(processes[i]) /\ BuildIsCurrent(processes[i])
    BY <2>1 DEF BuildInv, OthersWait, ProcessIsSound
  <2>10. ASSUME NEW i \in 1..Len(processes')
         PROVE  /\ i < Len(processes') => processes'[i].at = "waiting"
                /\ GateIsKept(processes'[i]) /\ BuildIsCurrent(processes'[i])
    <3>1. i = Len(processes) + 1 \/ i = Len(processes) \/ i \in 1..(Len(processes) - 1)
      BY <2>1, <2>8
    <3> QED BY <3>1, <2>1, <2>2, <2>3, <2>4, <2>8, <2>9
  <2> QED BY <1>1, <2>8, <2>10, NewProcesses
<1> QED BY <1>2, <1>3 DEF prompt

LEMMA RebuiltStep == ASSUME BuildInv, rebuilt PROVE BuildInv'
<1>1. processes # <<>> /\ Len(processes) > 1 /\ UNCHANGED <<project, edits, undisturbed>>
      /\ processes \in Seq(ProcessRecords) /\ Len(processes) \in Nat
  BY DEF rebuilt, ProcessAt, BuildInv, BuildTypeOK
<1> DEFINE parent == processes[Len(processes) - 1]
<1>2. parent \in ProcessRecords /\ parent.at = "waiting" /\ GateIsKept(parent) /\ BuildIsCurrent(parent)
  BY <1>1 DEF BuildInv, OthersWait, ProcessIsSound
<1> DEFINE again == [parent EXCEPT !.at = "recheck"]
           closed == [parent EXCEPT !.at = "command", !.app = "built-ins"]
           others == SubSeq(processes, 1, Len(processes) - 2)
<1>3. PICK q \in {again, closed} : processes' = Append(others, q)
  BY DEF rebuilt
<1> HIDE DEF parent
<1>4. q \in ProcessRecords
  <2>1. again \in ProcessRecords
    BY <1>2 DEF ProcessRecords, Places
  <2>2. closed \in ProcessRecords
    BY <1>2 DEF ProcessRecords, Places
  <2> QED BY <2>1, <2>2
<1>5. GateIsKept(q)
  BY <1>2 DEF GateIsKept, ProcessRecords
<1>6. BuildIsCurrent(q)
  BY <1>2 DEF BuildIsCurrent, ProcessRecords, Places
<1>7. others \in Seq(ProcessRecords) /\ Len(others) = Len(processes) - 2
      /\ \A i \in 1..(Len(processes) - 2) : others[i] = processes[i]
  <2>1. Len(processes) - 2 \in 0..Len(processes)
    BY <1>1
  <2> QED BY <1>1, <2>1, FirstProcesses
<1> HIDE DEF again, closed, others
<1>8. /\ processes' \in Seq(ProcessRecords) /\ Len(processes') = Len(processes) - 1
      /\ processes'[Len(processes) - 1] = q
      /\ \A i \in 1..(Len(processes) - 2) : processes'[i] = processes[i]
  BY <1>1, <1>3, <1>4, <1>7
<1>9. \A i \in 1..(Len(processes) - 2) :
        processes[i].at = "waiting" /\ GateIsKept(processes[i]) /\ BuildIsCurrent(processes[i])
  BY <1>1 DEF BuildInv, OthersWait, ProcessIsSound
<1>10. ASSUME NEW i \in 1..Len(processes')
       PROVE  /\ i < Len(processes') => processes'[i].at = "waiting"
              /\ GateIsKept(processes'[i]) /\ BuildIsCurrent(processes'[i])
  <2>1. i = Len(processes) - 1 \/ i \in 1..(Len(processes) - 2)
    BY <1>1, <1>8
  <2> QED BY <2>1, <1>1, <1>5, <1>6, <1>8, <1>9
<1> QED BY <1>1, <1>8, <1>10, NewProcesses

LEMMA RecheckStep == ASSUME BuildAssumption, BuildInv, recheck PROVE BuildInv'
<1>1. processes # <<>> /\ running.at = "recheck" /\ UNCHANGED <<project, edits, undisturbed>>
  BY DEF recheck, ProcessAt
<1>2. CASE check(running.config) = "fresh" /\ Passes("fresh")
  BY <1>1, <1>2, PassesStep
<1>3. CASE Becomes(Closed)
  BY <1>1, <1>3, ClosedStep
<1> QED BY <1>2, <1>3 DEF recheck

LEMMA ImportStep == ASSUME BuildAssumption, BuildInv, importAppModule PROVE BuildInv'
<1>1. /\ processes # <<>> /\ running.at = "import" /\ UNCHANGED <<project, edits, undisturbed>>
      /\ running \in ProcessRecords /\ GateIsKept(running) /\ BuildIsCurrent(running)
  BY RunningFacts DEF importAppModule, ProcessAt
<1>2. running.config \in ConfigFiles
  BY <1>1 DEF GateIsKept, ProcessRecords
<1>3. PICK app \in {project.output[running.config.out], Unset} :
         Becomes([running EXCEPT !.at = "plugins", !.app = IF app = Unset THEN "built-ins" ELSE app])
  BY DEF importAppModule
<1>4. app \in Sources \cup {Unset}
  BY <1>2, <1>3 DEF BuildInv, BuildTypeOK, ProjectOK, ConfigFiles
<1> DEFINE q == [running EXCEPT !.at = "plugins", !.app = IF app = Unset THEN "built-ins" ELSE app]
<1>5. q \in ProcessRecords
  BY ZenonT(40), <1>1, <1>4 DEF ProcessRecords, Places
<1>6. GateIsKept(q)
  BY <1>1, <1>3 DEF GateIsKept, ProcessRecords
<1>7. BuildIsCurrent(q)
  BY <1>1 DEF BuildIsCurrent, ProcessRecords, Places
<1> QED BY <1>1, <1>3, <1>5, <1>6, <1>7, InnerStep

LEMMA LoadPluginsStep == ASSUME BuildInv, loadPlugins PROVE BuildInv'
<1>1. /\ processes # <<>> /\ running.at = "plugins" /\ UNCHANGED <<project, edits, undisturbed>>
      /\ running \in ProcessRecords /\ GateIsKept(running) /\ BuildIsCurrent(running)
  BY RunningFacts DEF loadPlugins, ProcessAt
<1>2. PICK b \in BOOLEAN : Becomes([running EXCEPT !.at = "command", !.plugins = b])
  BY DEF loadPlugins
<1> DEFINE q == [running EXCEPT !.at = "command", !.plugins = b]
<1>3. q \in ProcessRecords
  BY <1>1 DEF ProcessRecords, Places
<1>4. GateIsKept(q)
  BY <1>1 DEF GateIsKept, ProcessRecords
<1>5. BuildIsCurrent(q)
  BY <1>1 DEF BuildIsCurrent, ProcessRecords, Places
<1> QED BY <1>1, <1>2, <1>3, <1>4, <1>5, InnerStep

\* A process that has not built ends.
LEMMA HandleStep == ASSUME BuildInv, handle PROVE BuildInv'
<1>1. /\ processes # <<>> /\ running.at = "command" /\ UNCHANGED <<project, edits, undisturbed>>
      /\ running \in ProcessRecords /\ GateIsKept(running) /\ BuildIsCurrent(running)
  BY RunningFacts DEF handle, ProcessAt
<1>2. CASE Go("build")
  <2> DEFINE q == [running EXCEPT !.at = "build"]
  <2>1. q \in ProcessRecords
    BY <1>1 DEF ProcessRecords, Places
  <2>2. GateIsKept(q) /\ BuildIsCurrent(q)
    BY <1>1 DEF GateIsKept, BuildIsCurrent, ProcessRecords, Places
  <2> QED BY <1>1, <1>2, <2>1, <2>2, InnerStep DEF Go
<1>3. ASSUME NEW code \in {0, 1}, Exits(code) PROVE BuildInv'
  <2> DEFINE q == [running EXCEPT !.at = "done", !.code = code]
  <2>1. q \in ProcessRecords
    BY <1>1 DEF ProcessRecords, Places
  <2>2. GateIsKept(q) /\ BuildIsCurrent(q)
    BY <1>1 DEF GateIsKept, BuildIsCurrent, ProcessRecords, Places
  <2> QED BY <1>1, <1>3, <2>1, <2>2, InnerStep DEF Exits
<1> QED BY <1>2, <1>3 DEF handle

LEMMA TscInvocations ==
    ASSUME NEW format \in Formats \cup {"both"}
    PROVE  resolveTscInvocations(format) \in Seq(Formats)
<1>1. \A f \in Formats : existing(f) \in Seq(Formats) /\ <<f>> \in Seq(Formats)
  BY DEF existing
<1>2. existing("esm") \in Seq(Formats) /\ existing("cjs") \in Seq(Formats) /\ <<"cjs">> \in Seq(Formats)
  BY <1>1 DEF Formats
<1>3. existing("esm") \o existing("cjs") \in Seq(Formats)
  BY <1>2
<1>4. CASE format = "esm"
  BY <1>2, <1>4 DEF resolveTscInvocations
<1>5. CASE format = "cjs"
  BY <1>2, <1>5 DEF resolveTscInvocations
<1>6. CASE format = "both"
  BY <1>3, <1>6 DEF resolveTscInvocations
<1> QED BY <1>4, <1>5, <1>6 DEF Formats

LEMMA StartBuildStep == ASSUME BuildAssumption, BuildInv, startBuild PROVE BuildInv'
<1>1. /\ processes # <<>> /\ running.at = "build" /\ UNCHANGED <<edits, undisturbed>>
      /\ running \in ProcessRecords /\ GateIsKept(running) /\ BuildIsCurrent(running)
  BY RunningFacts DEF startBuild, ProcessAt
<1>2. ProjectOK /\ project.config \in ConfigFiles \cup {Unset}
  BY DEF BuildInv, BuildTypeOK, ProjectOK
<1> DEFINE calls == resolveTscInvocations(IF project.config = Unset THEN "esm" ELSE project.config.format)
           none == [f \in Formats |-> Unset]
           started == [running EXCEPT !.built = project.config, !.since = edits, !.left = calls]
           ready == IF calls = <<>> THEN [started EXCEPT !.at = "done", !.code = 1] ELSE [started EXCEPT !.at = "compile"]
<1>3. calls \in Seq(Formats)
  <2>1. (IF project.config = Unset THEN "esm" ELSE project.config.format) \in Formats \cup {"both"}
    BY <1>2 DEF ConfigFiles, Formats
  <2> QED BY <2>1, TscInvocations
<1>4. Becomes(ready) /\ (project' = project \/ project' = [project EXCEPT !.output = none])
  BY DEF startBuild
<1>5. none \in [Formats -> Sources \cup {Unset}]
  OBVIOUS
<1>6. /\ ProjectOK' /\ project'.manifest = project.manifest /\ project'.source = project.source
      /\ \/ project'.output = project.output
         \/ project'.output = none
  <2>1. CASE project' = project
    BY <1>1, <1>2, <2>1 DEF ProjectOK
  <2>2. CASE project' = [project EXCEPT !.output = none]
    BY <1>1, <1>2, <1>5, <2>2 DEF ProjectOK
  <2> QED BY <1>4, <2>1, <2>2
<1>7. ManifestIsFaithful'
  <2>1. ManifestIsFaithful
    BY DEF BuildInv
  <2>2. project.manifest # Unset => project.manifest.out \in Formats
    BY <1>2 DEF ProjectOK, Manifests
  <2> QED BY <1>1, <1>6, <2>1, <2>2 DEF ManifestIsFaithful
<1> HIDE DEF calls, none
<1>8. started \in ProcessRecords
  BY <1>1, <1>2, <1>3 DEF ProcessRecords, ProjectOK
<1>9. started.compiled = {} /\ started.since = edits /\ started.left = calls
  BY <1>1 DEF BuildIsCurrent, ProcessRecords, Places
<1> PICK q : q = ready
  OBVIOUS
<1>10. q \in ProcessRecords /\ q.at \in {"done", "compile"} /\ (q.at = "done" => q.code = 1)
       /\ q.compiled = {} /\ q.since = edits /\ (q.at = "compile" => q.left # <<>>)
  <2> HIDE DEF started
  <2> QED BY <1>8, <1>9 DEF ProcessRecords, Places
<1>11. q.gate = running.gate /\ q.undisturbed = running.undisturbed /\ q.app = running.app /\ q.checked = running.checked
  BY <1>1 DEF ProcessRecords
<1>14. Becomes(q)
  BY <1>4
<1> HIDE DEF ready
<1>12. GateIsKept(q)'
  BY <1>1, <1>10, <1>11 DEF GateIsKept
<1>13. BuildIsCurrent(q)'
  BY <1>1, <1>2, <1>10 DEF BuildIsCurrent, ProjectOK
<1> QED BY <1>1, <1>6, <1>7, <1>10, <1>12, <1>13, <1>14, RunningStep

LEMMA TscReadsStep == ASSUME BuildAssumption, BuildInv, tscReads PROVE BuildInv'
<1>1. /\ processes # <<>> /\ running.at = "compile" /\ UNCHANGED <<project, edits, undisturbed>>
      /\ running \in ProcessRecords /\ GateIsKept(running) /\ BuildIsCurrent(running)
  BY RunningFacts DEF tscReads, ProcessAt
<1>2. project.source \in Sources /\ project.source # Unset
  BY DEF BuildInv, BuildTypeOK, ProjectOK, BuildAssumption
<1> DEFINE q == [running EXCEPT !.at = "tsc", !.read = project.source]
<1>3. q \in ProcessRecords
  BY <1>1, <1>2 DEF ProcessRecords, Places
<1>4. GateIsKept(q)
  BY <1>1 DEF GateIsKept, ProcessRecords
<1>5. BuildIsCurrent(q)
  BY <1>1, <1>2 DEF BuildIsCurrent, ProcessRecords, Places
<1> QED BY <1>1, <1>3, <1>4, <1>5, InnerStep DEF tscReads

LEMMA TscEndsStep == ASSUME BuildAssumption, BuildInv, tscEnds PROVE BuildInv'
<1>1. /\ processes # <<>> /\ running.at = "tsc" /\ edits' = edits
      /\ running \in ProcessRecords /\ GateIsKept(running) /\ BuildIsCurrent(running)
  BY RunningFacts DEF tscEnds, ProcessAt
<1> DEFINE f == Head(running.left)
<1>2. ProjectOK /\ ManifestIsFaithful
  BY DEF BuildInv, BuildTypeOK
<1>3. running.left \in Seq(Formats) /\ running.left # <<>> /\ f \in Formats /\ running.read \in Sources
  BY <1>1 DEF BuildIsCurrent, ProcessRecords
<1>4. PICK wrote \in BOOLEAN, succeeds \in BOOLEAN :
        /\ project' = IF wrote THEN [project EXCEPT !.output[f] = running.read] ELSE project
        /\ undisturbed' = (undisturbed /\ ~(wrote /\ project.manifest.out = f))
        /\ IF ~succeeds THEN Exits(1)
           ELSE Becomes([running EXCEPT !.left = Tail(@), !.compiled = IF wrote THEN @ \cup {f} ELSE @,
                                        !.at = IF Len(running.left) = 1 THEN "manifest" ELSE "compile"])
  BY DEF tscEnds
<1> HIDE DEF f
<1>5. /\ ProjectOK' /\ project'.manifest = project.manifest /\ project'.source = project.source
      /\ wrote => project'.output = [project.output EXCEPT ![f] = running.read]
      /\ ~wrote => project'.output = project.output
  <2>1. CASE wrote
    <3>1. [project.output EXCEPT ![f] = running.read] \in [Formats -> Sources \cup {Unset}]
      BY <1>2, <1>3 DEF ProjectOK
    <3>2. project' = [project EXCEPT !.output = [project.output EXCEPT ![f] = running.read]] /\ undisturbed' \in BOOLEAN
      BY <1>2, <1>4, <2>1 DEF ProjectOK
    <3> QED BY <1>1, <1>2, <2>1, <3>1, <3>2 DEF ProjectOK
  <2>2. CASE ~wrote
    BY <1>1, <1>2, <1>4, <2>2 DEF ProjectOK
  <2> QED BY <2>1, <2>2
<1>6. ManifestIsFaithful'
  <2> SUFFICES ASSUME undisturbed' PROVE project.manifest # Unset /\ project'.output[project.manifest.out] \in {project.manifest.hash, Unset}
    BY <1>5 DEF ManifestIsFaithful
  <2>1. undisturbed /\ ~(wrote /\ project.manifest.out = f)
    BY <1>4
  <2>2. project.manifest # Unset /\ project.output[project.manifest.out] \in {project.manifest.hash, Unset}
    BY <1>2, <2>1 DEF ManifestIsFaithful
  <2>3. project.manifest.out \in Formats /\ project.output \in [Formats -> Sources \cup {Unset}]
    BY <1>2, <2>2 DEF ProjectOK, Manifests
  <2> QED BY <1>5, <2>1, <2>2, <2>3
<1>7. CASE ~succeeds
  <2> PICK q : q = [running EXCEPT !.at = "done", !.code = 1]
    OBVIOUS
  <2>1. q \in ProcessRecords
    BY <1>1 DEF ProcessRecords, Places
  <2>2. q.at = "done" /\ q.code = 1 /\ q.since = running.since /\ q.gate = running.gate
        /\ q.undisturbed = running.undisturbed /\ q.app = running.app /\ q.checked = running.checked
    BY <1>1 DEF ProcessRecords
  <2>3. Becomes(q)
    BY <1>4, <1>7 DEF Exits
  <2>4. GateIsKept(q)'
    BY <1>1, <2>2 DEF GateIsKept
  <2>5. BuildIsCurrent(q)'
    BY <1>1, <2>2 DEF BuildIsCurrent
  <2> QED BY <1>1, <1>5, <1>6, <2>1, <2>3, <2>4, <2>5, RunningStep
<1>8. CASE succeeds
  <2> DEFINE next == IF Len(running.left) = 1 THEN "manifest" ELSE "compile"
         compiled == IF wrote THEN running.compiled \cup {f} ELSE running.compiled
  <2> PICK q : q = [running EXCEPT !.left = Tail(running.left), !.compiled = compiled, !.at = next]
    OBVIOUS
  <2>1. Tail(running.left) \in Seq(Formats) /\ (next = "compile" => Tail(running.left) # <<>>)
    <3>1. Tail(running.left) \in Seq(Formats) /\ Len(Tail(running.left)) = Len(running.left) - 1
          /\ Len(running.left) \in Nat \ {0}
      BY <1>3, HeadTailProperties
    <3>2. Len(<<>>) = 0
      OBVIOUS
    <3>3. next = "compile" => Len(running.left) # 1
      OBVIOUS
    <3>4. Len(Tail(running.left)) = 0 => Len(running.left) = 1
      BY <3>1
    <3> HIDE DEF next
    <3> QED BY <3>1, <3>2, <3>3, <3>4
  <2>2. compiled \in SUBSET Formats
    BY <1>1, <1>3 DEF ProcessRecords
  <2>3. q \in ProcessRecords
    <3>1. next \in Places
      BY DEF Places
    <3> HIDE DEF next, compiled
    <3> QED BY <1>1, <2>1, <2>2, <3>1 DEF ProcessRecords
  <2>4. q.at \in {"manifest", "compile"} /\ (q.at = "compile" => q.left # <<>>) /\ q.since = running.since
        /\ q.compiled = compiled /\ q.gate = running.gate
        /\ q.undisturbed = running.undisturbed /\ q.app = running.app /\ q.checked = running.checked
    BY <1>1, <2>1 DEF ProcessRecords
  <2>5. Becomes(q)
    BY <1>4, <1>8
  <2>6. GateIsKept(q)'
    BY <1>1, <2>4 DEF GateIsKept
  <2>7. running.since = edits => \A g \in compiled : project'.output[g] = project'.source
    <3>1. project.output \in [Formats -> Sources \cup {Unset}] /\ running.compiled \subseteq Formats
      BY <1>1, <1>2 DEF ProjectOK, ProcessRecords
    <3>2. running.since = edits => running.read = project.source
                                   /\ \A g \in running.compiled : project.output[g] = project.source
      BY <1>1 DEF BuildIsCurrent
    <3> QED BY <1>3, <1>4, <1>5, <1>8, <3>1, <3>2
  <2>8. BuildIsCurrent(q)'
    BY <1>1, <2>4, <2>7 DEF BuildIsCurrent
  <2> QED BY <1>1, <1>5, <1>6, <2>3, <2>5, <2>6, <2>8, RunningStep
<1> QED BY <1>7, <1>8

LEMMA WriteManifestStep == ASSUME BuildAssumption, BuildInv, writeManifest PROVE BuildInv'
<1>1. /\ processes # <<>> /\ running.at = "manifest" /\ edits' = edits /\ Exits(0)
      /\ running \in ProcessRecords /\ GateIsKept(running) /\ BuildIsCurrent(running)
  BY RunningFacts DEF writeManifest, ProcessAt
<1>2. ProjectOK /\ ManifestIsFaithful
  BY DEF BuildInv, BuildTypeOK
<1> PICK c, q : c = running.built /\ q = [running EXCEPT !.at = "done", !.code = 0]
  OBVIOUS
<1> DEFINE skipped == c = Unset \/ ~c.paths \/ project.output[c.out] = Unset
<1>3. q \in ProcessRecords
  BY <1>1 DEF ProcessRecords, Places
<1>4. q.at = "done" /\ q.code = 0 /\ q.since = running.since /\ q.gate = running.gate /\ q.built = c
      /\ q.undisturbed = running.undisturbed /\ q.app = running.app /\ q.checked = running.checked /\ q.compiled = running.compiled
  BY <1>1 DEF ProcessRecords
<1>5. Becomes(q)
  BY <1>1 DEF Exits
<1>6. running.since = edits => \A f \in running.compiled : project.output[f] = project.source
  BY <1>1 DEF BuildIsCurrent
<1>7. c \in ConfigFiles \cup {Unset} /\ running.since <= edits
  BY <1>1 DEF ProcessRecords, BuildIsCurrent
<1>8. project.source \in Sources /\ project.source # Unset
  BY <1>2 DEF ProjectOK, BuildAssumption
<1>9. GateIsKept(q)'
  BY <1>1, <1>4 DEF GateIsKept
<1>10. CASE skipped
  <2>1. UNCHANGED <<project, undisturbed>>
    BY <1>10 DEF writeManifest
  <2>2. ProjectOK' /\ ManifestIsFaithful'
    BY <1>1, <1>2, <2>1 DEF ProjectOK, ManifestIsFaithful
  <2>3. ~(q.built # Unset /\ q.since = edits /\ q.built.paths /\ q.built.out \in q.compiled)
    BY <1>4, <1>6, <1>8, <1>10
  <2>4. BuildIsCurrent(q)'
    BY <1>1, <1>4, <1>7, <2>3 DEF BuildIsCurrent
  <2> QED BY <1>1, <1>3, <1>5, <1>9, <2>2, <2>4, RunningStep
<1>11. CASE ~skipped
  <2> DEFINE m == manifestOf(c)
  <2>1. project' = [project EXCEPT !.manifest = m] /\ undisturbed' = (running.since = edits /\ c.out \in running.compiled)
    BY <1>11 DEF writeManifest
  <2>2. c \in ConfigFiles /\ c.out \in Formats
    BY <1>7, <1>11 DEF ConfigFiles
  <2>3. m \in Manifests /\ m # Unset /\ m.out = c.out /\ m.hash = project.source
    BY <1>8, <2>2 DEF manifestOf, Manifests, BuildAssumption
  <2> HIDE DEF m
  <2>4. /\ ProjectOK' /\ project'.manifest = m /\ project'.output = project.output
        /\ project'.source = project.source
    BY <1>1, <1>2, <2>1, <2>3 DEF ProjectOK
  <2>5. ManifestIsFaithful'
    BY <1>6, <2>1, <2>3, <2>4 DEF ManifestIsFaithful
  <2>6. project.output[c.out] = project.source => check(c)' = "fresh"
    BY <1>8, <2>3, <2>4 DEF check
  <2>7. BuildIsCurrent(q)'
    BY <1>1, <1>4, <1>6, <1>7, <2>4, <2>6 DEF BuildIsCurrent
  <2> QED BY <1>1, <1>3, <1>5, <1>9, <2>4, <2>5, <2>7, RunningStep
<1> QED BY <1>10, <1>11

LEMMA BuildInvHolds == ASSUME BuildAssumption PROVE BuildSpec => []BuildInv
<1>1. BuildInit => BuildInv
  <2> SUFFICES ASSUME BuildInit PROVE BuildInv
    OBVIOUS
  <2>1. PICK s \in Sources, c \in Configs, t \in BOOLEAN :
          project = [isTTY |-> t, source |-> s, config |-> c, output |-> [f \in Formats |-> Unset], manifest |-> Unset]
    BY DEF BuildInit
  <2>2. ProjectOK
    BY <2>1 DEF BuildInit, ProjectOK, BuildAssumption
  <2>3. processes = <<>> /\ processes \in Seq(ProcessRecords) /\ Len(processes) = 0 /\ undisturbed = FALSE
    BY DEF BuildInit
  <2> QED BY <2>2, <2>3 DEF BuildInv, BuildTypeOK, OthersWait, ManifestIsFaithful
<1>2. BuildInv /\ [BuildNext]_buildVars => BuildInv'
  <2> SUFFICES ASSUME BuildInv, [BuildNext]_buildVars PROVE BuildInv'
    OBVIOUS
  <2>1. CASE UNCHANGED buildVars
    BY <2>1 DEF buildVars, BuildInv, BuildTypeOK, ProjectOK, OthersWait, ManifestIsFaithful, ProcessIsSound,
                GateIsKept, BuildIsCurrent, check
  <2>2. CASE BuildNext
    BY <2>2, EditStep, RunStep, LoadConfigStep, EnsureFreshBuildStep, PromptStep, RebuiltStep, RecheckStep, ImportStep,
       LoadPluginsStep, HandleStep, StartBuildStep, TscReadsStep, TscEndsStep, WriteManifestStep DEF BuildNext
  <2> QED BY <2>1, <2>2
<1> QED BY <1>1, <1>2, PTL DEF BuildSpec

\* AppModuleLoader and p:build, for any sources, configs and number of rebuilds that wait
\* for each other: unless something was edited during the build that wrote the manifest,
\* its tsc did not write the configured output or a later tsc wrote it without a manifest,
\* an AppModule that the gate calls fresh is the compilation of the source; and a build
\* that succeeds opens the gate.
THEOREM BuildsAreCurrentHolds == ASSUME BuildAssumption PROVE BuildSpec => []BuildsAreCurrent
<1>1. BuildInv => LoadedIsCurrent
  <2> SUFFICES ASSUME BuildInv, NEW i \in DOMAIN processes
               PROVE  LET q == processes[i] IN
                      q.gate = "fresh" /\ q.undisturbed /\ q.app \notin {Unset, "built-ins"} => q.app = q.checked
    BY DEF LoadedIsCurrent
  <2>1. processes \in Seq(ProcessRecords) /\ i \in 1..Len(processes)
    BY DEF BuildInv, BuildTypeOK
  <2>2. GateIsKept(processes[i])
    BY <2>1 DEF BuildInv, ProcessIsSound
  <2> QED BY <2>2 DEF GateIsKept
<1>2. BuildInv => BuildOpensGate
  <2> SUFFICES ASSUME BuildInv, processes # <<>> PROVE BuildOpensGate
    BY DEF BuildOpensGate
  <2>1. BuildIsCurrent(running)
    BY RunningFacts
  <2> QED BY <2>1 DEF BuildOpensGate, BuildIsCurrent
<1> QED BY <1>1, <1>2, BuildInvHolds, PTL DEF BuildsAreCurrent
=============================================================================
