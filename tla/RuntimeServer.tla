---------------------------- MODULE RuntimeServer ----------------------------
(***************************************************************************)
(* RuntimeServerInterface of packages/core: what `p:start`, Kernel.stop()  *)
(* and the shutdown hooks may rely on of a server they start and stop.     *)
(* KernelHttpServer and LocalSchedulerManager implement it, and the        *)
(* process assumes no more of its servers.                                 *)
(***************************************************************************)
CONSTANTS
    Items,      \* what a server works on: connections, task invocations
    Awaiters,   \* those who may await stop()
    CutsOff     \* does stop() end what is left after a while?

VARIABLES
    accepting,  \* start() has resolved and stop() was not called since
    working,    \* the items in hand
    awaiting    \* those whose stop() is pending, with no start() since

contractVars == <<accepting, working, awaiting>>

ContractInit == accepting = FALSE /\ working = {} /\ awaiting = {}

\* start() resolves "once it is accepting requests".
StartResolves ==
    /\ ~accepting /\ accepting' = TRUE
    /\ awaiting' = {}
    /\ UNCHANGED working

Begin(w) ==
    /\ accepting /\ w \notin working /\ working' = working \cup {w}
    /\ UNCHANGED <<accepting, awaiting>>
End(w) ==
    /\ w \in working /\ working' = working \ {w}
    /\ UNCHANGED <<accepting, awaiting>>

\* stop() accepts nothing more from the moment it is called, as often as it is called.
StopCalled(callers) ==
    /\ accepting' = FALSE
    /\ awaiting' = awaiting \cup callers
    /\ UNCHANGED working

\* What is left is ended at once and completely.
CutsOffTheRest ==
    /\ CutsOff /\ ~accepting /\ awaiting # {}
    /\ working' = {}
    /\ UNCHANGED <<accepting, awaiting>>

\* stop() resolves when it has drained the server.
StopIsOver(c) ==
    /\ c \in awaiting /\ ~accepting
    /\ working = {} \/ CutsOff
    /\ working' = {}
    /\ awaiting' = awaiting \ {c}
    /\ UNCHANGED accepting

ContractNext ==
    \/ StartResolves \/ CutsOffTheRest
    \/ \E w \in Items : Begin(w) \/ End(w)
    \/ \E callers \in SUBSET Awaiters : StopCalled(callers)
    \/ \E c \in Awaiters : StopIsOver(c)
ContractSpec == ContractInit /\ [][ContractNext]_contractVars
=============================================================================
