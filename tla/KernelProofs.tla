---------------------------- MODULE KernelProofs ----------------------------
(***************************************************************************)
(* Proofs about KernelLifecycle and KernelVerification, for every acyclic  *)
(* import graph, every set of hooks and any number of callers of stop():   *)
(* start() initialises a module after what it imports, stop() calls every  *)
(* hook once and outer modules first, and a clean report of                *)
(* verifyInstantiation() vouches for the boot.                             *)
(***************************************************************************)
EXTENDS KernelLifecycle, KernelVerification, SequenceTheorems, WellFoundedInduction, TLAPS

Frames == [module : Modules, next : Nat \ {0}]

\* What a walk knows of its call stack: the imports a frame has gone past are done, but
\* for the one that the frame above is about.
FramesAreSound(st, graph, finished) ==
    \A k \in 1..Len(st) : \A i \in 1..Len(graph[st[k].module]) :
        i < st[k].next => \/ graph[st[k].module][i] \in finished
                          \/ k < Len(st) /\ graph[st[k].module][i] = st[k + 1].module
\* Deeper frames are about modules of lower rank.
StackDescends(st, graph) ==
    \A rank \in Ranks(graph) : \A j, k \in 1..Len(st) :
        j < k => rank[st[k].module] < rank[st[j].module]
ImportsClosed(graph, set) == \A m \in set : Elements(graph[m]) \subseteq set

\* initModule(): what is recorded is initialised or on the stack.
InitWalk ==
    phase = "init" =>
        /\ stack # <<>> /\ stack[1].module = AppModule
        /\ FramesAreSound(stack, importModules, inited)
        /\ StackDescends(stack, importModules)
        /\ Elements(instantiated) = inited \cup {stack[k].module : k \in 1..Len(stack)}
\* afterInitModule(): it only meets initialised modules.
AfterInitWalk ==
    phase = "afterInit" =>
        /\ stack # <<>> /\ stack[1].module = AppModule
        /\ FramesAreSound(stack, importModules, afterInited)
        /\ \A k \in 1..Len(stack) : stack[k].module \in inited
WalksAreDone ==
    /\ phase = "idle" => instantiated = <<>> /\ inited = {}
    /\ phase \in {"idle", "init", "configuration"} => afterInited = {}
    /\ phase \in {"configuration", "afterInit", "started"} =>
          Elements(instantiated) = inited /\ AppModule \in inited
    /\ phase = "started" => AppModule \in afterInited
    /\ afterInited \subseteq inited
    /\ ImportsClosed(importModules, inited) /\ ImportsClosed(importModules, afterInited)
\* Only what the AppModule needs is recorded.
OnlyReachable ==
    \A set \in SUBSET Modules :
        AppModule \in set /\ ImportsClosed(importModules, set) => Elements(instantiated) \subseteq set
\* The order of the records: every module once, the AppModule first and above all
\* others, each after a module that imports it.
RecordOrder(records, graph) ==
    /\ \A p, q \in 1..Len(records) : records[p] = records[q] => p = q
    /\ records # <<>> => records[1] = AppModule
    /\ \A p \in 2..Len(records) : \E o \in 1..(p - 1) : records[p] \in Elements(graph[records[o]])
    /\ \A rank \in Ranks(graph) : \A p \in 2..Len(records) : rank[records[p]] < rank[AppModule]

\* The types of what start() and stop() write.
StartTypes ==
    /\ importModules \in Graphs
    /\ phase \in {"idle", "init", "configuration", "afterInit", "started", "failed"}
    /\ stack \in Seq(Frames)
    /\ instantiated \in Seq(Modules)
    /\ inited \subseteq Modules /\ afterInited \subseteq Modules
StopTypes ==
    /\ stopped \in BOOLEAN
    /\ call \in [Callers -> {"idle", "running", "returned"}]
    /\ visited \in [Callers -> 0..Len(instantiated)]
    /\ hook \in [Callers -> Hooked \cup {NoModule}]
    /\ running \subseteq Hooked
    /\ invoked \in Seq(Hooked)

StartInv ==
    /\ StartTypes /\ InitWalk /\ AfterInitWalk /\ WalksAreDone /\ OnlyReachable
    /\ RecordOrder(instantiated, importModules)

\* stop(): one call runs the loop, on the records start() left; it has called exactly
\* the hooks of the records it is past, in their order.
Precedes(records, m, n) ==
    \E p, q \in 1..Len(records) : p < q /\ records[p] = m /\ records[q] = n
StopInv ==
    /\ StopTypes
    /\ phase \notin {"started", "failed"} => ~stopped
    /\ ~stopped => invoked = <<>> /\ \A c \in Callers : call[c] = "idle"
    /\ \A c \in Callers : call[c] = "idle" => visited[c] = 0
    /\ \A c, d \in Callers : call[c] = "running" /\ call[d] = "running" => c = d
    /\ \A c \in Callers : call[c] = "running" =>
          /\ \A i \in 1..Len(invoked) : \E p \in 1..visited[c] : invoked[i] = instantiated[p]
          /\ \A p \in 1..visited[c] : instantiated[p] \in Hooked => instantiated[p] \in Elements(invoked)
    /\ stopped /\ (\A c \in Callers : call[c] # "running")
          => Hooked \cap Elements(instantiated) \subseteq Elements(invoked)
    /\ \A i, j \in 1..Len(invoked) : i < j => Precedes(instantiated, invoked[i], invoked[j])

KernelInv == StartInv /\ StopInv

-----------------------------------------------------------------------------
\* A set of numbers that is not empty has a least one.
LEMMA LeastNatural ==
    ASSUME NEW T, T \subseteq Nat, T # {}
    PROVE  \E n \in T : \A q \in T : n <= q
<1> DEFINE R == OpToRel(<, Nat)
<1>1. IsWellFoundedOn(R, Nat)
  BY NatLessThanWellFounded
<1> HIDE DEF R
<1>2. PICK n \in T : \A q \in T : ~(<<q, n>> \in R)
  BY <1>1, WFMin
<1>5. ASSUME NEW q \in T PROVE n <= q
  <2>1. <<q, n>> \in Nat \X Nat /\ <<q, n>> \notin R
    BY <1>2
  <2>2. ~(q < n)
    BY <2>1 DEF R, OpToRel
  <2> QED BY <2>1, <2>2
<1> QED BY <1>5

-----------------------------------------------------------------------------
(* The call stack of a walk.                                               *)

\* Going on to the next import changes one counter.
LEMMA AdvanceFrames ==
    ASSUME NEW st \in Seq(Frames), st # <<>>
    PROVE  LET adv == [st EXCEPT ![Len(st)].next = @ + 1]
           IN  /\ adv \in Seq(Frames) /\ Len(adv) = Len(st)
               /\ \A k \in 1..Len(st) : adv[k].module = st[k].module
               /\ \A k \in 1..(Len(st) - 1) : adv[k] = st[k]
               /\ adv[Len(st)].next = st[Len(st)].next + 1
<1> DEFINE adv == [st EXCEPT ![Len(st)].next = @ + 1]
<1>1. Len(st) \in 1..Len(st) /\ DOMAIN st = 1..Len(st) /\ st[Len(st)] \in Frames
  OBVIOUS
<1>2. [st[Len(st)] EXCEPT !.next = @ + 1] \in Frames
  BY <1>1 DEF Frames
<1>3. adv = [st EXCEPT ![Len(st)] = [st[Len(st)] EXCEPT !.next = @ + 1]]
  OBVIOUS
<1>4. adv \in Seq(Frames) /\ Len(adv) = Len(st)
  BY <1>1, <1>2, <1>3
<1>5. \A k \in 1..(Len(st) - 1) : adv[k] = st[k]
  BY <1>1, <1>3
<1>6. adv[Len(st)] = [st[Len(st)] EXCEPT !.next = @ + 1]
  BY <1>1, <1>3
<1>7. adv[Len(st)].module = st[Len(st)].module /\ adv[Len(st)].next = st[Len(st)].next + 1
  BY <1>1, <1>6 DEF Frames
<1>8. \A k \in 1..Len(st) : adv[k].module = st[k].module
  BY <1>1, <1>5, <1>7
<1> QED BY <1>4, <1>5, <1>7, <1>8

\* Returning drops the last frame.
LEMMA PopFrames ==
    ASSUME NEW st \in Seq(Frames), st # <<>>
    PROVE  LET new == SubSeq(st, 1, Len(st) - 1)
           IN  /\ new \in Seq(Frames) /\ Len(new) = Len(st) - 1 /\ Len(new) \in Nat
               /\ \A k \in 1..(Len(st) - 1) : new[k] = st[k]
<1>1. Len(st) \in Nat \ {0} /\ Len(st) - 1 \in Int /\ \A i \in 1..(Len(st) - 1) : st[i] \in Frames
  OBVIOUS
<1>2. /\ SubSeq(st, 1, Len(st) - 1) \in Seq(Frames)
      /\ Len(SubSeq(st, 1, Len(st) - 1)) = IF 1 <= Len(st) - 1 THEN Len(st) - 1 - 1 + 1 ELSE 0
      /\ \A i \in 1..(Len(st) - 1 - 1 + 1) : SubSeq(st, 1, Len(st) - 1)[i] = st[1 + i - 1]
  <2>1. 1 \in Int
    OBVIOUS
  <2> QED BY <1>1, <2>1, SubSeqProperties
<1>3. Len(st) - 1 - 1 + 1 = Len(st) - 1 /\ \A i \in 1..(Len(st) - 1) : 1 + i - 1 = i
  BY <1>1
<1> QED BY <1>1, <1>2, <1>3

\* The walk goes past an import that is done.
LEMMA SkipIsSound ==
    ASSUME NEW st \in Seq(Frames), st # <<>>, NEW adv \in Seq(Frames), Len(adv) = Len(st),
           \A k \in 1..Len(st) : adv[k].module = st[k].module,
           \A k \in 1..(Len(st) - 1) : adv[k] = st[k],
           adv[Len(st)].next = st[Len(st)].next + 1,
           NEW graph \in [Modules -> Seq(Modules)], NEW finished,
           FramesAreSound(st, graph, finished),
           graph[st[Len(st)].module][st[Len(st)].next] \in finished
    PROVE  FramesAreSound(adv, graph, finished)
<1> SUFFICES ASSUME NEW k \in 1..Len(adv), NEW i \in 1..Len(graph[adv[k].module]), i < adv[k].next
             PROVE  \/ graph[adv[k].module][i] \in finished
                    \/ k < Len(adv) /\ graph[adv[k].module][i] = adv[k + 1].module
  BY DEF FramesAreSound
<1>1. CASE k # Len(st)
  <2>1. k \in 1..(Len(st) - 1) /\ k + 1 \in 1..Len(st)
    BY <1>1
  <2> QED BY <2>1 DEF FramesAreSound
<1>2. CASE k = Len(st) /\ i # st[k].next
  <2>1. st[k] \in Frames /\ adv[k].module = st[k].module /\ adv[k].next = st[k].next + 1
    BY <1>2
  <2>2. i < st[k].next
    BY SMTT(20), <1>2, <2>1 DEF Frames
  <2> QED BY <1>2, <2>1, <2>2 DEF FramesAreSound
<1>3. CASE k = Len(st) /\ i = st[k].next
  BY <1>3
<1> QED BY <1>1, <1>2, <1>3

\* The walk enters an import.
LEMMA PushIsSound ==
    ASSUME NEW st \in Seq(Frames), st # <<>>, NEW adv \in Seq(Frames), Len(adv) = Len(st),
           \A k \in 1..Len(st) : adv[k].module = st[k].module,
           \A k \in 1..(Len(st) - 1) : adv[k] = st[k],
           adv[Len(st)].next = st[Len(st)].next + 1,
           NEW graph \in [Modules -> Seq(Modules)], NEW finished,
           FramesAreSound(st, graph, finished),
           NEW m \in Modules, m = graph[st[Len(st)].module][st[Len(st)].next]
    PROVE  FramesAreSound(Append(adv, Frame(m)), graph, finished)
<1> DEFINE new == Append(adv, Frame(m))
<1>0. /\ Len(new) = Len(st) + 1 /\ new[Len(st) + 1] = Frame(m)
      /\ \A k \in 1..Len(st) : new[k] = adv[k]
  OBVIOUS
<1> HIDE DEF new
<1> SUFFICES ASSUME NEW k \in 1..Len(new), NEW i \in 1..Len(graph[new[k].module]), i < new[k].next
             PROVE  \/ graph[new[k].module][i] \in finished
                    \/ k < Len(new) /\ graph[new[k].module][i] = new[k + 1].module
  BY DEF FramesAreSound, new
<1>1. CASE k \in 1..(Len(st) - 1)
  <2>1. k + 1 \in 1..Len(st) /\ k \in 1..Len(st)
    BY SMTT(20), <1>1
  <2>2. new[k] = st[k] /\ new[k + 1].module = st[k + 1].module
    BY <1>0, <1>1, <2>1
  <2>3. k < Len(new)
    BY <1>0, <1>1
  <2> QED BY <2>1, <2>2, <2>3 DEF FramesAreSound
<1>2. CASE k = Len(st) /\ i # st[k].next
  <2>0. new[k].module = st[k].module /\ new[k].next = st[k].next + 1
    BY <1>0, <1>2
  <2>1. st[k] \in Frames
    BY <1>2
  <2>2. i < st[k].next
    BY <1>2, <2>0, <2>1 DEF Frames
  <2> QED BY <1>2, <2>0, <2>1, <2>2 DEF FramesAreSound
<1>3. CASE k = Len(st) /\ i = st[k].next
  <2>1. new[k].module = st[k].module /\ new[k + 1].module = m /\ k < Len(new)
    BY SMTT(20), <1>0, <1>3 DEF Frame
  <2> QED BY <1>3, <2>1
<1>4. CASE k = Len(st) + 1
  <2>1. new[k].next = 1
    BY <1>0, <1>4 DEF Frame
  <2> QED BY <2>1
<1> QED BY <1>0, <1>1, <1>2, <1>3, <1>4

\* The walk leaves a module: all its imports are done, and now it is.
LEMMA PopIsSound ==
    ASSUME NEW st \in Seq(Frames), st # <<>>,
           NEW graph \in [Modules -> Seq(Modules)], NEW finished,
           FramesAreSound(st, graph, finished),
           ~(st[Len(st)].next <= Len(graph[st[Len(st)].module]))
    PROVE  /\ Elements(graph[st[Len(st)].module]) \subseteq finished
           /\ FramesAreSound(SubSeq(st, 1, Len(st) - 1), graph, finished \cup {st[Len(st)].module})
<1> DEFINE new == SubSeq(st, 1, Len(st) - 1)
<1>0. Len(st) \in 1..Len(st) /\ st[Len(st)] \in Frames
  OBVIOUS
<1>1. Elements(graph[st[Len(st)].module]) \subseteq finished
  <2> SUFFICES ASSUME NEW i \in 1..Len(graph[st[Len(st)].module])
               PROVE  graph[st[Len(st)].module][i] \in finished
    BY DEF Elements
  <2>1. i < st[Len(st)].next
    BY <1>0 DEF Frames
  <2> QED BY <1>0, <2>1 DEF FramesAreSound
<1>2. Len(new) \in Nat /\ Len(new) = Len(st) - 1 /\ \A k \in 1..(Len(st) - 1) : new[k] = st[k]
  BY PopFrames
<1> HIDE DEF new
<1>3. FramesAreSound(new, graph, finished \cup {st[Len(st)].module})
  <2> SUFFICES ASSUME NEW k \in 1..Len(new), NEW i \in 1..Len(graph[new[k].module]), i < new[k].next
               PROVE  \/ graph[new[k].module][i] \in finished \cup {st[Len(st)].module}
                      \/ k < Len(new) /\ graph[new[k].module][i] = new[k + 1].module
    BY DEF FramesAreSound
  <2>1. k \in 1..(Len(st) - 1) /\ k \in 1..Len(st) /\ k + 1 \in 1..Len(st) /\ new[k] = st[k]
    BY <1>2
  <2>2. graph[st[k].module][i] \in finished \/ graph[st[k].module][i] = st[k + 1].module
    BY <2>1 DEF FramesAreSound
  <2>3. k + 1 = Len(st) \/ (k < Len(new) /\ new[k + 1] = st[k + 1])
    <3>1. CASE k + 1 # Len(st)
      <4>1. k + 1 \in 1..(Len(st) - 1)
        BY <1>0, <2>1, <3>1
      <4> QED BY <1>2, <4>1
    <3> QED BY <3>1
  <2> QED BY <2>1, <2>2, <2>3
<1> QED BY <1>1, <1>3 DEF new

-----------------------------------------------------------------------------
(* Kernel.start().                                                         *)

\* The graph of the run has ranks: it is acyclic.
LEMMA GraphFacts ==
    ASSUME KernelAssumption, StartTypes
    PROVE  /\ importModules \in [Modules -> Seq(Modules)] /\ Ranks(importModules) # {}
           /\ AppModule \in Modules
BY DEF KernelAssumption, StartTypes

\* An import has a lower rank than what imports it.
LEMMA RankFacts ==
    ASSUME NEW graph \in [Modules -> Seq(Modules)], NEW rank \in Ranks(graph), IsFiniteSet(Modules)
    PROVE  /\ \A m \in Modules : rank[m] \in Nat
           /\ \A m \in Modules : \A n \in Elements(graph[m]) : n \in Modules /\ rank[n] < rank[m]
<1>1. rank \in [Modules -> 0..Cardinality(Modules)]
  BY DEF Ranks
<1>2. \A m \in Modules : \A n \in Elements(graph[m]) : n \in Modules
  BY DEF Elements
<1> QED BY <1>1, <1>2, SMT DEF Ranks

\* The import a walk is at.
LEMMA NextImportFacts ==
    ASSUME KernelAssumption, StartTypes, stack # <<>>, ImportsLeft
    PROVE  /\ Top \in Frames /\ NextImport \in Modules
           /\ Top.next \in 1..Len(importModules[Top.module])
           /\ NextImport \in Elements(importModules[Top.module])
<1>1. Top \in Frames
  BY DEF StartTypes, Top
<1>2. Top.module \in Modules /\ Top.next \in Nat \ {0} /\ importModules[Top.module] \in Seq(Modules)
  BY <1>1, GraphFacts DEF Frames
<1>3. Top.next \in 1..Len(importModules[Top.module])
  BY <1>2 DEF ImportsLeft
<1> QED BY <1>1, <1>2, <1>3 DEF NextImport, Elements

\* start() enters the application's module.
LEMMA StartStep ==
    ASSUME KernelAssumption, StartInv, Start
    PROVE  StartInv'
<1> USE DEF StartInv
<1>0. /\ AppModule \in Modules /\ phase' = "init" /\ stack' = <<Frame(AppModule)>>
      /\ instantiated' = <<AppModule>> /\ inited' = {} /\ afterInited' = {}
      /\ importModules' = importModules
  BY GraphFacts DEF Start, WalksAreDone
<1>1. Frame(AppModule) \in Frames /\ Frame(AppModule).module = AppModule /\ Frame(AppModule).next = 1
  BY <1>0 DEF Frame, Frames
<1>2. Len(stack') = 1 /\ stack'[1] = Frame(AppModule) /\ stack' \in Seq(Frames)
  BY <1>0, <1>1
<1>3. Elements(instantiated') = {AppModule} /\ Len(instantiated') = 1 /\ instantiated'[1] = AppModule
  BY <1>0 DEF Elements
<1>4. StartTypes'
  BY <1>0, <1>2 DEF StartTypes
<1>5. FramesAreSound(stack', importModules', inited') /\ StackDescends(stack', importModules')
  BY <1>1, <1>2 DEF FramesAreSound, StackDescends
<1>6. InitWalk'
  BY <1>0, <1>1, <1>2, <1>3, <1>5 DEF InitWalk
<1>7. AfterInitWalk' /\ WalksAreDone'
  BY <1>0 DEF AfterInitWalk, WalksAreDone, ImportsClosed
<1>8. OnlyReachable'
  BY <1>0, <1>3 DEF OnlyReachable
<1>9. RecordOrder(instantiated', importModules')
  BY <1>3 DEF RecordOrder
<1> QED BY <1>4, <1>6, <1>7, <1>8, <1>9

\* initModule() records a module it has not met: what imports it is on top of the
\* stack, so it comes after that one and ranks below all of the stack.
LEMMA InitRecordStep ==
    ASSUME KernelAssumption, StartInv, InitImport, ~AlreadyInstantiated(NextImport)
    PROVE  StartInv'
<1> USE DEF StartInv
<1> DEFINE n == NextImport
           adv == Advance
<1>0. /\ phase = "init" /\ phase' = "init" /\ stack' = Append(adv, Frame(n))
      /\ instantiated' = Append(instantiated, n)
      /\ UNCHANGED <<importModules, inited, afterInited>> /\ afterInited = {}
      /\ stack # <<>> /\ stack[1].module = AppModule /\ ImportsLeft
  BY DEF InitImport, InitWalk, WalksAreDone
<1>1. n \in Modules /\ n \in Elements(importModules[Top.module]) /\ Top \in Frames
  BY <1>0, NextImportFacts
<1>2. /\ adv \in Seq(Frames) /\ Len(adv) = Len(stack)
      /\ \A k \in 1..Len(stack) : adv[k].module = stack[k].module
      /\ \A k \in 1..(Len(stack) - 1) : adv[k] = stack[k]
      /\ adv[Len(stack)].next = stack[Len(stack)].next + 1
  BY <1>0, AdvanceFrames DEF StartTypes, Advance
<1>3. Frame(n) \in Frames /\ Frame(n).module = n
  BY <1>1 DEF Frame, Frames
<1> HIDE DEF n, adv
<1>4. /\ stack' \in Seq(Frames) /\ stack' # <<>> /\ Len(stack') = Len(stack) + 1
      /\ \A k \in 1..Len(stack) : stack'[k].module = stack[k].module
      /\ stack'[Len(stack) + 1].module = n
      /\ Len(stack) \in Nat \ {0}
  BY <1>0, <1>2, <1>3 DEF StartTypes
<1>5. /\ instantiated' \in Seq(Modules) /\ Len(instantiated) \in Nat
      /\ Len(instantiated') = Len(instantiated) + 1
      /\ \A p \in 1..Len(instantiated) : instantiated'[p] = instantiated[p]
      /\ instantiated'[Len(instantiated) + 1] = n
  BY <1>0, <1>1 DEF StartTypes
<1>6. Elements(instantiated') = Elements(instantiated) \cup {n}
  BY <1>5 DEF Elements
<1>7. Top.module \in Elements(instantiated) /\ Top = stack[Len(stack)] /\ Top.module \in Modules
  BY <1>0, <1>1, <1>4 DEF InitWalk, Top, Frames
<1>8. n \notin Elements(instantiated)
  BY DEF AlreadyInstantiated, n
<1>9. StartTypes'
  BY <1>0, <1>4, <1>5 DEF StartTypes
<1>10. FramesAreSound(stack', importModules, inited)
  <2>1. n = importModules[stack[Len(stack)].module][stack[Len(stack)].next]
    BY DEF n, NextImport, Top
  <2>2. FramesAreSound(stack, importModules, inited) /\ stack \in Seq(Frames)
    BY <1>0 DEF InitWalk, StartTypes
  <2>3. FramesAreSound(Append(adv, Frame(n)), importModules, inited)
    BY <1>0, <1>1, <1>2, <2>1, <2>2, GraphFacts, PushIsSound
  <2> QED BY <1>0, <2>3
<1>11. StackDescends(stack', importModules)
  <2> SUFFICES ASSUME NEW rank \in Ranks(importModules), NEW j \in 1..Len(stack'), NEW k \in 1..Len(stack'), j < k
               PROVE  rank[stack'[k].module] < rank[stack'[j].module]
    BY DEF StackDescends
  <2>0. j \in 1..Len(stack) /\ stack'[j].module = stack[j].module /\ stack[j].module \in Modules
    <3>1. j \in 1..Len(stack)
      BY <1>4
    <3>2. stack[j] \in Frames
      BY <3>1 DEF StartTypes
    <3> QED BY <1>4, <3>1, <3>2 DEF Frames
  <2>1. StackDescends(stack, importModules)
    BY <1>0 DEF InitWalk
  <2>2. CASE k \in 1..Len(stack)
    BY <1>4, <2>0, <2>1, <2>2 DEF StackDescends
  <2>3. CASE k = Len(stack) + 1
    <3>1. rank[n] < rank[Top.module] /\ rank[n] \in Nat /\ rank[Top.module] \in Nat /\ rank[stack[j].module] \in Nat
      BY <1>1, <1>7, <2>0, GraphFacts, RankFacts DEF KernelAssumption
    <3>2. j = Len(stack) \/ rank[Top.module] < rank[stack[j].module]
      BY <1>4, <1>7, <2>0, <2>1 DEF StackDescends
    <3> QED BY <1>4, <1>7, <2>0, <2>3, <3>1, <3>2
  <2> QED BY <1>4, <2>2, <2>3
<1>12. InitWalk'
  <2>1. stack'[1].module = AppModule
    BY <1>0, <1>4
  <2>2. {stack'[k].module : k \in 1..Len(stack')} = {stack[k].module : k \in 1..Len(stack)} \cup {n}
    BY <1>4
  <2>3. Elements(instantiated') = inited \cup {stack'[k].module : k \in 1..Len(stack')}
    BY <1>0, <1>6, <2>2 DEF InitWalk
  <2> QED BY <1>0, <1>4, <1>10, <1>11, <2>1, <2>3 DEF InitWalk
<1>13. AfterInitWalk' /\ WalksAreDone'
  BY <1>0 DEF AfterInitWalk, WalksAreDone
<1>14. OnlyReachable'
  BY <1>0, <1>1, <1>6, <1>7 DEF OnlyReachable, ImportsClosed
<1>15. RecordOrder(instantiated', importModules)
  <2>0. RecordOrder(instantiated, importModules) /\ instantiated # <<>>
    BY <1>7 DEF Elements
  <2>1. \A p, q \in 1..Len(instantiated') : instantiated'[p] = instantiated'[q] => p = q
    BY SMTT(20), <1>5, <1>8, <2>0 DEF RecordOrder, Elements
  <2>2. instantiated'[1] = AppModule /\ 1 \in 1..Len(instantiated)
    BY <1>5, <2>0 DEF RecordOrder, StartTypes
  <2>3. ASSUME NEW p \in 2..Len(instantiated')
        PROVE  \E o \in 1..(p - 1) : instantiated'[p] \in Elements(importModules[instantiated'[o]])
    <3>1. CASE p \in 2..Len(instantiated)
      <4>1. PICK o \in 1..(p - 1) : instantiated[p] \in Elements(importModules[instantiated[o]])
        BY <2>0, <3>1 DEF RecordOrder
      <4> QED BY <1>5, <3>1, <4>1
    <3>2. CASE p = Len(instantiated) + 1
      <4>1. PICK o \in 1..Len(instantiated) : instantiated[o] = Top.module
        BY <1>7 DEF Elements
      <4> QED BY <1>1, <1>5, <3>2, <4>1
    <3> QED BY <1>5, <3>1, <3>2
  <2>4. ASSUME NEW rank \in Ranks(importModules), NEW p \in 2..Len(instantiated')
        PROVE  rank[instantiated'[p]] < rank[AppModule]
    <3>1. CASE p \in 2..Len(instantiated)
      BY <1>5, <2>0, <3>1 DEF RecordOrder
    <3>2. CASE p = Len(instantiated) + 1
      <4>1. PICK o \in 1..Len(instantiated) : instantiated[o] = Top.module
        BY <1>7 DEF Elements
      <4>2. o = 1 \/ rank[Top.module] < rank[AppModule]
        BY <2>0, <4>1, <1>5 DEF RecordOrder
      <4>3. rank[n] < rank[Top.module] /\ rank[n] \in Nat /\ rank[Top.module] \in Nat /\ rank[AppModule] \in Nat
        BY <1>1, <1>7, GraphFacts, RankFacts DEF KernelAssumption
      <4>4. o = 1 => Top.module = AppModule
        BY <2>0, <4>1 DEF RecordOrder
      <4> QED BY <1>5, <3>2, <4>2, <4>3, <4>4
    <3> QED BY <1>5, <3>1, <3>2
  <2> QED BY <2>1, <2>2, <2>3, <2>4 DEF RecordOrder
<1> QED BY <1>0, <1>9, <1>12, <1>13, <1>14, <1>15

\* initModule() skips a module it has met: by its rank it is not on the stack, so it is
\* initialised.
LEMMA InitSkipStep ==
    ASSUME KernelAssumption, StartInv, InitImport, AlreadyInstantiated(NextImport)
    PROVE  StartInv'
<1> USE DEF StartInv
<1> DEFINE n == NextImport
           adv == Advance
<1>0. /\ phase = "init" /\ phase' = "init" /\ stack' = adv
      /\ UNCHANGED <<importModules, instantiated, inited, afterInited>>
      /\ stack # <<>> /\ stack[1].module = AppModule /\ ImportsLeft
      /\ FramesAreSound(stack, importModules, inited) /\ StackDescends(stack, importModules)
      /\ Elements(instantiated) = inited \cup {stack[k].module : k \in 1..Len(stack)}
  BY DEF InitImport, InitWalk
<1>1. n \in Modules /\ n \in Elements(importModules[Top.module]) /\ Top \in Frames
  BY <1>0, NextImportFacts
<1>2. /\ adv \in Seq(Frames) /\ Len(adv) = Len(stack)
      /\ \A k \in 1..Len(stack) : adv[k].module = stack[k].module
      /\ \A k \in 1..(Len(stack) - 1) : adv[k] = stack[k]
      /\ adv[Len(stack)].next = stack[Len(stack)].next + 1
  BY <1>0, AdvanceFrames DEF StartTypes, Advance
<1>3. n = importModules[stack[Len(stack)].module][stack[Len(stack)].next]
  BY DEF n, NextImport, Top
<1>4. n \in inited
  <2>1. n \in Elements(instantiated)
    BY DEF AlreadyInstantiated
  <2> SUFFICES ASSUME NEW k \in 1..Len(stack), n = stack[k].module
               PROVE  FALSE
    BY <1>0, <2>1
  <2>2. PICK rank \in Ranks(importModules) : TRUE
    BY GraphFacts
  <2>3. Top.module \in Modules /\ Top = stack[Len(stack)] /\ Len(stack) \in 1..Len(stack)
    BY <1>0, <1>1 DEF Frames, Top, StartTypes
  <2>4. rank[n] < rank[Top.module] /\ rank[n] \in Nat /\ rank[Top.module] \in Nat
    BY <1>1, <2>3, GraphFacts, RankFacts DEF KernelAssumption
  <2>5. k = Len(stack) \/ rank[Top.module] < rank[stack[k].module]
    BY <1>0, <2>3 DEF StackDescends
  <2> HIDE DEF n
  <2> QED BY <2>3, <2>4, <2>5
<1> HIDE DEF n, adv
<1>5. FramesAreSound(adv, importModules, inited)
  BY <1>0, <1>2, <1>3, <1>4, GraphFacts, SkipIsSound DEF StartTypes
<1>6. StackDescends(adv, importModules)
  BY <1>0, <1>2 DEF StackDescends
<1>7. /\ adv # <<>> /\ adv[1].module = AppModule
      /\ {adv[k].module : k \in 1..Len(adv)} = {stack[k].module : k \in 1..Len(stack)}
  BY SMTT(20), <1>0, <1>2 DEF StartTypes
<1>8. InitWalk'
  BY <1>0, <1>5, <1>6, <1>7 DEF InitWalk
<1>9. StartTypes'
  BY <1>0, <1>2 DEF StartTypes
<1>10. AfterInitWalk' /\ WalksAreDone' /\ OnlyReachable' /\ RecordOrder(instantiated, importModules)'
  BY <1>0 DEF AfterInitWalk, WalksAreDone, OnlyReachable, RecordOrder
<1> QED BY <1>8, <1>9, <1>10

\* What a walk that returns from a module leaves: the frames below it.
LEMMA ReturnFacts ==
    ASSUME KernelAssumption, StartTypes, stack # <<>>, ~ImportsLeft, NEW finished,
           FramesAreSound(stack, importModules, finished)
    PROVE  /\ Top.module \in Modules /\ Top = stack[Len(stack)]
           /\ Elements(importModules[Top.module]) \subseteq finished
           /\ FramesAreSound(Pop, importModules, finished \cup {Top.module})
           /\ Pop \in Seq(Frames) /\ Len(Pop) = Len(stack) - 1 /\ Len(stack) \in Nat \ {0}
           /\ \A k \in 1..(Len(stack) - 1) : Pop[k] = stack[k]
<1>1. Top \in Frames /\ Top = stack[Len(stack)] /\ Len(stack) \in Nat \ {0}
  BY DEF StartTypes, Top
<1>2. ~(stack[Len(stack)].next <= Len(importModules[stack[Len(stack)].module]))
  BY DEF ImportsLeft, Top
<1>3. /\ Elements(importModules[stack[Len(stack)].module]) \subseteq finished
      /\ FramesAreSound(SubSeq(stack, 1, Len(stack) - 1), importModules,
                        finished \cup {stack[Len(stack)].module})
  BY <1>2, GraphFacts, PopIsSound DEF StartTypes
<1>4. /\ Pop \in Seq(Frames) /\ Len(Pop) = Len(stack) - 1
      /\ \A k \in 1..(Len(stack) - 1) : Pop[k] = stack[k]
  BY PopFrames DEF StartTypes, Pop
<1> QED BY <1>1, <1>3, <1>4 DEF Frames, Pop, Top

\* initModule() returns: the module's imports are initialised, and now it is.
LEMMA InitReturnsStep ==
    ASSUME KernelAssumption, StartInv, InitReturns
    PROVE  StartInv'
<1> USE DEF StartInv
<1>0. /\ phase = "init" /\ inited' = inited \cup {Top.module} /\ stack' = Pop
      /\ phase' = IF Len(stack) = 1 THEN "configuration" ELSE "init"
      /\ UNCHANGED <<importModules, instantiated, afterInited>> /\ ~ImportsLeft
      /\ stack # <<>> /\ stack[1].module = AppModule /\ afterInited = {}
      /\ FramesAreSound(stack, importModules, inited) /\ StackDescends(stack, importModules)
      /\ Elements(instantiated) = inited \cup {stack[k].module : k \in 1..Len(stack)}
      /\ ImportsClosed(importModules, inited)
  BY DEF InitReturns, InitWalk, WalksAreDone
<1>1. /\ Top.module \in Modules /\ Top = stack[Len(stack)]
      /\ Elements(importModules[Top.module]) \subseteq inited
      /\ FramesAreSound(stack', importModules, inited')
      /\ stack' \in Seq(Frames) /\ Len(stack') = Len(stack) - 1 /\ Len(stack) \in Nat \ {0}
      /\ \A k \in 1..(Len(stack) - 1) : stack'[k] = stack[k]
  BY <1>0, ReturnFacts
<1>2. StartTypes'
  BY <1>0, <1>1 DEF StartTypes
<1>3. ImportsClosed(importModules, inited')
  BY <1>0, <1>1 DEF ImportsClosed
<1>4. Elements(instantiated) = inited' \cup {stack'[k].module : k \in 1..Len(stack')}
  <2>1. {stack[k].module : k \in 1..Len(stack)} = {stack'[k].module : k \in 1..Len(stack')} \cup {Top.module}
    <3>1. ASSUME NEW k \in 1..Len(stack), k # Len(stack) PROVE k \in 1..Len(stack') /\ stack'[k] = stack[k]
      BY <1>1, <3>1
    <3>2. ASSUME NEW k \in 1..Len(stack') PROVE k \in 1..Len(stack) /\ stack'[k] = stack[k]
      BY <1>1, <3>2
    <3>3. Len(stack) \in 1..Len(stack)
      BY <1>1
    <3> QED BY <1>1, <3>1, <3>2, <3>3
  <2> QED BY <1>0, <2>1
<1>5. InitWalk'
  <2> SUFFICES ASSUME Len(stack) # 1 PROVE InitWalk'
    BY <1>0 DEF InitWalk
  <2>1. stack' # <<>> /\ stack'[1].module = AppModule
    BY <1>0, <1>1
  <2>2. StackDescends(stack', importModules)
    BY <1>0, <1>1 DEF StackDescends
  <2> QED BY <1>0, <1>1, <1>4, <2>1, <2>2 DEF InitWalk
<1>6. Len(stack) = 1 => Elements(instantiated) = inited' /\ AppModule \in inited'
  <2> SUFFICES ASSUME Len(stack) = 1 PROVE Elements(instantiated) = inited' /\ AppModule \in inited'
    OBVIOUS
  <2>1. {stack'[k].module : k \in 1..Len(stack')} = {}
    BY <1>1
  <2> QED BY <1>0, <1>1, <1>4, <2>1
<1>7. AfterInitWalk' /\ WalksAreDone'
  BY <1>0, <1>3, <1>6 DEF AfterInitWalk, WalksAreDone
<1>8. OnlyReachable' /\ RecordOrder(instantiated, importModules)'
  BY <1>0 DEF OnlyReachable, RecordOrder
<1> QED BY <1>2, <1>5, <1>7, <1>8

\* The second walk begins.
LEMMA LoadConfigurationStep ==
    ASSUME KernelAssumption, StartInv, LoadConfiguration
    PROVE  StartInv'
<1> USE DEF StartInv
<1>0. /\ phase = "configuration" /\ phase' = "afterInit" /\ stack' = <<Frame(AppModule)>>
      /\ UNCHANGED <<importModules, instantiated, inited, afterInited>>
      /\ AppModule \in inited /\ AppModule \in Modules
  BY GraphFacts DEF LoadConfiguration, WalksAreDone
<1>1. Frame(AppModule) \in Frames /\ Frame(AppModule).module = AppModule /\ Frame(AppModule).next = 1
  BY <1>0 DEF Frame, Frames
<1>2. Len(stack') = 1 /\ stack'[1] = Frame(AppModule) /\ stack' \in Seq(Frames)
  BY <1>0, <1>1
<1>3. StartTypes'
  BY <1>0, <1>2 DEF StartTypes
<1>4. FramesAreSound(stack', importModules', afterInited')
  BY <1>1, <1>2 DEF FramesAreSound
<1>5. InitWalk' /\ AfterInitWalk'
  BY <1>0, <1>1, <1>2, <1>4 DEF InitWalk, AfterInitWalk
<1>6. WalksAreDone' /\ OnlyReachable' /\ RecordOrder(instantiated, importModules)'
  BY <1>0 DEF WalksAreDone, OnlyReachable, RecordOrder
<1> QED BY <1>3, <1>5, <1>6

\* afterInitModule() enters an import, which is initialised because what imports it is.
LEMMA AfterInitImportStep ==
    ASSUME KernelAssumption, StartInv, AfterInitImport
    PROVE  StartInv'
<1> USE DEF StartInv
<1> DEFINE n == NextImport
           adv == Advance
<1>0. /\ phase = "afterInit" /\ phase' = "afterInit" /\ stack' = Append(adv, Frame(n))
      /\ UNCHANGED <<importModules, instantiated, inited, afterInited>> /\ ImportsLeft
      /\ stack # <<>> /\ stack[1].module = AppModule
      /\ FramesAreSound(stack, importModules, afterInited)
      /\ \A k \in 1..Len(stack) : stack[k].module \in inited
      /\ ImportsClosed(importModules, inited)
  BY DEF AfterInitImport, AfterInitWalk, WalksAreDone
<1>1. n \in Modules /\ n \in Elements(importModules[Top.module]) /\ Top \in Frames
  BY <1>0, NextImportFacts
<1>2. /\ adv \in Seq(Frames) /\ Len(adv) = Len(stack)
      /\ \A k \in 1..Len(stack) : adv[k].module = stack[k].module
      /\ \A k \in 1..(Len(stack) - 1) : adv[k] = stack[k]
      /\ adv[Len(stack)].next = stack[Len(stack)].next + 1
  BY <1>0, AdvanceFrames DEF StartTypes, Advance
<1>3. Frame(n) \in Frames /\ Frame(n).module = n
  BY <1>1 DEF Frame, Frames
<1>4. n = importModules[stack[Len(stack)].module][stack[Len(stack)].next]
  BY DEF n, NextImport, Top
<1> HIDE DEF n, adv
<1>5. /\ stack' \in Seq(Frames) /\ stack' # <<>> /\ Len(stack') = Len(stack) + 1
      /\ \A k \in 1..Len(stack) : stack'[k].module = stack[k].module
      /\ stack'[Len(stack) + 1].module = n
      /\ Len(stack) \in Nat \ {0}
  BY <1>0, <1>2, <1>3 DEF StartTypes
<1>6. FramesAreSound(stack', importModules, afterInited)
  <2>1. FramesAreSound(Append(adv, Frame(n)), importModules, afterInited)
    BY <1>0, <1>1, <1>2, <1>4, GraphFacts, PushIsSound DEF StartTypes
  <2> QED BY <1>0, <2>1
<1>7. n \in inited
  BY <1>0, <1>1, <1>5 DEF ImportsClosed, Top
<1>8. AfterInitWalk'
  <2>1. stack'[1].module = AppModule
    BY <1>0, <1>5
  <2>2. \A k \in 1..Len(stack') : stack'[k].module \in inited
    BY <1>0, <1>5, <1>7
  <2> QED BY <1>0, <1>5, <1>6, <2>1, <2>2 DEF AfterInitWalk
<1>9. StartTypes' /\ InitWalk'
  BY <1>0, <1>5 DEF StartTypes, InitWalk
<1>10. WalksAreDone' /\ OnlyReachable' /\ RecordOrder(instantiated, importModules)'
  BY <1>0 DEF WalksAreDone, OnlyReachable, RecordOrder
<1> QED BY <1>8, <1>9, <1>10

\* The second walk leaves a module all of whose imports it has left.
LEMMA AfterInitReturnsStep ==
    ASSUME KernelAssumption, StartInv, AfterInitReturns
    PROVE  StartInv'
<1> USE DEF StartInv
<1>0. /\ phase = "afterInit" /\ afterInited' = afterInited \cup {Top.module} /\ stack' = Pop
      /\ phase' \in IF Len(stack) = 1 THEN {"started", "failed"} ELSE {"afterInit"}
      /\ UNCHANGED <<importModules, instantiated, inited>> /\ ~ImportsLeft
      /\ stack # <<>> /\ stack[1].module = AppModule
      /\ FramesAreSound(stack, importModules, afterInited)
      /\ \A k \in 1..Len(stack) : stack[k].module \in inited
      /\ ImportsClosed(importModules, afterInited)
  BY DEF AfterInitReturns, AfterInitWalk, WalksAreDone
<1>1. /\ Top.module \in Modules /\ Top = stack[Len(stack)]
      /\ Elements(importModules[Top.module]) \subseteq afterInited
      /\ FramesAreSound(stack', importModules, afterInited')
      /\ stack' \in Seq(Frames) /\ Len(stack') = Len(stack) - 1 /\ Len(stack) \in Nat \ {0}
      /\ \A k \in 1..(Len(stack) - 1) : stack'[k] = stack[k]
  BY <1>0, ReturnFacts
<1>2. StartTypes'
  BY <1>0, <1>1 DEF StartTypes
<1>3. ImportsClosed(importModules, afterInited') /\ Top.module \in inited
  BY <1>0, <1>1 DEF ImportsClosed
<1>4. AfterInitWalk'
  <2> SUFFICES ASSUME Len(stack) # 1 PROVE AfterInitWalk'
    BY <1>0 DEF AfterInitWalk
  <2>1. stack' # <<>> /\ stack'[1].module = AppModule
    BY <1>0, <1>1
  <2>2. \A k \in 1..Len(stack') : stack'[k].module \in inited
    BY <1>0, <1>1
  <2> QED BY <1>0, <1>1, <2>1, <2>2 DEF AfterInitWalk
<1>5. Len(stack) = 1 => AppModule \in afterInited'
  BY <1>0, <1>1
<1>6. InitWalk' /\ WalksAreDone'
  BY <1>0, <1>3, <1>5 DEF InitWalk, WalksAreDone
<1>7. OnlyReachable' /\ RecordOrder(instantiated, importModules)'
  BY <1>0 DEF OnlyReachable, RecordOrder
<1> QED BY <1>2, <1>4, <1>6, <1>7

\* A failing start leaves what was initialised so far.
LEMMA StartFailsStep ==
    ASSUME KernelAssumption, StartInv, StartFails
    PROVE  StartInv'
<1> USE DEF StartInv
<1>0. phase' = "failed" /\ stack' = <<>> /\ UNCHANGED <<importModules, instantiated, inited, afterInited>>
  BY DEF StartFails
<1>1. StartTypes' /\ InitWalk' /\ AfterInitWalk'
  BY <1>0 DEF StartTypes, InitWalk, AfterInitWalk
<1>2. WalksAreDone' /\ OnlyReachable' /\ RecordOrder(instantiated, importModules)'
  BY <1>0 DEF WalksAreDone, OnlyReachable, RecordOrder
<1> QED BY <1>1, <1>2

-----------------------------------------------------------------------------
(* Kernel.stop().                                                          *)

\* While start() runs nothing was stopped.
LEMMA StartKeepsStopInv ==
    ASSUME StopInv, phase \notin {"started", "failed"}, UNCHANGED stopVars, instantiated' \in Seq(Modules)
    PROVE  StopInv'
<1>1. ~stopped /\ invoked = <<>> /\ \A c \in Callers : call[c] = "idle" /\ visited[c] = 0
  BY DEF StopInv
<1>2. UNCHANGED <<stopped, call, visited, hook, running, invoked>>
  BY DEF stopVars
<1>3. visited \in [Callers -> 0..Len(instantiated')]
  <2>1. 0 \in 0..Len(instantiated')
    OBVIOUS
  <2> QED BY <1>1, <2>1 DEF StopInv, StopTypes
<1>4. StopTypes'
  BY <1>2, <1>3 DEF StopInv, StopTypes
<1> QED BY <1>1, <1>2, <1>4 DEF StopInv

\* Nothing that stop() does touches what start() left.
LEMMA StopKeepsStartInv ==
    ASSUME StartInv, UNCHANGED <<importModules, startVars>>
    PROVE  StartInv'
BY DEF startVars, StartInv, StartTypes, InitWalk, AfterInitWalk, WalksAreDone, OnlyReachable,
       RecordOrder, FramesAreSound, StackDescends

\* A call of stop(): the flag lets one of them through.
LEMMA StopStep ==
    ASSUME KernelAssumption, StartInv, StopInv, NEW c \in Callers, Stop(c)
    PROVE  StopInv'
<1>0. /\ phase \in {"started", "failed"} /\ call[c] = "idle"
      /\ UNCHANGED <<phase, instantiated, visited, hook, running, invoked>>
  BY DEF Stop, startVars
<1>1. CASE stopped
  <2>1. call' = [call EXCEPT ![c] = "returned"] /\ stopped' = stopped
    BY <1>1 DEF Stop, AlreadyStopped
  <2>2. \A d \in Callers : (call'[d] = "running" <=> call[d] = "running") /\ (call'[d] = "idle" => call[d] = "idle")
    BY <1>0, <2>1 DEF StopInv, StopTypes
  <2>3. StopTypes'
    BY <1>0, <2>1 DEF StopInv, StopTypes
  <2> QED BY <1>0, <1>1, <2>1, <2>2, <2>3 DEF StopInv, Precedes
<1>2. CASE ~stopped
  <2>1. call' = [call EXCEPT ![c] = "running"] /\ stopped' = TRUE
    BY <1>2 DEF Stop, AlreadyStopped
  <2>2. invoked = <<>> /\ \A d \in Callers : call[d] = "idle" /\ visited[d] = 0
    BY <1>2 DEF StopInv
  <2>3. \A d \in Callers : call'[d] = IF d = c THEN "running" ELSE "idle"
    BY <2>1, <2>2 DEF StopInv, StopTypes
  <2>4. StopTypes'
    BY <1>0, <2>1 DEF StopInv, StopTypes
  <2> QED BY <1>0, <2>1, <2>2, <2>3, <2>4 DEF StopInv
<1> QED BY <1>1, <1>2

\* The loop reaches the next hook: those called so far stand before it.
LEMMA CallHookStep ==
    ASSUME KernelAssumption, StartInv, StopInv, NEW c \in Callers, CallHook(c)
    PROVE  StopInv'
<1>0. /\ call[c] = "running" /\ UNCHANGED <<phase, instantiated, stopped, call>>
  BY DEF CallHook, startVars
<1>1. PICK n \in 1..Len(instantiated) :
         /\ IsNextHook(c, n)
         /\ visited' = [visited EXCEPT ![c] = n]
         /\ hook' = [hook EXCEPT ![c] = instantiated[n]]
         /\ running' = running \cup {instantiated[n]}
         /\ invoked' = Append(invoked, instantiated[n])
  BY DEF CallHook, moduleNames
<1>2. /\ n \in (visited[c] + 1)..Len(instantiated) /\ instantiated[n] \in Hooked
      /\ \A j \in (visited[c] + 1)..(n - 1) : instantiated[j] \notin Hooked
      /\ visited[c] \in 0..Len(instantiated) /\ Len(instantiated) \in Nat
      /\ invoked \in Seq(Hooked)
  BY <1>1 DEF IsNextHook, moduleNames, StopInv, StopTypes, StartInv, StartTypes
<1>3. /\ invoked' \in Seq(Hooked) /\ Len(invoked') = Len(invoked) + 1 /\ Len(invoked) \in Nat
      /\ \A i \in 1..Len(invoked) : invoked'[i] = invoked[i]
      /\ invoked'[Len(invoked) + 1] = instantiated[n]
  BY <1>1, <1>2
<1>4. Elements(invoked') = Elements(invoked) \cup {instantiated[n]}
  BY <1>3 DEF Elements
<1>5. StopTypes'
  BY <1>0, <1>1, <1>2, <1>3 DEF StopInv, StopTypes
<1>6. stopped /\ phase \in {"started", "failed"}
  BY <1>0 DEF StopInv, StopTypes
<1>7. \A d \in Callers : call[d] = "running" => d = c
  BY <1>0 DEF StopInv
<1>8. visited'[c] = n /\ \A d \in Callers : d # c => visited'[d] = visited[d]
  BY <1>1 DEF StopInv, StopTypes
<1>9. \A i \in 1..Len(invoked) : \E p \in 1..visited[c] : invoked[i] = instantiated[p]
  BY <1>0 DEF StopInv
<1>10. \A i \in 1..Len(invoked') : \E p \in 1..n : invoked'[i] = instantiated[p]
  <2> SUFFICES ASSUME NEW i \in 1..Len(invoked') PROVE \E p \in 1..n : invoked'[i] = instantiated[p]
    OBVIOUS
  <2>1. CASE i \in 1..Len(invoked)
    <3>1. PICK p \in 1..visited[c] : invoked[i] = instantiated[p]
      BY <1>9, <2>1
    <3>2. p \in 1..n
      BY <1>2
    <3> QED BY <1>3, <2>1, <3>1, <3>2
  <2>2. CASE i = Len(invoked) + 1
    BY <1>3, <2>2
  <2> QED BY <1>3, <2>1, <2>2
<1>11. \A p \in 1..n : instantiated[p] \in Hooked => instantiated[p] \in Elements(invoked')
  <2> SUFFICES ASSUME NEW p \in 1..n, instantiated[p] \in Hooked PROVE instantiated[p] \in Elements(invoked')
    OBVIOUS
  <2>1. CASE p \in 1..visited[c]
    BY <1>0, <1>4, <2>1 DEF StopInv
  <2>2. CASE p \in (visited[c] + 1)..(n - 1)
    BY <1>2, <2>2
  <2>3. CASE p = n
    BY <1>4, <2>3
  <2> QED BY <1>2, <2>1, <2>2, <2>3
<1>12. ASSUME NEW i \in 1..Len(invoked'), NEW j \in 1..Len(invoked'), i < j
       PROVE  Precedes(instantiated, invoked'[i], invoked'[j])
  <2>0. i \in 1..Len(invoked) /\ invoked'[i] = invoked[i]
    BY <1>3, <1>12
  <2>1. CASE j \in 1..Len(invoked)
    BY <1>3, <1>12, <2>0, <2>1 DEF StopInv
  <2>2. CASE j = Len(invoked) + 1
    <3>1. PICK p \in 1..visited[c] : invoked[i] = instantiated[p]
      BY <1>9, <2>0
    <3>2. p < n /\ p \in 1..Len(instantiated)
      BY <1>2
    <3> QED BY <1>3, <2>0, <2>2, <3>1, <3>2 DEF Precedes
  <2> QED BY <1>3, <2>1, <2>2
<1>13. \A d \in Callers : call'[d] = "idle" => visited'[d] = 0
  BY <1>0, <1>8 DEF StopInv
<1> QED BY <1>0, <1>5, <1>6, <1>7, <1>8, <1>10, <1>11, <1>12, <1>13 DEF StopInv

\* A hook settles or is given up on: the loop may go on.
LEMMA HookEndsStep ==
    ASSUME KernelAssumption, StartInv, StopInv,
           (\E m \in Modules : HookSettles(m)) \/ \E c \in Callers : HookTimesOut(c)
    PROVE  StopInv'
<1>0. UNCHANGED <<phase, instantiated, stopped, call, visited, invoked>>
  BY DEF HookSettles, HookTimesOut, startVars
<1>1. hook' \in [Callers -> Hooked \cup {NoModule}] /\ running' \subseteq Hooked
  BY SMTT(20) DEF HookSettles, HookTimesOut, StopInv, StopTypes
<1>2. StopTypes'
  BY <1>0, <1>1 DEF StopInv, StopTypes
<1> QED BY <1>0, <1>2 DEF StopInv, Precedes

\* The loop is over: no hook is behind the records it is past.
LEMMA StopReturnsStep ==
    ASSUME KernelAssumption, StartInv, StopInv, NEW c \in Callers, StopReturns(c)
    PROVE  StopInv'
<1>0. /\ call[c] = "running" /\ LoopIsDone(c) /\ call' = [call EXCEPT ![c] = "returned"]
      /\ UNCHANGED <<phase, instantiated, stopped, visited, hook, running, invoked>>
  BY DEF StopReturns, startVars
<1>1. StopTypes'
  BY <1>0 DEF StopInv, StopTypes
<1>2. \A d \in Callers : call'[d] = IF d = c THEN "returned" ELSE call[d]
  BY <1>0 DEF StopInv, StopTypes
<1>3. stopped
  BY <1>0 DEF StopInv, StopTypes
<1>4. Hooked \cap Elements(instantiated) \subseteq Elements(invoked)
  <2> SUFFICES ASSUME NEW p \in 1..Len(instantiated), instantiated[p] \in Hooked
               PROVE  instantiated[p] \in Elements(invoked)
    BY DEF Elements
  <2>0. visited[c] \in 0..Len(instantiated) /\ Len(instantiated) \in Nat
    BY DEF StopInv, StopTypes, StartInv, StartTypes
  <2>1. CASE p \in 1..visited[c]
    BY <1>0, <2>1 DEF StopInv
  <2>2. CASE p > visited[c]
    <3> SUFFICES ASSUME TRUE PROVE FALSE
      OBVIOUS
    <3> DEFINE Left == {q \in (visited[c] + 1)..Len(instantiated) : instantiated[q] \in Hooked}
    <3>1. Left \subseteq Nat /\ p \in Left
      BY <2>0, <2>2
    <3>2. PICK n \in Left : \A q \in Left : n <= q
      BY <3>1, LeastNatural
    <3>3. IsNextHook(c, n) /\ n \in 1..Len(instantiated)
      BY <2>0, <3>2 DEF IsNextHook, moduleNames
    <3> QED BY <1>0, <3>3 DEF LoopIsDone, moduleNames
  <2> QED BY <2>0, <2>1, <2>2
<1> QED BY <1>0, <1>1, <1>2, <1>3, <1>4 DEF StopInv, Precedes

-----------------------------------------------------------------------------
\* The invariant holds before start().
LEMMA KernelInvInit ==
    ASSUME KernelAssumption, KernelInit
    PROVE  KernelInv
<1>1. StartTypes /\ InitWalk /\ AfterInitWalk
  BY DEF KernelInit, StartTypes, InitWalk, AfterInitWalk
<1>2. WalksAreDone
  BY DEF KernelInit, WalksAreDone, ImportsClosed
<1>3. OnlyReachable /\ RecordOrder(instantiated, importModules)
  BY DEF KernelInit, OnlyReachable, RecordOrder, Elements
<1>4. StopInv
  <2>1. visited \in [Callers -> 0..Len(instantiated)]
    BY DEF KernelInit
  <2>2. /\ call \in [Callers -> {"idle", "running", "returned"}]
        /\ hook \in [Callers -> Hooked \cup {NoModule}]
    <3>1. call = [c \in Callers |-> "idle"] /\ hook = [c \in Callers |-> NoModule]
      BY DEF KernelInit
    <3>2. call \in [Callers -> {"idle", "running", "returned"}]
      BY <3>1
    <3>3. hook \in [Callers -> Hooked \cup {NoModule}]
      BY <3>1
    <3> QED BY <3>2, <3>3
  <2>3. stopped \in BOOLEAN /\ running \subseteq Hooked /\ invoked \in Seq(Hooked)
    <3>1. stopped = FALSE /\ running = {} /\ invoked = <<>>
      BY DEF KernelInit
    <3>2. stopped \in BOOLEAN /\ running \subseteq Hooked
      BY <3>1, Zenon
    <3>3. invoked \in Seq(Hooked)
      BY <3>1
    <3> QED BY <3>2, <3>3
  <2>4. StopTypes
    BY <2>1, <2>2, <2>3 DEF StopTypes
  <2> QED BY <2>4 DEF KernelInit, StopInv
<1> QED BY <1>1, <1>2, <1>3, <1>4 DEF KernelInv, StartInv

\* The invariant is inductive: one lemma per action above.
LEMMA KernelInvStep ==
    ASSUME KernelAssumption, KernelInv, [KernelNext]_kernelVars
    PROVE  KernelInv'
<1> USE DEF KernelInv
<1>1. CASE UNCHANGED kernelVars
  <2>1. StartInv'
    BY <1>1, StopKeepsStartInv DEF kernelVars, startVars
  <2>2. StopInv'
    BY <1>1 DEF kernelVars, StopInv, StopTypes, Precedes
  <2> QED BY <2>1, <2>2
<1>2. CASE Start \/ InitImport \/ InitReturns \/ LoadConfiguration
           \/ AfterInitImport \/ AfterInitReturns \/ StartFails
  <2>1. StartInv'
    BY <1>2, StartStep, InitRecordStep, InitSkipStep, InitReturnsStep, LoadConfigurationStep,
       AfterInitImportStep, AfterInitReturnsStep, StartFailsStep
  <2>2. phase \notin {"started", "failed"} /\ UNCHANGED stopVars
    BY <1>2 DEF Start, InitImport, InitReturns, LoadConfiguration, AfterInitImport, AfterInitReturns,
                StartFails
  <2>3. instantiated' \in Seq(Modules)
    BY <2>1 DEF StartInv, StartTypes
  <2> QED BY <2>1, <2>2, <2>3, StartKeepsStopInv
<1>3. CASE \/ \E c \in Callers : Stop(c) \/ CallHook(c) \/ HookTimesOut(c) \/ StopReturns(c)
           \/ \E m \in Modules : HookSettles(m)
  <2>1. UNCHANGED <<importModules, startVars>>
    BY <1>3 DEF Stop, CallHook, HookTimesOut, StopReturns, HookSettles
  <2>2. StartInv'
    BY <2>1, StopKeepsStartInv
  <2>3. StopInv'
    BY <1>3, StopStep, CallHookStep, HookEndsStep, StopReturnsStep
  <2> QED BY <2>2, <2>3
<1> QED BY <1>1, <1>2, <1>3 DEF KernelNext

\* The invariant holds throughout.
LEMMA KernelInvHolds == ASSUME KernelAssumption PROVE KernelSpec => []KernelInv
<1>1. KernelInit => KernelInv
  BY KernelInvInit
<1>2. KernelInv /\ [KernelNext]_kernelVars => KernelInv'
  BY KernelInvStep
<1> QED BY <1>1, <1>2, PTL DEF KernelSpec

\* The variables of the Kernel keep their types.
THEOREM KernelTypeCorrect == ASSUME KernelAssumption PROVE KernelSpec => []KernelTypeOK
<1>1. KernelInv => KernelTypeOK
  BY DEF KernelInv, StartInv, StopInv, StartTypes, StopTypes, KernelTypeOK, Frames
<1> QED BY <1>1, KernelInvHolds, PTL

\* Kernel.start(), on any acyclic import graph: no module's onInit (afterInit) runs
\* before that of a module it imports, however often a module is imported, and a
\* started Kernel has initialised exactly what it recorded, in both walks.
THEOREM StartInitialisesImportsFirst == ASSUME KernelAssumption PROVE KernelSpec => []ImportsFirst
<1>1. ASSUME KernelInv PROVE ImportsFirst
  <2> USE <1>1 DEF KernelInv, StartInv
  <2>1. /\ \A m \in inited : Elements(importModules[m]) \subseteq inited
        /\ \A m \in afterInited : Elements(importModules[m]) \subseteq afterInited
    BY DEF WalksAreDone, ImportsClosed
  <2>2. ASSUME phase = "started" PROVE Elements(instantiated) = inited /\ inited = afterInited
    <3>1. /\ Elements(instantiated) = inited /\ AppModule \in afterInited
          /\ afterInited \subseteq inited /\ ImportsClosed(importModules, afterInited)
      BY <2>2 DEF WalksAreDone
    <3>2. Elements(instantiated) \subseteq afterInited
      BY <3>1 DEF OnlyReachable, StartTypes
    <3> QED BY <3>1, <3>2
  <2> QED BY <2>1, <2>2 DEF ImportsFirst
<1> QED BY <1>1, KernelInvHolds, PTL

\* Kernel.stop(), for any callers, hooks that hang or throw and a start() that may have
\* failed: every hook is called at most once, none is left out when the call that
\* runs them returns, and on a graph without shared imports outer modules come first.
THEOREM StopIsOrderlyHolds == ASSUME KernelAssumption PROVE KernelSpec => []StopIsOrderly
<1>1. ASSUME KernelInv PROVE StopIsOrderly
  <2> USE <1>1 DEF KernelInv
  <2>1. /\ invoked \in Seq(Hooked) /\ instantiated \in Seq(Modules)
        /\ RecordOrder(instantiated, importModules)
    BY DEF StopInv, StopTypes, StartInv, StartTypes
  <2>2. ASSUME NEW i \in 1..Len(invoked), NEW j \in 1..Len(invoked), i < j
        PROVE  \E p, q \in 1..Len(instantiated) : p < q /\ instantiated[p] = invoked[i] /\ instantiated[q] = invoked[j]
    BY <2>2 DEF StopInv, Precedes
  <2>3. HooksAtMostOnce
    <3>1. ASSUME NEW i \in 1..Len(invoked), NEW j \in 1..Len(invoked), i < j
          PROVE  invoked[i] # invoked[j]
      <4>1. PICK p \in 1..Len(instantiated), q \in 1..Len(instantiated) :
                p < q /\ instantiated[p] = invoked[i] /\ instantiated[q] = invoked[j]
        BY <2>2, <3>1
      <4>2. instantiated[p] # instantiated[q]
        BY <2>1, <4>1 DEF RecordOrder
      <4> QED BY <4>1, <4>2
    <3>2. \A i, j \in 1..Len(invoked) : i < j \/ j < i \/ i = j
      BY <2>1
    <3> QED BY <3>1, <3>2 DEF HooksAtMostOnce
  <2>4. NoHookLeftOut
    BY DEF StopInv, StopTypes, NoHookLeftOut
  <2>5. OuterToInner
    <3> SUFFICES ASSUME \A m, n \in Modules : m # n => Elements(importModules[m]) \cap Elements(importModules[n]) = {},
                        NEW i \in 1..Len(invoked), NEW j \in 1..Len(invoked), i < j,
                        invoked[i] \in Elements(importModules[invoked[j]])
                 PROVE  FALSE
      BY DEF OuterToInner
    <3>1. PICK p \in 1..Len(instantiated), q \in 1..Len(instantiated) :
              p < q /\ instantiated[p] = invoked[i] /\ instantiated[q] = invoked[j]
      BY <2>2
    <3>2. instantiated[p] \in Elements(importModules[instantiated[q]]) /\ instantiated[q] \in Modules
      BY <2>1, <3>1
    <3>3. CASE p = 1
      <4>1. PICK rank \in Ranks(importModules) : TRUE
        BY GraphFacts DEF StartInv
      <4>2. instantiated[p] = AppModule /\ rank[instantiated[q]] < rank[AppModule]
        BY <2>1, <3>1, <3>3 DEF RecordOrder
      <4>3. /\ rank[AppModule] < rank[instantiated[q]]
            /\ rank[AppModule] \in Nat /\ rank[instantiated[q]] \in Nat
        BY <3>2, <4>2, GraphFacts, RankFacts DEF StartInv, KernelAssumption
      <4> QED BY <4>2, <4>3
    <3>4. CASE p # 1
      <4>1. PICK o \in 1..(p - 1) : instantiated[p] \in Elements(importModules[instantiated[o]])
        BY <2>1, <3>4 DEF RecordOrder
      <4>2. o \in 1..Len(instantiated) /\ o # q
        BY <2>1, <3>1
      <4>3. instantiated[o] \in Modules /\ instantiated[o] # instantiated[q]
        BY <2>1, <4>2 DEF RecordOrder
      <4> QED BY <3>2, <4>1, <4>3
    <3> QED BY <3>3, <3>4
  <2> QED BY <2>3, <2>4, <2>5 DEF StopIsOrderly
<1> QED BY <1>1, KernelInvHolds, PTL

-----------------------------------------------------------------------------
(* Kernel.verifyInstantiation().                                           *)

Results == [phase : {Phases[i] : i \in 1..7},
            status : {"Passed", "PassedWithWarnings", "Failed", "Skipped"}]

\* The report so far names the phases that are over in boot order; unless it already
\* says Failed, all of them passed, and the definitions the load needs are registered.
InBootOrder(results) == \A i \in 1..Len(results) : results[i].phase = Phases[i]
SaysFailed(results) == \E i \in 1..Len(results) : results[i].status = "Failed"
AllPassed(results) ==
    \A i \in 1..Len(results) : i <= 6 => results[i].status \in {"Passed", "PassedWithWarnings"}
VerifyInv ==
    /\ pc \in 1..Returned
    /\ phases \in Seq(Results)
    /\ Len(phases) = IF pc = Returned THEN 7 ELSE pc - 1
    /\ InBootOrder(phases)
    /\ SaysFailed(phases) \/ (AllPassed(phases) /\ (pc > 2 => configurationManager))

\* verifyInstantiation() has seven phases.
LEMMA PhasesFacts == Len(Phases) = 7 /\ Returned = 8
BY DEF Phases, Returned

\* A phase is recorded and the next one follows.
LEMMA GoOnFacts ==
    ASSUME VerifyInv, NEW n \in 1..7, pc = n,
           NEW status \in {"Passed", "PassedWithWarnings", "Failed", "Skipped"}, GoOn(n, status)
    PROVE  /\ pc' \in 1..Returned /\ phases' \in Seq(Results)
           /\ Len(phases') = IF pc' = Returned THEN 7 ELSE pc' - 1
           /\ pc' = n + 1
           /\ InBootOrder(phases')
           /\ SaysFailed(phases) \/ status = "Failed" => SaysFailed(phases')
           /\ AllPassed(phases) /\ (n = 7 \/ status \in {"Passed", "PassedWithWarnings"}) => AllPassed(phases')
<1>1. PhaseResult(n, status) \in Results /\ PhaseResult(n, status).phase = Phases[n] /\ PhaseResult(n, status).status = status
  BY DEF PhaseResult, Results
<1>2. phases \in Seq(Results) /\ Len(phases) = n - 1
  BY PhasesFacts DEF VerifyInv
<1>3. /\ phases' \in Seq(Results) /\ Len(phases') = n
      /\ \A i \in 1..(n - 1) : phases'[i] = phases[i]
      /\ phases'[n] = PhaseResult(n, status)
  BY <1>1, <1>2 DEF GoOn
<1>4. pc' = n + 1 /\ pc' \in 1..Returned /\ Len(phases') = IF pc' = Returned THEN 7 ELSE pc' - 1
  BY <1>3, PhasesFacts DEF GoOn
<1>5. InBootOrder(phases')
  BY <1>1, <1>2, <1>3 DEF VerifyInv, InBootOrder
<1>6. SaysFailed(phases) \/ status = "Failed" => SaysFailed(phases')
  BY <1>1, <1>2, <1>3 DEF SaysFailed
<1>7. AllPassed(phases) /\ (n = 7 \/ status \in {"Passed", "PassedWithWarnings"}) => AllPassed(phases')
  BY <1>1, <1>2, <1>3 DEF AllPassed
<1> QED BY <1>3, <1>4, <1>5, <1>6, <1>7

\* A phase fails and ends the report: the rest is filled in as skipped.
LEMMA HaltFacts ==
    ASSUME VerifyInv, NEW n \in 1..6, pc = n, Halt(n)
    PROVE  VerifyInv'
<1> DEFINE failed == Append(phases, PhaseResult(n, "Failed"))
           rest == skipRemainingPhases(n + 1)
<1>1. PhaseResult(n, "Failed") \in Results /\ PhaseResult(n, "Failed").phase = Phases[n] /\ PhaseResult(n, "Failed").status = "Failed"
  BY DEF PhaseResult, Results
<1>2. phases \in Seq(Results) /\ Len(phases) = n - 1
  BY PhasesFacts DEF VerifyInv
<1>3. /\ failed \in Seq(Results) /\ Len(failed) = n
      /\ \A i \in 1..(n - 1) : failed[i] = phases[i]
      /\ failed[n] = PhaseResult(n, "Failed")
  BY <1>1, <1>2
<1>4. rest = [i \in 1..(7 - n) |-> PhaseResult(n + i, "Skipped")]
  <2>1. Len(Phases) + 1 - (n + 1) = 7 - n /\ \A i \in 1..(7 - n) : n + 1 - 1 + i = n + i
    BY PhasesFacts
  <2> QED BY <2>1 DEF skipRemainingPhases
<1>5. \A i \in 1..(7 - n) : PhaseResult(n + i, "Skipped") \in Results
  BY DEF PhaseResult, Results
<1>6. /\ rest \in Seq(Results) /\ Len(rest) = 7 - n
      /\ \A i \in 1..(7 - n) : rest[i] = PhaseResult(n + i, "Skipped")
  <2> HIDE DEF rest
  <2>0. 7 - n \in Nat
    OBVIOUS
  <2>1. rest \in [1..(7 - n) -> Results]
    BY <1>4, <1>5
  <2>2. rest \in Seq(Results) /\ Len(rest) = 7 - n
    BY <2>0, <2>1
  <2> QED BY <1>4, <2>2
<1>7. phases' = failed \o rest /\ pc' = Returned
  BY DEF Halt
<1> HIDE DEF failed, rest
<1>8. /\ phases' \in Seq(Results) /\ Len(phases') = 7
      /\ \A i \in 1..n : phases'[i] = failed[i]
      /\ \A i \in (n + 1)..7 : phases'[i] = rest[i - n]
  BY <1>3, <1>6, <1>7
<1>9. \A i \in (n + 1)..7 : phases'[i].phase = Phases[i]
  <2> SUFFICES ASSUME NEW i \in (n + 1)..7 PROVE phases'[i].phase = Phases[i]
    OBVIOUS
  <2>1. i - n \in 1..(7 - n) /\ n + (i - n) = i
    OBVIOUS
  <2>2. phases'[i] = PhaseResult(i, "Skipped")
    BY <1>6, <1>8, <2>1
  <2> QED BY <2>2 DEF PhaseResult
<1>10. \A i \in 1..n : phases'[i].phase = Phases[i]
  <2>1. \A i \in 1..(n - 1) : phases[i].phase = Phases[i]
    BY <1>2 DEF VerifyInv, InBootOrder
  <2> QED BY <1>1, <1>3, <1>8, <2>1
<1>11. InBootOrder(phases')
  BY <1>8, <1>9, <1>10 DEF InBootOrder
<1>12. SaysFailed(phases')
  BY <1>1, <1>3, <1>8 DEF SaysFailed
<1> QED BY <1>7, <1>8, <1>11, <1>12, PhasesFacts DEF VerifyInv

\* The invariant is inductive.
LEMMA VerifyInvStep ==
    ASSUME VerifyInv, [VerifyNext]_verifyVars
    PROVE  VerifyInv'
<1>0. ASSUME NEW n \in {3, 4, 5}, runPhase(n), UNCHANGED configurationManager PROVE VerifyInv'
  BY <1>0, GoOnFacts, HaltFacts DEF runPhase, VerifyInv
<1>1. CASE ModuleRegistration
  BY <1>1, GoOnFacts, HaltFacts DEF ModuleRegistration, VerifyInv
<1>2. CASE ConfigurationCheck
  BY <1>2, GoOnFacts, HaltFacts DEF ConfigurationCheck, VerifyInv
<1>3. CASE ConfigurationLoad
  BY <1>0, <1>3, GoOnFacts DEF ConfigurationLoad, VerifyInv
<1>4. CASE ServiceTagRegistration \/ AfterInit
  BY <1>0, <1>4 DEF ServiceTagRegistration, AfterInit
<1>5. CASE BootProbe
  BY <1>5, GoOnFacts DEF BootProbe, VerifyInv
<1>6. CASE InstantiationTest
  BY <1>6 DEF InstantiationTest, VerifyInv
<1>7. CASE InstantiationTests
  <2>1. PICK status \in {"Passed", "Skipped"} : GoOn(7, status) /\ pc = 7
    BY <1>7, PhasesFacts DEF InstantiationTests, GoOn
  <2> QED BY <1>7, <2>1, GoOnFacts DEF InstantiationTests, VerifyInv
<1>8. CASE UNCHANGED verifyVars
  BY <1>8 DEF verifyVars, VerifyInv
<1> QED BY <1>1, <1>2, <1>3, <1>4, <1>5, <1>6, <1>7, <1>8 DEF VerifyNext

\* Kernel.verifyInstantiation(), for all options and all combinations of failures: the
\* finished report names every phase once and in boot order, and when its overall
\* status is not Failed every phase that start() runs ran and passed.
THEOREM ReportIsFaithfulHolds == VerifySpec => []ReportIsFaithful
<1>1. VerifyInit => VerifyInv
  BY PhasesFacts DEF VerifyInit, VerifyInv, InBootOrder, AllPassed
<1>2. VerifyInv /\ [VerifyNext]_verifyVars => VerifyInv'
  BY VerifyInvStep
<1>3. VerifyInv => ReportIsFaithful
  <2> SUFFICES ASSUME VerifyInv PROVE ReportIsFaithful
    OBVIOUS
  <2>1. ReportIsComplete
    BY PhasesFacts DEF VerifyInv, ReportIsComplete, InBootOrder
  <2>2. CleanReportMeansBootable
    <3> SUFFICES ASSUME pc = Returned, overallStatus # "Failed"
                 PROVE  /\ \A i \in 1..6 : phases[i].status \in {"Passed", "PassedWithWarnings"}
                        /\ ~FailedTest
      BY DEF CleanReportMeansBootable
    <3>1. ~SaysFailed(phases) /\ ~FailedTest
      BY DEF overallStatus, SomePhase, SaysFailed
    <3> QED BY <3>1 DEF VerifyInv, AllPassed
  <2> QED BY <2>1, <2>2 DEF ReportIsFaithful
<1> QED BY <1>1, <1>2, <1>3, PTL DEF VerifySpec
=============================================================================
