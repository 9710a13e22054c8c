---------------------------- MODULE RouterProofs ----------------------------
(***************************************************************************)
(* Proofs about Router: no controller method is called before the checks   *)
(* of its route, no call gets the cached arguments of a request that reads *)
(* differently, and what is handed out is the answer the steps of the      *)
(* request call for, whatever number of requests are in flight and however *)
(* their steps interleave; and only a singleton authenticator can go by    *)
(* the options of another request.                                         *)
(***************************************************************************)
EXTENDS Router, SequenceTheorems, TLAPS

\* The part of the state the two properties depend on has its type.
ControlTypes ==
    /\ isActive \in BOOLEAN
    /\ keyname \in [Requests -> Keys]
    /\ routes \in [Keys -> Nodes \cup {NoNode, Unset}]
    /\ context \in [Instances -> Nodes \cup {NoNode}]
    /\ pc \in [Requests -> Labels]
    /\ node \in [Requests -> Nodes \cup {NoNode}]
    /\ options \in [Requests -> Nodes \cup {NoNode}]
    /\ verdicts \in [Requests -> Seq({"allow", "deny", "error"})]
    /\ DOMAIN arguments = Requests

\* What the cache says about a route is what the route tree says.
RoutesAreFound == \A k \in Keys : routes[k] \in {Unset, NodeOf[k]}

Found(r) == node[r] \in Nodes /\ node[r] = NodeOf[keyname[r]]
Checked(r) == node[r] \in Authenticated => options[r] # NoNode
Guarded(r) ==
    /\ node[r] = NodeOf[keyname[r]]
    /\ Checked(r)
    /\ Len(verdicts[r]) = Guards[node[r]]
    /\ \A i \in DOMAIN verdicts[r] : verdicts[r][i] = "allow"

\* What is known about a request from where it is.
Stage(r) ==
    /\ pc[r] \in {"new", "authenticate", "guards"} => arguments[r] = NoArguments
    /\ pc[r] \in {"new", "authenticate"} => verdicts[r] = <<>>
    /\ pc[r] = "authenticate" => Found(r) /\ context[AuthenticatorOf(r)] \in Nodes
    /\ pc[r] = "guards" => /\ Found(r) /\ Checked(r)
                           /\ Len(verdicts[r]) <= Guards[node[r]]
    /\ pc[r] \in {"interceptRequest", "arguments", "controller"} => Guarded(r)
    /\ arguments[r] # NoArguments => Guarded(r)

GuardInv == ControlTypes /\ RoutesAreFound /\ \A r \in Requests : Stage(r)

-----------------------------------------------------------------------------
\* The router starts with an empty cache and untouched requests.
LEMMA GuardInvInit == ASSUME Init, Keynames \subseteq [Requests -> Keys]
                      PROVE  GuardInv
<1>1. ControlTypes
  BY DEF Init, ControlTypes, Labels
<1>2. RoutesAreFound
  BY DEF Init, RoutesAreFound
<1>3. \A r \in Requests : Stage(r)
  BY DEF Init, Stage
<1> QED BY <1>1, <1>2, <1>3 DEF GuardInv

\* Where a request is once the checks are behind it, or failed.
Late == Labels \ {"new", "authenticate", "guards", "interceptRequest",
                  "arguments", "controller"}

\* A step that decides nothing, and leaves the request where it is or takes it
\* to where nothing more is decided, keeps the invariant.
LEMMA LateStep ==
    ASSUME GuardInv, NEW r \in Requests, UNCHANGED kept,
           \/ UNCHANGED pc
           \/ \E l \in Late : pc' = [pc EXCEPT ![r] = l]
    PROVE  GuardInv'
<1>1. UNCHANGED <<isActive, keyname, routes, context, node, options, verdicts, arguments>>
  BY DEF kept, input, shared
<1>2. ControlTypes' /\ RoutesAreFound'
  BY <1>1 DEF GuardInv, ControlTypes, RoutesAreFound, Late
<1>3. ASSUME NEW q \in Requests PROVE Stage(q)'
  <2>1. Stage(q) /\ pc \in [Requests -> Labels]
    BY DEF GuardInv, ControlTypes
  <2>2. pc'[q] = pc[q] \/ pc'[q] \in Late
    BY <2>1
  <2>3. UNCHANGED <<Found(q), Checked(q), Guarded(q), context[AuthenticatorOf(q)]>>
    BY <1>1 DEF Found, Checked, Guarded, AuthenticatorOf
  <2> QED BY <1>1, <2>1, <2>2, <2>3 DEF Stage, Late
<1> QED BY <1>2, <1>3 DEF GuardInv

\* A step of one request says nothing about another one: of what a stage
\* mentions only the context of a singleton is shared.
LEMMA OtherRequests ==
    ASSUME GuardInv, NEW r \in Requests, NEW q \in Requests, q # r,
           UNCHANGED keyname, pc'[q] = pc[q], node'[q] = node[q],
           options'[q] = options[q], verdicts'[q] = verdicts[q],
           arguments'[q] = arguments[q],
           \/ UNCHANGED context
           \/ \E n \in Nodes : context' = [context EXCEPT ![AuthenticatorOf(r)] = n]
    PROVE  Stage(q)'
<1>1. Stage(q) /\ context \in [Instances -> Nodes \cup {NoNode}]
  BY DEF GuardInv, ControlTypes
<1>2. AuthenticatorOf(q) \in Instances /\ AuthenticatorOf(q)' = AuthenticatorOf(q)
  BY DEF AuthenticatorOf, Instances
<1>3. context[AuthenticatorOf(q)] \in Nodes => context'[AuthenticatorOf(q)] \in Nodes
  BY <1>1, <1>2
<1>4. /\ Found(q)' = Found(q) /\ Checked(q)' = Checked(q)
      /\ Guarded(q)' = Guarded(q)
  BY DEF Found, Checked, Guarded
<1> QED BY <1>1, <1>2, <1>3, <1>4 DEF Stage

\* The lookup finds what the tree has, from the cache or without it.
LEMMA LookupFinds ==
    ASSUME GuardInv, NEW r \in Requests, Lookup(r)
    PROVE  /\ node'[r] = NodeOf[keyname[r]]
           /\ node' = [node EXCEPT ![r] = NodeOf[keyname[r]]]
           /\ NodeOf[keyname[r]] \in Nodes \cup {NoNode}
           /\ routes' \in [Keys -> Nodes \cup {NoNode, Unset}]
           /\ RoutesAreFound'
           /\ verdicts[r] = <<>> /\ arguments[r] = NoArguments
           /\ UNCHANGED <<keyname, isActive, options, verdicts, arguments>>
<1>1. /\ keyname[r] \in Keys /\ NodeOf[keyname[r]] \in Nodes \cup {NoNode}
      /\ node \in [Requests -> Nodes \cup {NoNode}]
      /\ routes \in [Keys -> Nodes \cup {NoNode, Unset}]
  BY RouterAssumption DEF GuardInv, ControlTypes
<1>2. MethodNode(keyname[r]) = NodeOf[keyname[r]]
  BY <1>1 DEF GuardInv, RoutesAreFound, MethodNode
<1>3. node' = [node EXCEPT ![r] = NodeOf[keyname[r]]]
  BY <1>2 DEF Lookup
<1>4. routes' = routes \/ routes' = [routes EXCEPT ![keyname[r]] = NodeOf[keyname[r]]]
  BY <1>2 DEF Lookup
<1>5. routes' \in [Keys -> Nodes \cup {NoNode, Unset}] /\ RoutesAreFound'
  BY <1>1, <1>4 DEF GuardInv, RoutesAreFound
<1>6. Stage(r) /\ pc[r] = "new"
  BY DEF GuardInv, Lookup
<1>7. UNCHANGED <<keyname, isActive, options, verdicts, arguments>>
  BY DEF Lookup, input
<1> QED BY <1>1, <1>3, <1>5, <1>6, <1>7 DEF Stage

\* The first steps of a request keep the invariant.
LEMMA BeginStep ==
    ASSUME GuardInv, NEW r \in Requests, Begin(r)
    PROVE  GuardInv'
<1> USE RouterAssumption
<1>1. Lookup(r)
  BY DEF Begin, NotFound, ControllerNotResolved, NotAuthenticated,
         AuthenticatorNotCreated, SetContext
<1>2. /\ node' = [node EXCEPT ![r] = NodeOf[keyname[r]]]
      /\ NodeOf[keyname[r]] \in Nodes \cup {NoNode}
      /\ routes' \in [Keys -> Nodes \cup {NoNode, Unset}]
      /\ RoutesAreFound'
      /\ verdicts[r] = <<>> /\ arguments[r] = NoArguments
      /\ UNCHANGED <<keyname, isActive, options, verdicts, arguments>>
  BY <1>1, LookupFinds
<1>3. /\ pc \in [Requests -> Labels] /\ node \in [Requests -> Nodes \cup {NoNode}]
      /\ context \in [Instances -> Nodes \cup {NoNode}]
      /\ AuthenticatorOf(r) \in Instances
  BY DEF GuardInv, ControlTypes, AuthenticatorOf, Instances
<1>4. CASE \E l \in Late : pc' = [pc EXCEPT ![r] = l] /\ UNCHANGED context
  <2>1. PICK l \in Late : pc' = [pc EXCEPT ![r] = l] /\ UNCHANGED context
    BY <1>4
  <2>2. ControlTypes'
    BY <1>2, <1>3, <2>1 DEF GuardInv, ControlTypes, Late
  <2>3. Stage(r)'
    BY <1>2, <1>3, <2>1 DEF Stage, Late
  <2>4. ASSUME NEW q \in Requests, q # r PROVE Stage(q)'
    BY <1>2, <1>3, <2>1, <2>4, OtherRequests
  <2> QED BY <1>2, <2>2, <2>3, <2>4 DEF GuardInv
<1>5. CASE NotAuthenticated(r)
  <2>1. pc' = [pc EXCEPT ![r] = "guards"] /\ UNCHANGED context
    BY <1>5 DEF NotAuthenticated, GoOn
  <2>2. node'[r] \in Nodes \ Authenticated
    BY <1>5 DEF NotAuthenticated
  <2>3. ControlTypes'
    BY <1>2, <1>3, <2>1 DEF GuardInv, ControlTypes, Labels
  <2>4. Found(r)' /\ Checked(r)' /\ Len(verdicts'[r]) <= Guards[node'[r]]
    BY <1>2, <1>3, <2>2 DEF Found, Checked
  <2>5. Stage(r)'
    BY <1>2, <1>3, <2>1, <2>4 DEF Stage
  <2>6. ASSUME NEW q \in Requests, q # r PROVE Stage(q)'
    BY <1>2, <1>3, <2>1, <2>6, OtherRequests
  <2> QED BY <1>2, <2>3, <2>5, <2>6 DEF GuardInv
<1>6. CASE SetContext(r)
  <2>1. /\ pc' = [pc EXCEPT ![r] = "authenticate"]
        /\ context' = [context EXCEPT ![AuthenticatorOf(r)] = node'[r]]
        /\ node'[r] \in Nodes
    BY <1>6 DEF SetContext, GoOn
  <2>2. ControlTypes'
    BY <1>2, <1>3, <2>1 DEF GuardInv, ControlTypes, Labels
  <2>3. AuthenticatorOf(r)' = AuthenticatorOf(r)
    BY DEF AuthenticatorOf
  <2>4. Found(r)' /\ context'[AuthenticatorOf(r)'] \in Nodes
    BY <1>2, <1>3, <2>1, <2>3 DEF Found
  <2>5. Stage(r)'
    BY <1>2, <1>3, <2>1, <2>4 DEF Stage
  <2>6. ASSUME NEW q \in Requests, q # r PROVE Stage(q)'
    BY <1>2, <1>3, <2>1, <2>6, OtherRequests
  <2> QED BY <1>2, <2>2, <2>5, <2>6 DEF GuardInv
<1>7. NotFound(r) \/ ControllerNotResolved(r) \/ AuthenticatorNotCreated(r)
      => \E l \in Late : pc' = [pc EXCEPT ![r] = l] /\ UNCHANGED context
  BY DEF NotFound, ControllerNotResolved, AuthenticatorNotCreated, Fail, Enter,
         GoOn, Late, Labels, HookNames
<1> QED BY <1>4, <1>5, <1>6, <1>7 DEF Begin

\* Authentication and the guards.
LEMMA CheckStep ==
    ASSUME GuardInv, NEW r \in Requests,
           Identified(r) \/ GuardAnswers(r) \/ GuardThrowsTyped(r)
    PROVE  GuardInv'
<1> USE RouterAssumption
<1>1. /\ pc \in [Requests -> Labels] /\ node \in [Requests -> Nodes \cup {NoNode}]
      /\ options \in [Requests -> Nodes \cup {NoNode}]
      /\ verdicts \in [Requests -> Seq({"allow", "deny", "error"})]
      /\ Stage(r)
  BY DEF GuardInv, ControlTypes
<1>2. UNCHANGED <<isActive, keyname, routes, context, node, arguments>>
  BY DEF Identified, GuardAnswers, GuardThrowsTyped, Ask, input, shared
<1>3. RoutesAreFound'
  BY <1>2 DEF GuardInv, RoutesAreFound
<1>4. CASE Identified(r)
  <2>1. /\ pc[r] = "authenticate" /\ pc' = [pc EXCEPT ![r] = "guards"]
        /\ options' = [options EXCEPT ![r] = context[AuthenticatorOf(r)]]
        /\ UNCHANGED verdicts
    BY <1>4 DEF Identified, GoOn
  <2>2. Found(r) /\ context[AuthenticatorOf(r)] \in Nodes /\ verdicts[r] = <<>>
        /\ arguments[r] = NoArguments
    BY <1>1, <2>1 DEF Stage
  <2>3. ControlTypes'
    BY <1>1, <1>2, <2>1, <2>2 DEF GuardInv, ControlTypes, Labels
  <2>4. Found(r)' /\ Checked(r)' /\ Len(verdicts'[r]) <= Guards[node'[r]]
    BY <1>1, <1>2, <2>1, <2>2 DEF Found, Checked
  <2>5. Stage(r)'
    BY <1>1, <1>2, <2>1, <2>2, <2>4 DEF Stage
  <2>6. ASSUME NEW q \in Requests, q # r PROVE Stage(q)'
    BY <1>1, <1>2, <2>1, <2>6, OtherRequests
  <2> QED BY <1>3, <2>3, <2>5, <2>6 DEF GuardInv
<1>5. CASE GuardAnswers(r) \/ GuardThrowsTyped(r)
  <2>1. PICK v \in {"allow", "deny", "error"} :
          verdicts' = [verdicts EXCEPT ![r] = Append(@, v)]
    BY <1>5 DEF GuardAnswers, GuardThrowsTyped
  <2>2. /\ pc[r] = "guards" /\ Len(verdicts[r]) < Guards[node[r]]
        /\ UNCHANGED options
        /\ pc' = pc \/ pc' = [pc EXCEPT ![r] = "interceptError"]
    BY <1>5 DEF GuardAnswers, GuardThrowsTyped, Ask, Fail, Enter
  <2>3. Found(r) /\ Checked(r) /\ arguments[r] = NoArguments
    BY <1>1, <2>2 DEF Stage
  <2>4. /\ verdicts' \in [Requests -> Seq({"allow", "deny", "error"})]
        /\ Len(verdicts'[r]) <= Guards[node[r]]
    BY <1>1, <2>1, <2>2, <2>3 DEF Found
  <2>5. ControlTypes'
    BY <1>1, <1>2, <2>2, <2>4 DEF GuardInv, ControlTypes, Labels, HookNames
  <2>6. Found(r)' /\ Checked(r)'
    BY <1>2, <2>2, <2>3 DEF Found, Checked
  <2>7. Stage(r)'
    BY <1>1, <1>2, <2>2, <2>3, <2>4, <2>6 DEF Stage
  <2>8. ASSUME NEW q \in Requests, q # r PROVE Stage(q)'
    BY <1>1, <1>2, <2>1, <2>2, <2>8, OtherRequests
  <2> QED BY <1>3, <2>5, <2>7, <2>8 DEF GuardInv
<1> QED BY <1>4, <1>5

\* A request all of whose guards allowed it goes on to the interceptors.
LEMMA AllowedStep ==
    ASSUME GuardInv, NEW r \in Requests, GuardsDone(r)
    PROVE  GuardInv'
<1>1. pc \in [Requests -> Labels] /\ Stage(r)
  BY DEF GuardInv, ControlTypes
<1>2. UNCHANGED kept /\ pc[r] = "guards" /\ Len(verdicts[r]) = Guards[node[r]]
  BY DEF GuardsDone, kept
<1>3. CASE isAuthorized(verdicts[r])
  <2>1. pc' = [pc EXCEPT ![r] = "interceptRequest"]
    BY <1>3 DEF GuardsDone, Enter
  <2>2. UNCHANGED <<isActive, keyname, routes, context, node, options, verdicts, arguments>>
    BY <1>2 DEF kept, input, shared
  <2>3. ControlTypes' /\ RoutesAreFound'
    BY <1>1, <2>1, <2>2 DEF GuardInv, ControlTypes, RoutesAreFound, Labels, HookNames
  <2>4. Guarded(r)'
    BY <1>1, <1>2, <1>3, <2>2 DEF Stage, Found, Checked, Guarded, isAuthorized
  <2>5. Stage(r)'
    BY <1>1, <2>1, <2>4 DEF Stage
  <2>6. ASSUME NEW q \in Requests, q # r PROVE Stage(q)'
    BY <1>1, <2>1, <2>2, <2>6, OtherRequests
  <2> QED BY <2>3, <2>5, <2>6 DEF GuardInv
<1>4. CASE ~isAuthorized(verdicts[r])
  <2>1. \E l \in Late : pc' = [pc EXCEPT ![r] = l]
    BY <1>4 DEF GuardsDone, Fail, Enter, Late, Labels, HookNames
  <2> QED BY <1>2, <2>1, LateStep
<1> QED BY <1>3, <1>4

\* The arguments are found or resolved, and the controller is called.
LEMMA CallStep ==
    ASSUME GuardInv, NEW r \in Requests,
           ArgumentsWereCached(r) \/ ArgumentsNotCached(r) \/ ArgumentsResolved(r)
    PROVE  GuardInv'
<1>1. pc \in [Requests -> Labels] /\ Stage(r) /\ DOMAIN arguments = Requests
  BY DEF GuardInv, ControlTypes
<1>2. /\ UNCHANGED <<isActive, keyname, routes, context, node, options, verdicts>>
      /\ pc[r] \in {"interceptRequest", "arguments"}
      /\ \E l \in {"arguments", "controller"} : pc' = [pc EXCEPT ![r] = l]
      /\ DOMAIN arguments' = Requests
      /\ \A q \in Requests : q # r => arguments'[q] = arguments[q]
  BY <1>1 DEF ArgumentsWereCached, ArgumentsNotCached, ArgumentsResolved,
         RequestIntercepted, GoOn, input, shared
<1>3. ControlTypes' /\ RoutesAreFound'
  BY <1>1, <1>2 DEF GuardInv, ControlTypes, RoutesAreFound, Labels
<1>4. Guarded(r)
  BY <1>1, <1>2 DEF Stage
<1>5. Guarded(r)'
  BY <1>2, <1>4 DEF Guarded, Checked
<1>6. Stage(r)'
  BY <1>1, <1>2, <1>5 DEF Stage
<1>7. ASSUME NEW q \in Requests, q # r PROVE Stage(q)'
  BY <1>1, <1>2, <1>7, OtherRequests
<1> QED BY <1>3, <1>6, <1>7 DEF GuardInv

\* Every other step decides nothing.
LEMMA OtherStep ==
    ASSUME GuardInv, NEW r \in Requests,
           \/ AuthenticationFails(r) \/ InterceptRequest(r) \/ InterceptResponse(r)
           \/ InterceptError(r) \/ Resolve(r) \/ ErrorIntercepted(r) \/ HashThrows(r)
           \/ ArgumentsFail(r) \/ ControllerReturns(r) \/ ControllerThrows(r)
    PROVE  GuardInv'
<1>1. UNCHANGED kept
  BY DEF AuthenticationFails, InterceptRequest, InterceptResponse, InterceptError,
         Call, Resolve, ErrorIntercepted, HashThrows, RequestIntercepted,
         ArgumentsFail, ControllerReturns, ControllerThrows, kept
<1>2. \/ UNCHANGED pc
      \/ \E l \in Late : pc' = [pc EXCEPT ![r] = l]
  BY DEF AuthenticationFails, InterceptRequest, InterceptResponse, InterceptError,
         Return, Throw, Resolve, ErrorIntercepted, HashThrows, ArgumentsFail,
         ControllerReturns, ControllerThrows, Fail, GoOn, Enter, Late, Labels, HookNames
<1> QED BY <1>1, <1>2, LateStep

\* No step at all.
LEMMA NoStep == ASSUME GuardInv, UNCHANGED vars PROVE GuardInv'
BY DEF vars, GuardInv, ControlTypes, RoutesAreFound, Stage, Found, Checked, Guarded,
       AuthenticatorOf, input

-----------------------------------------------------------------------------
\* The invariant holds throughout.
LEMMA GuardInvStep == ASSUME GuardInv, [Next]_vars PROVE GuardInv'
<1>1. CASE UNCHANGED vars
  BY <1>1, NoStep
<1>2. ASSUME NEW r \in Requests, Begin(r) \/ Continue(r) PROVE GuardInv'
  BY <1>2, BeginStep, CheckStep, AllowedStep, CallStep, OtherStep DEF Continue
<1>3. ASSUME NEW r \in Requests, UrlNotParsed(r) PROVE GuardInv'
  BY <1>3, LateStep DEF UrlNotParsed, GoOn, Late, Labels
<1> QED BY <1>1, <1>2, <1>3 DEF Next

\* A controller method is never called for a request that was not looked up,
\* authenticated and allowed by every guard of its route.
THEOREM ControllersAreGuarded == Spec => []ControllerIsGuarded
<1>1. Init => GuardInv
  BY GuardInvInit, RouterAssumption
<1>2. GuardInv /\ [Next]_vars => GuardInv'
  BY GuardInvStep
<1>3. GuardInv => ControllerIsGuarded
  BY DEF GuardInv, Stage, Guarded, Checked, ControllerIsGuarded
<1> QED BY <1>1, <1>2, <1>3, PTL DEF Spec

-----------------------------------------------------------------------------
\* What the cache holds for a path and a hash was made from a request with both.
CacheTypes ==
    /\ isActive \in BOOLEAN
    /\ keyname \in [Requests -> Keys]
    /\ hash \in [Requests -> Hashes \cup {Unhashable, InvalidUrl}]
    /\ identity \in [Requests -> Identities \cup {NoIdentity}]
    /\ cached \in [Keys -> [Hashes -> Arguments \cup {NoArguments}]]
    /\ arguments \in [Requests -> Arguments \cup {NoArguments}]
CacheFits ==
    \A k \in Keys, h \in Hashes : cached[k][h] # NoArguments =>
        keyname[cached[k][h].of] = k /\ hash[cached[k][h].of] = h
FitInv == CacheTypes /\ CacheFits /\ ArgumentsFitRequest

\* Only three steps touch the cache, the arguments or the identity.
LEMMA FitInvStep == ASSUME FitInv, GuardInv, [Next]_vars PROVE FitInv'
<1> USE RouterAssumption
<1>1. ASSUME UNCHANGED <<keyname, hash, isActive, identity, cached, arguments>>
      PROVE  FitInv'
  BY <1>1 DEF FitInv, CacheTypes, CacheFits, ArgumentsFitRequest
<1>2. ASSUME NEW r \in Requests, Identified(r) PROVE FitInv'
  <2>1. /\ UNCHANGED <<keyname, hash, isActive, cached, arguments>>
        /\ \E i \in Identities \cup {NoIdentity} : identity' = [identity EXCEPT ![r] = i]
        /\ arguments[r] = NoArguments
    BY <1>2 DEF Identified, input, shared, GuardInv, Stage
  <2>2. CacheTypes' /\ CacheFits'
    BY <2>1 DEF FitInv, CacheTypes, CacheFits
  <2>3. ArgumentsFitRequest'
    BY <2>1 DEF FitInv, CacheTypes, ArgumentsFitRequest
  <2> QED BY <2>2, <2>3 DEF FitInv
<1>3. ASSUME NEW r \in Requests, ArgumentsWereCached(r) PROVE FitInv'
  <2>1. /\ UNCHANGED <<keyname, hash, isActive, cached, identity>>
        /\ CachedArguments(r) # NoArguments
        /\ arguments' = [arguments EXCEPT ![r] = CachedArguments(r)]
    BY <1>3 DEF ArgumentsWereCached, RequestIntercepted, input, shared
  <2>2. /\ isActive /\ hash[r] \in Hashes /\ keyname[r] \in Keys
        /\ CachedArguments(r) = cached[keyname[r]][hash[r]]
    BY <2>1 DEF FitInv, CacheTypes, CachedArguments
  <2>3. CacheTypes' /\ CacheFits'
    BY <2>1, <2>2 DEF FitInv, CacheTypes, CacheFits
  <2>4. ArgumentsFitRequest'
    BY <2>1, <2>2 DEF FitInv, CacheTypes, CacheFits, ArgumentsFitRequest
  <2> QED BY <2>3, <2>4 DEF FitInv
<1>4. ASSUME NEW r \in Requests, ArgumentsResolved(r) PROVE FitInv'
  <2> DEFINE own == [of |-> r, identity |-> identity[r]]
  <2>1. /\ UNCHANGED <<keyname, hash, isActive, identity>>
        /\ arguments' = [arguments EXCEPT ![r] = own]
        /\ \/ UNCHANGED cached
           \/ /\ hash[r] \in Hashes
              /\ cached' = [cached EXCEPT ![keyname[r]][hash[r]] = own]
    BY <1>4 DEF ArgumentsResolved, OwnArguments, input
  <2>2. own \in Arguments /\ keyname[r] \in Keys
    BY DEF Arguments, FitInv, CacheTypes
  <2>3. own.of = r
    OBVIOUS
  <2> HIDE DEF own
  <2>4. CacheTypes'
    <3>1. arguments' \in [Requests -> Arguments \cup {NoArguments}]
      BY <2>1, <2>2 DEF FitInv, CacheTypes
    <3>2. cached' \in [Keys -> [Hashes -> Arguments \cup {NoArguments}]]
      <4>1. CASE UNCHANGED cached
        BY <4>1 DEF FitInv, CacheTypes
      <4>2. CASE /\ hash[r] \in Hashes
                 /\ cached' = [cached EXCEPT ![keyname[r]][hash[r]] = own]
        <5>1. cached[keyname[r]] \in [Hashes -> Arguments \cup {NoArguments}]
          BY <2>2 DEF FitInv, CacheTypes
        <5>2. [cached[keyname[r]] EXCEPT ![hash[r]] = own]
                \in [Hashes -> Arguments \cup {NoArguments}]
          BY <2>2, <4>2, <5>1
        <5> QED BY <2>2, <4>2, <5>2 DEF FitInv, CacheTypes
      <4> QED BY <2>1, <4>1, <4>2
    <3> QED BY <2>1, <3>1, <3>2 DEF FitInv, CacheTypes
  <2>5. CacheFits'
    <3>1. ASSUME NEW k \in Keys, NEW h \in Hashes
          PROVE  \/ cached'[k][h] = cached[k][h]
                 \/ cached'[k][h] = own /\ k = keyname[r] /\ h = hash[r]
      BY <2>1, <2>2 DEF FitInv, CacheTypes
    <3> QED BY <2>1, <2>3, <3>1 DEF FitInv, CacheFits
  <2>6. ArgumentsFitRequest'
    <3>1. ASSUME NEW q \in Requests
          PROVE  arguments'[q] = IF q = r THEN own ELSE arguments[q]
      BY <2>1 DEF FitInv, CacheTypes
    <3>2. own = [of |-> r, identity |-> identity'[r]]
      BY <2>1 DEF own
    <3> QED BY <2>1, <2>3, <3>1, <3>2 DEF FitInv, ArgumentsFitRequest
  <2> QED BY <2>4, <2>5, <2>6 DEF FitInv
<1>5. ASSUME NEW r \in Requests, Begin(r)
      PROVE  UNCHANGED <<keyname, hash, isActive, identity, cached, arguments>>
  BY <1>5 DEF Begin, NotFound, ControllerNotResolved, NotAuthenticated,
              AuthenticatorNotCreated, SetContext, Lookup, input
<1>6. ASSUME NEW r \in Requests, GuardAnswers(r) \/ GuardThrowsTyped(r) \/ GuardsDone(r)
      PROVE  UNCHANGED <<keyname, hash, isActive, identity, cached, arguments>>
  BY <1>6 DEF GuardAnswers, GuardThrowsTyped, GuardsDone, Ask, input, shared
<1>7. ASSUME NEW r \in Requests,
             \/ AuthenticationFails(r) \/ InterceptRequest(r) \/ InterceptResponse(r)
             \/ InterceptError(r) \/ Resolve(r) \/ ErrorIntercepted(r) \/ HashThrows(r)
             \/ ArgumentsFail(r) \/ ControllerReturns(r) \/ ControllerThrows(r)
             \/ ArgumentsNotCached(r)
      PROVE  UNCHANGED <<keyname, hash, isActive, identity, cached, arguments>>
  BY <1>7 DEF AuthenticationFails, InterceptRequest, InterceptResponse,
         InterceptError, Call, Resolve, ErrorIntercepted, HashThrows, RequestIntercepted,
         ArgumentsFail, ControllerReturns, ControllerThrows, ArgumentsNotCached,
         kept, input, shared
<1>8. CASE UNCHANGED vars
  BY <1>1, <1>8 DEF vars
<1>9. ASSUME NEW r \in Requests, Begin(r) \/ Continue(r) PROVE FitInv'
  BY <1>1, <1>2, <1>3, <1>4, <1>5, <1>6, <1>7, <1>9 DEF Continue
<1>10. ASSUME NEW r \in Requests, UrlNotParsed(r) PROVE FitInv'
  BY <1>1, <1>10 DEF UrlNotParsed, kept, input, shared
<1> QED BY <1>8, <1>9, <1>10 DEF Next

\* No controller method is called with arguments that were made from a request
\* with another method, path, url, header or body, and without the cache with
\* none but its own.
THEOREM ArgumentsAlwaysFit == Spec => []ArgumentsFitRequest
<1>1. Init => GuardInv /\ FitInv
  <2> SUFFICES ASSUME Init PROVE GuardInv /\ FitInv
    OBVIOUS
  <2>1. GuardInv
    BY GuardInvInit, RouterAssumption
  <2>2. FitInv
    BY RouterAssumption DEF Init, FitInv, CacheTypes, CacheFits, ArgumentsFitRequest
  <2> QED BY <2>1, <2>2
<1>2. GuardInv /\ FitInv /\ [Next]_vars => (GuardInv /\ FitInv)'
  BY GuardInvStep, FitInvStep
<1>3. FitInv => ArgumentsFitRequest
  BY DEF FitInv
<1> QED BY <1>1, <1>2, <1>3, PTL DEF Spec
-----------------------------------------------------------------------------
(* The answer: what a request carries with it from the step that decided    *)
(* it to the end of the interceptors.                                        *)

Answers == [status : Statuses, error : Seq(InterceptorSet), response : Seq(InterceptorSet)]
AnswerTypes ==
    /\ todo \in [Requests -> Seq(InterceptorSet)]
    /\ error \in [Requests -> (Statuses \ {0, 200}) \cup {NoError}]
    /\ response \in [Requests -> Answers]

Undecided == {"new", "authenticate", "guards", "interceptRequest", "arguments", "controller"}
Answering == {"interceptError", "interceptResponse", "resolved"}

Refused(r) ==
    \/ \E i \in DOMAIN verdicts[r] : verdicts[r][i] # "allow"
    \/ node[r] \in Authenticated /\ options[r] = NoNode

\* The status is that of the error, and the error that of the first step that failed.
Reason(r) ==
    /\ response[r].status = IF error[r] = NoError THEN 200 ELSE error[r]
    /\ error[r] = NoError => arguments[r] # NoArguments
    /\ node[r] = NoNode => error[r] = 404
    /\ Refused(r) => error[r] \in {401, 403}
SeenOnError(r) == IF error[r] = NoError THEN <<>> ELSE Implementing("interceptError")

\* The interceptors that saw the response and those still to be called are all
\* interceptors, in order.
Progress(r) ==
    /\ pc[r] = "interceptError" =>
          /\ error[r] # NoError /\ response[r].response = <<>>
          /\ response[r].error \o todo[r] = Implementing("interceptError")
    /\ pc[r] = "interceptResponse" =>
          /\ response[r].error = SeenOnError(r)
          /\ response[r].response \o todo[r] = Implementing("interceptResponse")
    /\ pc[r] = "resolved" =>
          /\ response[r].error = SeenOnError(r)
          /\ response[r].response = Implementing("interceptResponse")
Answer(r) ==
    /\ pc[r] \notin {"new", "unhandled"} => node[r] = NodeOf[keyname[r]]
    /\ pc[r] \in Undecided => error[r] = NoError
    /\ pc[r] \in Undecided \ {"new"} => node[r] \in Nodes
    /\ pc[r] = "controller" => arguments[r] # NoArguments
    /\ pc[r] \in Answering => Reason(r)
    /\ Progress(r)
AnswerInv == AnswerTypes /\ \A r \in Requests : Answer(r)

\* A step did nothing to request q.
Untouched(q) ==
    /\ pc'[q] = pc[q] /\ node'[q] = node[q] /\ options'[q] = options[q]
    /\ verdicts'[q] = verdicts[q] /\ todo'[q] = todo[q] /\ error'[q] = error[q]
    /\ arguments'[q] = arguments[q] /\ response'[q] = response[q]

\* A step of one request leaves the answer of another one alone.
LEMMA UntouchedAnswer ==
    ASSUME NEW q \in Requests, Answer(q), Untouched(q), UNCHANGED keyname
    PROVE  Answer(q)'
<1>1. Refused(q)' <=> Refused(q)
  BY DEF Untouched, Refused
<1>2. Reason(q)' <=> Reason(q)
  BY <1>1 DEF Untouched, Reason
<1>3. SeenOnError(q)' = SeenOnError(q)
  BY DEF Untouched, SeenOnError
<1>4. Progress(q)' <=> Progress(q)
  BY <1>3 DEF Untouched, Progress
<1> QED BY <1>2, <1>4 DEF Untouched, Answer

\* Interceptors that return: the first of those to be called joins those called.
LEMMA NextInterceptor ==
    ASSUME NEW S, NEW seen \in Seq(S), NEW left \in Seq(S), left # <<>>
    PROVE  /\ Append(seen, Head(left)) \in Seq(S) /\ Tail(left) \in Seq(S)
           /\ Append(seen, Head(left)) \o Tail(left) = seen \o left
<1>1. Head(left) \in S /\ Tail(left) \in Seq(S) /\ left = <<Head(left)>> \o Tail(left)
  BY HeadTailProperties, HeadTailAppend
<1>2. Append(seen, Head(left)) = seen \o <<Head(left)>>
  BY <1>1, AppendIsConcat
<1>3. (seen \o <<Head(left)>>) \o Tail(left) = seen \o (<<Head(left)>> \o Tail(left))
  BY <1>1, ConcatAssociative
<1>4. Append(seen, Head(left)) \in Seq(S)
  BY <1>1, AppendProperties
<1> QED BY <1>1, <1>2, <1>3, <1>4

\* What a step does to the other requests: nothing.
Beside(r) ==
    /\ UNCHANGED keyname
    /\ \A q \in Requests \ {r} :
          /\ node'[q] = node[q] /\ options'[q] = options[q]
          /\ verdicts'[q] = verdicts[q] /\ arguments'[q] = arguments[q]

\* What is known of a request when it is answered with an error.
Explains(r, status) ==
    /\ node'[r] = NodeOf[keyname[r]]
    /\ node'[r] = NoNode => status = 404
    /\ Refused(r)' => status \in {401, 403}

\* An error starts a new response, which no interceptor has seen.
LEMMA FailAnswers ==
    ASSUME AnswerInv, GuardInv, NEW r \in Requests, NEW status \in Statuses \ {0, 200},
           Fail(r, status), Beside(r), Explains(r, status)
    PROVE  AnswerInv'
<1> USE RouterAssumption, InterceptorsAssumption
<1> DEFINE hook == Implementing("interceptError")
<1>1. /\ pc' = [pc EXCEPT ![r] = "interceptError"]
      /\ todo' = [todo EXCEPT ![r] = hook]
      /\ error' = [error EXCEPT ![r] = status]
      /\ response' = [response EXCEPT ![r] = NewResponse(status)]
  BY DEF Fail, Enter
<1>2. hook \in Seq(InterceptorSet)
  BY DEF HookNames
<1> HIDE DEF hook
<1>3. NewResponse(status) \in Answers
  BY DEF Answers, NewResponse
<1>4. /\ pc \in [Requests -> Labels] /\ todo \in [Requests -> Seq(InterceptorSet)]
      /\ error \in [Requests -> (Statuses \ {0, 200}) \cup {NoError}]
      /\ response \in [Requests -> Answers]
  BY DEF GuardInv, ControlTypes, AnswerInv, AnswerTypes
<1>5. AnswerTypes'
  BY <1>1, <1>2, <1>3, <1>4 DEF AnswerTypes
<1>6. ASSUME NEW q \in Requests, q # r PROVE Answer(q)'
  <2>1. Untouched(q) /\ UNCHANGED keyname /\ Answer(q)
    BY <1>1, <1>4, <1>6 DEF Untouched, Beside, AnswerInv
  <2> QED BY <2>1, UntouchedAnswer
<1>7. Answer(r)'
  <2>1. /\ pc'[r] = "interceptError" /\ todo'[r] = hook /\ error'[r] = status
        /\ response'[r] = NewResponse(status) /\ status # NoError
    BY <1>1, <1>4
  <2>2. /\ response'[r].status = status /\ response'[r].error = <<>>
        /\ response'[r].response = <<>>
    BY <2>1 DEF NewResponse
  <2>3. <<>> \o hook = hook
    BY <1>2, ConcatEmptySeq
  <2>4. Reason(r)'
    BY <2>1, <2>2 DEF Reason, Explains
  <2>5. Progress(r)'
    BY <2>1, <2>2, <2>3 DEF Progress, hook
  <2>6. UNCHANGED keyname
    BY DEF Beside
  <2> QED BY <2>1, <2>4, <2>5, <2>6 DEF Answer, Explains, Undecided
<1> QED BY <1>5, <1>6, <1>7 DEF AnswerInv

\* A request that goes on is not decided yet, or nobody hears of it any more.
LEMMA GoOnAnswers ==
    ASSUME AnswerInv, GuardInv, NEW r \in Requests,
           NEW label \in (Undecided \ {"new"}) \cup {"rejected", "unhandled"},
           GoOn(r, label), Beside(r), node'[r] = NodeOf[keyname[r]],
           label \in Undecided => pc[r] \in Undecided /\ node'[r] \in Nodes,
           label = "controller" => arguments'[r] # NoArguments
    PROVE  AnswerInv'
<1>1. pc' = [pc EXCEPT ![r] = label] /\ UNCHANGED <<todo, error, response, keyname>>
  BY DEF GoOn, Beside
<1>2. pc \in [Requests -> Labels] /\ Answer(r)
  BY DEF GuardInv, ControlTypes, AnswerInv
<1>3. AnswerTypes'
  BY <1>1 DEF AnswerInv, AnswerTypes
<1>4. ASSUME NEW q \in Requests, q # r PROVE Answer(q)'
  <2>1. Untouched(q) /\ UNCHANGED keyname /\ Answer(q)
    BY <1>1, <1>2, <1>4 DEF Untouched, Beside, AnswerInv
  <2> QED BY <2>1, UntouchedAnswer
<1>5. Answer(r)'
  <2>1. pc'[r] = label
    BY <1>1, <1>2
  <2>2. label \notin Answering
    BY DEF Undecided, Answering
  <2>3. Progress(r)'
    BY <2>1, <2>2 DEF Progress, Answering
  <2>4. label \in Undecided => error'[r] = NoError
    BY <1>1, <1>2 DEF Answer
  <2>5. label # "new"
    BY DEF Undecided
  <2> QED BY <1>1, <2>1, <2>2, <2>3, <2>4, <2>5 DEF Answer
<1> QED BY <1>3, <1>4, <1>5 DEF AnswerInv

\* A request all of whose checks succeeded is not refused.
LEMMA GuardedIsNotRefused ==
    ASSUME NEW r \in Requests, Guarded(r) PROVE ~Refused(r)
BY DEF Guarded, Checked, Refused

\* A step that changes nothing a request was decided by.
LEMMA KeptBeside ==
    ASSUME UNCHANGED kept, NEW r \in Requests
    PROVE  /\ Beside(r) /\ UNCHANGED <<keyname, node, options, verdicts, arguments>>
           /\ Refused(r)' <=> Refused(r)
BY DEF kept, input, shared, Beside, Refused

\* The first steps of a request.
LEMMA BeginAnswers ==
    ASSUME AnswerInv, GuardInv, NEW r \in Requests, Begin(r)
    PROVE  AnswerInv'
<1> USE RouterAssumption
<1>1. Lookup(r)
  BY DEF Begin, NotFound, ControllerNotResolved, NotAuthenticated,
         AuthenticatorNotCreated, SetContext
<1>2. /\ node' = [node EXCEPT ![r] = NodeOf[keyname[r]]]
      /\ node'[r] = NodeOf[keyname[r]]
      /\ NodeOf[keyname[r]] \in Nodes \cup {NoNode}
      /\ verdicts[r] = <<>>
      /\ UNCHANGED <<keyname, options, verdicts, arguments>>
  BY <1>1, LookupFinds
<1>3. node \in [Requests -> Nodes \cup {NoNode}] /\ pc[r] = "new"
  BY <1>1 DEF GuardInv, ControlTypes, Lookup
<1>4. Beside(r)
  BY <1>2, <1>3 DEF Beside
<1>5. CASE NotFound(r)
  <2>1. node'[r] = NoNode /\ Fail(r, 404)
    BY <1>5 DEF NotFound
  <2>2. ~Refused(r)'
    BY <1>2, <2>1 DEF Refused
  <2>3. Explains(r, 404) /\ 404 \in Statuses \ {0, 200}
    BY <1>2, <2>2 DEF Explains, Statuses
  <2> QED BY <1>4, <2>1, <2>3, FailAnswers
<1>6. CASE AuthenticatorNotCreated(r)
  <2>1. node'[r] \in Nodes /\ Fail(r, 401)
    BY <1>6 DEF AuthenticatorNotCreated
  <2>2. Explains(r, 401) /\ 401 \in Statuses \ {0, 200}
    BY <1>2, <2>1 DEF Explains, Statuses
  <2> QED BY <1>4, <2>1, <2>2, FailAnswers
<1>7. CASE ControllerNotResolved(r) \/ NotAuthenticated(r) \/ SetContext(r)
  <2>1. PICK label \in {"unhandled", "guards", "authenticate"} : GoOn(r, label)
    BY <1>7 DEF ControllerNotResolved, NotAuthenticated, SetContext
  <2>2. node'[r] \in Nodes
    BY <1>7 DEF ControllerNotResolved, NotAuthenticated, SetContext
  <2>3. /\ label \in (Undecided \ {"new"}) \cup {"rejected", "unhandled"}
        /\ pc[r] \in Undecided /\ label # "controller"
    BY <1>3 DEF Undecided
  <2> QED BY <1>2, <1>4, <2>1, <2>2, <2>3, GoOnAnswers
<1> QED BY <1>5, <1>6, <1>7 DEF Begin

\* Authentication and the guards.
LEMMA CheckAnswers ==
    ASSUME AnswerInv, GuardInv, NEW r \in Requests,
           \/ Identified(r) \/ AuthenticationFails(r) \/ GuardAnswers(r)
           \/ GuardThrowsTyped(r) \/ GuardsDone(r)
    PROVE  AnswerInv'
<1> USE RouterAssumption, InterceptorsAssumption
<1>1. /\ pc \in [Requests -> Labels] /\ Answer(r) /\ Stage(r)
      /\ options \in [Requests -> Nodes \cup {NoNode}]
      /\ verdicts \in [Requests -> Seq({"allow", "deny", "error"})]
      /\ UNCHANGED <<keyname, node, arguments>>
      /\ pc[r] \in {"authenticate", "guards"}
  BY DEF GuardInv, ControlTypes, AnswerInv, Identified, AuthenticationFails,
         GuardAnswers, GuardThrowsTyped, GuardsDone, Ask, input, shared
<1>2. /\ node[r] = NodeOf[keyname[r]] /\ node[r] \in Nodes /\ node[r] # NoNode
      /\ error[r] = NoError
  BY <1>1 DEF Answer, Undecided
<1>3. Beside(r)
  <2>1. /\ \A q \in Requests \ {r} : options'[q] = options[q]
        /\ \A q \in Requests \ {r} : verdicts'[q] = verdicts[q]
    BY <1>1 DEF Identified, AuthenticationFails, GuardAnswers, GuardThrowsTyped,
                GuardsDone, Ask
  <2> QED BY <1>1, <2>1 DEF Beside
<1>4. ASSUME NEW status \in {401, 403}, Fail(r, status) PROVE AnswerInv'
  <2>1. Explains(r, status) /\ status \in Statuses \ {0, 200}
    BY <1>1, <1>2 DEF Explains, Statuses
  <2> QED BY <1>3, <1>4, <2>1, FailAnswers
<1>5. CASE Identified(r)
  <2>1. GoOn(r, "guards") /\ "guards" \in Undecided \ {"new"} /\ pc[r] \in Undecided
    BY <1>1, <1>5 DEF Identified, Undecided
  <2> QED BY <1>1, <1>2, <1>3, <2>1, GoOnAnswers
<1>6. CASE AuthenticationFails(r)
  <2>1. PICK status \in {401, 403} : Fail(r, status)
    BY <1>6 DEF AuthenticationFails, AuthenticationStatus
  <2> QED BY <2>1, <1>4
<1>7. CASE GuardThrowsTyped(r)
  <2>1. PICK status \in {401, 403} : Fail(r, status)
    BY <1>7 DEF GuardThrowsTyped
  <2> QED BY <2>1, <1>4
<1>8. CASE GuardAnswers(r)
  <2>1. UNCHANGED <<pc, todo, error, response, options, keyname, node, arguments>>
        /\ pc[r] = "guards"
    BY <1>1, <1>8 DEF GuardAnswers, Ask
  <2>2. AnswerTypes'
    BY <2>1 DEF AnswerInv, AnswerTypes
  <2>3. Answer(r)'
    BY <1>1, <2>1 DEF Answer, Answering, Progress
  <2>4. ASSUME NEW q \in Requests, q # r PROVE Answer(q)'
    <3>1. Untouched(q) /\ UNCHANGED keyname /\ Answer(q)
      BY <1>3, <2>1, <2>4 DEF Untouched, Beside, AnswerInv
    <3> QED BY <3>1, UntouchedAnswer
  <2> QED BY <2>2, <2>3, <2>4 DEF AnswerInv
<1>9. CASE GuardsDone(r) /\ isAuthorized(verdicts[r])
  <2>1. /\ pc' = [pc EXCEPT ![r] = "interceptRequest"]
        /\ todo' = [todo EXCEPT ![r] = Implementing("interceptRequest")]
        /\ UNCHANGED <<error, response, options, verdicts>>
    BY <1>9 DEF GuardsDone, Enter
  <2>2. Implementing("interceptRequest") \in Seq(InterceptorSet)
    BY DEF HookNames
  <2>3. AnswerTypes'
    BY <2>1, <2>2 DEF AnswerInv, AnswerTypes
  <2>4. Answer(r)'
    BY <1>1, <1>2, <2>1 DEF Answer, Answering, Progress
  <2>5. ASSUME NEW q \in Requests, q # r PROVE Answer(q)'
    <3>1. Untouched(q) /\ UNCHANGED keyname /\ Answer(q)
      BY <1>1, <2>1, <2>5 DEF Untouched, AnswerInv, AnswerTypes
    <3> QED BY <3>1, UntouchedAnswer
  <2> QED BY <2>3, <2>4, <2>5 DEF AnswerInv
<1>10. CASE GuardsDone(r) /\ ~isAuthorized(verdicts[r])
  <2>1. Fail(r, 403)
    BY <1>10 DEF GuardsDone
  <2> QED BY <2>1, <1>4
<1> QED BY <1>5, <1>6, <1>7, <1>8, <1>9, <1>10

\* The arguments and the controller.
LEMMA CallAnswers ==
    ASSUME AnswerInv, GuardInv, FitInv, NEW r \in Requests,
           \/ HashThrows(r) \/ ArgumentsWereCached(r) \/ ArgumentsNotCached(r)
           \/ ArgumentsResolved(r) \/ ArgumentsFail(r)
           \/ ControllerReturns(r) \/ ControllerThrows(r)
    PROVE  AnswerInv'
<1> USE RouterAssumption, InterceptorsAssumption
<1>1. /\ pc \in [Requests -> Labels] /\ Answer(r) /\ Stage(r)
      /\ arguments \in [Requests -> Arguments \cup {NoArguments}]
      /\ UNCHANGED <<keyname, node, options, verdicts>>
      /\ pc[r] \in {"interceptRequest", "arguments", "controller"}
  BY DEF GuardInv, ControlTypes, FitInv, CacheTypes, AnswerInv, HashThrows,
         ArgumentsWereCached, ArgumentsNotCached, RequestIntercepted, ArgumentsResolved,
         ArgumentsFail, ControllerReturns, ControllerThrows, kept, input, shared
<1>2. /\ node[r] = NodeOf[keyname[r]] /\ node[r] \in Nodes /\ node[r] # NoNode
      /\ error[r] = NoError /\ pc[r] \in Undecided
  BY <1>1 DEF Answer, Undecided
<1>3. Beside(r)
  <2>1. \A q \in Requests \ {r} : arguments'[q] = arguments[q]
    BY <1>1 DEF HashThrows, ArgumentsWereCached, ArgumentsNotCached, ArgumentsResolved,
                ArgumentsFail, ControllerReturns, ControllerThrows, kept
  <2> QED BY <1>1, <2>1 DEF Beside
<1>4. ~Refused(r) /\ ~Refused(r)'
  <2>1. ~Refused(r)
    BY <1>1, GuardedIsNotRefused DEF Stage
  <2> QED BY <1>1, <2>1 DEF Refused
<1>5. ASSUME NEW status \in {404, 500}, Fail(r, status) PROVE AnswerInv'
  <2>1. Explains(r, status) /\ status \in Statuses \ {0, 200}
    BY <1>1, <1>2, <1>4 DEF Explains, Statuses
  <2> QED BY <1>3, <1>5, <2>1, FailAnswers
<1>6. CASE HashThrows(r) \/ ArgumentsFail(r) \/ ControllerThrows(r)
  <2>1. PICK status \in {404, 500} : Fail(r, status)
    BY <1>6 DEF HashThrows, ArgumentsFail, ControllerThrows
  <2> QED BY <2>1, <1>5
<1>7. CASE ArgumentsNotCached(r)
  <2>1. GoOn(r, "arguments") /\ "arguments" \in Undecided \ {"new"}
    BY <1>7 DEF ArgumentsNotCached, Undecided
  <2> QED BY <1>1, <1>2, <1>3, <2>1, GoOnAnswers
<1>8. CASE ArgumentsWereCached(r) \/ ArgumentsResolved(r)
  <2>1. GoOn(r, "controller") /\ "controller" \in Undecided \ {"new"}
    BY <1>8 DEF ArgumentsWereCached, ArgumentsResolved, Undecided
  <2>2. arguments'[r] # NoArguments
    <3>1. CASE ArgumentsWereCached(r)
      BY <1>1, <3>1 DEF ArgumentsWereCached
    <3>2. CASE ArgumentsResolved(r)
      <4>1. OwnArguments(r) \in Arguments
        BY DEF OwnArguments, Arguments, FitInv, CacheTypes
      <4>2. arguments'[r] = OwnArguments(r)
        BY <1>1, <3>2 DEF ArgumentsResolved
      <4> QED BY <4>1, <4>2
    <3> QED BY <1>8, <3>1, <3>2
  <2> QED BY <1>1, <1>2, <1>3, <2>1, <2>2, GoOnAnswers
<1>9. CASE ControllerReturns(r)
  <2> DEFINE hook == Implementing("interceptResponse")
  <2>1. /\ pc' = [pc EXCEPT ![r] = "interceptResponse"] /\ todo' = [todo EXCEPT ![r] = hook]
        /\ response' = [response EXCEPT ![r] = NewResponse(200)]
        /\ pc[r] = "controller" /\ UNCHANGED <<error, arguments>>
    BY <1>9 DEF ControllerReturns, Enter, kept
  <2>2. hook \in Seq(InterceptorSet)
    BY DEF HookNames
  <2> HIDE DEF hook
  <2>3. NewResponse(200) \in Answers
    BY DEF Answers, NewResponse, Statuses
  <2>4. todo \in [Requests -> Seq(InterceptorSet)] /\ response \in [Requests -> Answers]
    BY DEF AnswerInv, AnswerTypes
  <2>5. AnswerTypes'
    BY <2>1, <2>2, <2>3, <2>4 DEF AnswerInv, AnswerTypes
  <2>6. /\ response'[r].status = 200 /\ response'[r].error = <<>>
        /\ response'[r].response = <<>> /\ <<>> \o hook = hook
        /\ pc'[r] = "interceptResponse" /\ todo'[r] = hook /\ arguments[r] # NoArguments
    BY <1>1, <2>1, <2>2, <2>4, ConcatEmptySeq DEF NewResponse, Answer
  <2>7. Reason(r)'
    BY <1>1, <1>2, <1>4, <2>1, <2>6 DEF Reason
  <2>8. Progress(r)'
    BY <1>2, <2>1, <2>6 DEF Progress, SeenOnError, hook
  <2>9. Answer(r)'
    BY <1>1, <1>2, <2>6, <2>7, <2>8 DEF Answer, Undecided
  <2>10. ASSUME NEW q \in Requests, q # r PROVE Answer(q)'
    <3>1. Untouched(q) /\ UNCHANGED keyname /\ Answer(q)
      BY <1>1, <2>1, <2>4, <2>10 DEF Untouched, AnswerInv
    <3> QED BY <3>1, UntouchedAnswer
  <2> QED BY <2>5, <2>9, <2>10 DEF AnswerInv
<1> QED BY <1>6, <1>7, <1>8, <1>9

\* A response one of whose lists of interceptors has grown is still a response.
LEMMA SeenInAnswer ==
    ASSUME NEW a \in Answers, NEW seen \in Seq(InterceptorSet)
    PROVE  /\ [a EXCEPT !.response = seen] \in Answers
           /\ [a EXCEPT !.response = seen].status = a.status
           /\ [a EXCEPT !.response = seen].error = a.error
           /\ [a EXCEPT !.response = seen].response = seen
           /\ [a EXCEPT !.error = seen] \in Answers
           /\ [a EXCEPT !.error = seen].status = a.status
           /\ [a EXCEPT !.error = seen].error = seen
           /\ [a EXCEPT !.error = seen].response = a.response
<1> DEFINE T == Seq(InterceptorSet)
<1>1. a \in [status : Statuses, error : T, response : T] /\ seen \in T
  BY DEF Answers
<1> HIDE DEF T
<1>2. /\ [a EXCEPT !.response = seen] \in [status : Statuses, error : T, response : T]
      /\ [a EXCEPT !.response = seen].status = a.status
      /\ [a EXCEPT !.response = seen].error = a.error
      /\ [a EXCEPT !.response = seen].response = seen
  BY <1>1
<1>3. /\ [a EXCEPT !.error = seen] \in [status : Statuses, error : T, response : T]
      /\ [a EXCEPT !.error = seen].status = a.status
      /\ [a EXCEPT !.error = seen].error = seen
      /\ [a EXCEPT !.error = seen].response = a.response
  BY <1>1
<1>4. [status : Statuses, error : T, response : T] = Answers
  BY DEF T, Answers
<1> QED BY <1>2, <1>3, <1>4

\* An interceptor that throws: the first error of a request is a 500, a second one
\* rejects the promise.
LEMMA ThrowAnswers ==
    ASSUME AnswerInv, GuardInv, NEW r \in Requests, UNCHANGED kept, Throw(r),
           pc[r] \in HookNames
    PROVE  AnswerInv'
<1> USE RouterAssumption
<1>1. Answer(r) /\ Stage(r)
  BY DEF AnswerInv, GuardInv
<1>2. /\ Beside(r) /\ UNCHANGED <<keyname, node, options, verdicts, arguments>>
      /\ Refused(r)' <=> Refused(r)
  BY KeptBeside
<1>3. node[r] = NodeOf[keyname[r]]
  BY <1>1 DEF Answer, HookNames
<1>4. CASE error[r] = NoError
  <2>1. Fail(r, 500)
    BY <1>4 DEF Throw
  <2>2. pc[r] = "interceptRequest" \/ Reason(r)
    BY <1>1 DEF Answer, HookNames, Answering
  <2>3. Guarded(r) /\ node[r] # NoNode
    <3>1. CASE pc[r] = "interceptRequest"
      BY <1>1, <3>1 DEF Stage, Answer, Undecided
    <3>2. CASE Reason(r)
      <4>1. arguments[r] # NoArguments /\ (node[r] = NoNode => error[r] = 404)
        BY <1>4, <3>2 DEF Reason
      <4> QED BY <1>1, <1>4, <4>1 DEF Stage, Statuses
    <3> QED BY <2>2, <3>1, <3>2
  <2>4. ~Refused(r)
    BY <2>3, GuardedIsNotRefused
  <2>5. Explains(r, 500) /\ 500 \in Statuses \ {0, 200}
    BY <1>2, <1>3, <2>3, <2>4 DEF Explains, Statuses
  <2> QED BY <1>2, <2>1, <2>5, FailAnswers
<1>5. CASE error[r] # NoError
  <2>1. GoOn(r, "rejected") /\ "rejected" \notin Undecided
    BY <1>5 DEF Throw, Undecided
  <2> QED BY <1>2, <1>3, <2>1, GoOnAnswers
<1> QED BY <1>4, <1>5

\* An interceptor that returns, and the end of a loop over the interceptors.
LEMMA InterceptAnswers ==
    ASSUME AnswerInv, GuardInv, NEW r \in Requests,
           \/ InterceptRequest(r) \/ InterceptResponse(r) \/ InterceptError(r)
           \/ Resolve(r) \/ ErrorIntercepted(r)
    PROVE  AnswerInv'
<1> USE RouterAssumption, InterceptorsAssumption
<1>1. UNCHANGED kept /\ pc[r] \in HookNames
  BY DEF InterceptRequest, InterceptResponse, InterceptError, Call, Resolve,
         ErrorIntercepted, HookNames
<1>2. /\ Beside(r) /\ UNCHANGED <<keyname, node, options, verdicts, arguments>>
      /\ Refused(r)' <=> Refused(r)
  BY <1>1, KeptBeside
<1>3. /\ Answer(r) /\ Stage(r) /\ pc \in [Requests -> Labels]
      /\ todo \in [Requests -> Seq(InterceptorSet)] /\ response \in [Requests -> Answers]
      /\ error \in [Requests -> (Statuses \ {0, 200}) \cup {NoError}]
  BY DEF GuardInv, ControlTypes, AnswerInv, AnswerTypes
<1>4. /\ response[r].status \in Statuses /\ response[r].error \in Seq(InterceptorSet)
      /\ response[r].response \in Seq(InterceptorSet) /\ todo[r] \in Seq(InterceptorSet)
  BY <1>3 DEF Answers
<1>5. ASSUME AnswerTypes', Answer(r)', \A q \in Requests \ {r} : Untouched(q)
      PROVE  AnswerInv'
  <2>1. ASSUME NEW q \in Requests, q # r PROVE Answer(q)'
    <3>1. Untouched(q) /\ UNCHANGED keyname /\ Answer(q)
      BY <1>2, <1>5, <2>1 DEF AnswerInv
    <3> QED BY <3>1, UntouchedAnswer
  <2> QED BY <1>5, <2>1 DEF AnswerInv
<1>6. CASE Throw(r)
  BY <1>1, <1>6, ThrowAnswers
<1>7. CASE /\ pc[r] = "interceptRequest" /\ Return(r) /\ todo[r] # <<>>
           /\ UNCHANGED response
  <2>1. UNCHANGED <<pc, error, response>> /\ todo' = [todo EXCEPT ![r] = Tail(@)]
    BY <1>7 DEF Return
  <2>2. Tail(todo[r]) \in Seq(InterceptorSet)
    BY <1>4, <1>7, HeadTailProperties
  <2>3. AnswerTypes'
    BY <1>3, <2>1, <2>2 DEF AnswerTypes
  <2>4. Answer(r)'
    BY <1>2, <1>3, <1>7, <2>1 DEF Answer, Answering, Progress
  <2>5. \A q \in Requests \ {r} : Untouched(q)
    BY <1>2, <1>3, <2>1 DEF Untouched
  <2> QED BY <1>5, <2>3, <2>4, <2>5
<1>8. CASE /\ pc[r] = "interceptResponse" /\ Return(r) /\ todo[r] # <<>>
           /\ response' = [response EXCEPT ![r].response = Append(@, Head(todo[r]))]
  <2> DEFINE seen == Append(response[r].response, Head(todo[r]))
  <2>1. /\ UNCHANGED <<pc, error>> /\ todo' = [todo EXCEPT ![r] = Tail(@)]
    BY <1>8 DEF Return
  <2>2. /\ seen \in Seq(InterceptorSet) /\ Tail(todo[r]) \in Seq(InterceptorSet)
        /\ seen \o Tail(todo[r]) = response[r].response \o todo[r]
    <3> DEFINE before == response[r].response
               left == todo[r]
    <3>1. /\ before \in Seq(InterceptorSet) /\ left \in Seq(InterceptorSet) /\ left # <<>>
      BY <1>4, <1>8
    <3> HIDE DEF before, left
    <3>2. /\ Append(before, Head(left)) \in Seq(InterceptorSet)
          /\ Tail(left) \in Seq(InterceptorSet)
          /\ Append(before, Head(left)) \o Tail(left) = before \o left
      BY <3>1, NextInterceptor
    <3> QED BY <3>2 DEF before, left
  <2>3. response' = [response EXCEPT ![r] = [response[r] EXCEPT !.response = seen]]
    BY <1>3, <1>8 DEF Answers
  <2> HIDE DEF seen
  <2>4. /\ [response[r] EXCEPT !.response = seen] \in Answers
        /\ [response[r] EXCEPT !.response = seen].status = response[r].status
        /\ [response[r] EXCEPT !.response = seen].error = response[r].error
        /\ [response[r] EXCEPT !.response = seen].response = seen
    <3>1. response[r] \in Answers
      BY <1>3
    <3> QED BY ZenonT(40), <2>2, <3>1, SeenInAnswer
  <2>5. AnswerTypes'
    BY <1>3, <2>1, <2>2, <2>3, <2>4 DEF AnswerTypes
  <2>6. /\ response'[r].status = response[r].status /\ response'[r].error = response[r].error
        /\ response'[r].response = seen /\ todo'[r] = Tail(todo[r])
    BY <1>3, <2>1, <2>3, <2>4
  <2>7. Reason(r) /\ Progress(r)
    BY <1>3, <1>8 DEF Answer, Answering
  <2>8. Reason(r)'
    BY <1>2, <2>1, <2>6, <2>7 DEF Reason
  <2>9. Progress(r)'
    BY <1>8, <2>1, <2>2, <2>6, <2>7 DEF Progress, SeenOnError
  <2>10. Answer(r)'
    BY <1>2, <1>3, <1>8, <2>1, <2>8, <2>9 DEF Answer
  <2>11. \A q \in Requests \ {r} : Untouched(q)
    BY <1>2, <1>3, <2>1, <2>3 DEF Untouched
  <2> QED BY <1>5, <2>5, <2>10, <2>11
<1>9. CASE /\ pc[r] = "interceptError" /\ Return(r) /\ todo[r] # <<>>
           /\ response' = [response EXCEPT ![r].error = Append(@, Head(todo[r]))]
  <2> DEFINE seen == Append(response[r].error, Head(todo[r]))
  <2>1. /\ UNCHANGED <<pc, error>> /\ todo' = [todo EXCEPT ![r] = Tail(@)]
    BY <1>9 DEF Return
  <2>2. /\ seen \in Seq(InterceptorSet) /\ Tail(todo[r]) \in Seq(InterceptorSet)
        /\ seen \o Tail(todo[r]) = response[r].error \o todo[r]
    <3> DEFINE before == response[r].error
               left == todo[r]
    <3>1. /\ before \in Seq(InterceptorSet) /\ left \in Seq(InterceptorSet) /\ left # <<>>
      BY <1>4, <1>9
    <3> HIDE DEF before, left
    <3>2. /\ Append(before, Head(left)) \in Seq(InterceptorSet)
          /\ Tail(left) \in Seq(InterceptorSet)
          /\ Append(before, Head(left)) \o Tail(left) = before \o left
      BY <3>1, NextInterceptor
    <3> QED BY <3>2 DEF before, left
  <2>3. response' = [response EXCEPT ![r] = [response[r] EXCEPT !.error = seen]]
    BY <1>3, <1>9 DEF Answers
  <2> HIDE DEF seen
  <2>4. /\ [response[r] EXCEPT !.error = seen] \in Answers
        /\ [response[r] EXCEPT !.error = seen].status = response[r].status
        /\ [response[r] EXCEPT !.error = seen].error = seen
        /\ [response[r] EXCEPT !.error = seen].response = response[r].response
    <3>1. response[r] \in Answers
      BY <1>3
    <3> QED BY ZenonT(40), <2>2, <3>1, SeenInAnswer
  <2>5. AnswerTypes'
    BY <1>3, <2>1, <2>2, <2>3, <2>4 DEF AnswerTypes
  <2>6. /\ response'[r].status = response[r].status /\ response'[r].error = seen
        /\ response'[r].response = response[r].response /\ todo'[r] = Tail(todo[r])
    BY <1>3, <2>1, <2>3, <2>4
  <2>7. Reason(r) /\ Progress(r)
    BY <1>3, <1>9 DEF Answer, Answering
  <2>8. Reason(r)'
    BY <1>2, <2>1, <2>6, <2>7 DEF Reason
  <2>9. Progress(r)'
    BY <1>9, <2>1, <2>2, <2>6, <2>7 DEF Progress
  <2>10. Answer(r)'
    BY <1>2, <1>3, <1>9, <2>1, <2>8, <2>9 DEF Answer
  <2>11. \A q \in Requests \ {r} : Untouched(q)
    BY <1>2, <1>3, <2>1, <2>3 DEF Untouched
  <2> QED BY <1>5, <2>5, <2>10, <2>11
<1>10. CASE Resolve(r)
  <2>1. /\ pc[r] = "interceptResponse" /\ todo[r] = <<>>
        /\ pc' = [pc EXCEPT ![r] = "resolved"] /\ UNCHANGED <<todo, error, response>>
    BY <1>10 DEF Resolve, GoOn
  <2>2. Reason(r) /\ Progress(r)
    BY <1>3, <2>1 DEF Answer, Answering
  <2>3. response[r].response \o <<>> = response[r].response
    BY <1>4, ConcatEmptySeq
  <2>4. Reason(r)'
    BY <1>2, <2>1, <2>2 DEF Reason
  <2>5. Progress(r)'
    BY <1>3, <2>1, <2>2, <2>3 DEF Progress, SeenOnError
  <2>6. AnswerTypes' /\ Answer(r)'
    BY <1>2, <1>3, <2>1, <2>4, <2>5 DEF AnswerTypes, Answer, Undecided
  <2>7. \A q \in Requests \ {r} : Untouched(q)
    BY <1>2, <1>3, <2>1 DEF Untouched
  <2> QED BY <1>5, <2>6, <2>7
<1>11. CASE ErrorIntercepted(r)
  <2> DEFINE hook == Implementing("interceptResponse")
  <2>1. /\ pc[r] = "interceptError" /\ todo[r] = <<>>
        /\ pc' = [pc EXCEPT ![r] = "interceptResponse"]
        /\ todo' = [todo EXCEPT ![r] = hook] /\ UNCHANGED <<error, response>>
    BY <1>11 DEF ErrorIntercepted, Enter
  <2>2. hook \in Seq(InterceptorSet)
    BY DEF HookNames
  <2>3. Reason(r) /\ Progress(r)
    BY <1>3, <2>1 DEF Answer, Answering
  <2>4. response[r].error \o <<>> = response[r].error /\ <<>> \o hook = hook
    BY <1>4, <2>2, ConcatEmptySeq
  <2>5. Reason(r)'
    BY <1>2, <2>1, <2>3 DEF Reason
  <2>6. pc'[r] = "interceptResponse" /\ todo'[r] = hook
    BY <1>3, <2>1
  <2>7. Progress(r)'
    BY <2>1, <2>3, <2>4, <2>6 DEF Progress, SeenOnError
  <2> HIDE DEF hook
  <2>8. AnswerTypes'
    BY <1>3, <2>1, <2>2 DEF AnswerTypes
  <2>9. Answer(r)'
    BY <1>2, <1>3, <2>1, <2>5, <2>6, <2>7 DEF Answer, Undecided
  <2>10. \A q \in Requests \ {r} : Untouched(q)
    BY <1>2, <1>3, <2>1 DEF Untouched
  <2> QED BY <1>5, <2>8, <2>9, <2>10
<1>12. InterceptRequest(r) =>
         \/ Throw(r)
         \/ /\ pc[r] = "interceptRequest" /\ Return(r) /\ todo[r] # <<>>
            /\ UNCHANGED response
  BY DEF InterceptRequest, Call
<1>13. InterceptResponse(r) =>
         \/ Throw(r)
         \/ /\ pc[r] = "interceptResponse" /\ Return(r) /\ todo[r] # <<>>
            /\ response' = [response EXCEPT ![r].response = Append(@, Head(todo[r]))]
  BY DEF InterceptResponse, Call
<1>14. InterceptError(r) =>
         \/ Throw(r)
         \/ /\ pc[r] = "interceptError" /\ Return(r) /\ todo[r] # <<>>
            /\ response' = [response EXCEPT ![r].error = Append(@, Head(todo[r]))]
  BY DEF InterceptError, Call
<1> QED BY <1>6, <1>7, <1>8, <1>9, <1>10, <1>11, <1>12, <1>13, <1>14

\* The invariant holds throughout.
LEMMA AnswerInvStep == ASSUME AnswerInv, GuardInv, FitInv, [Next]_vars PROVE AnswerInv'
<1>1. CASE UNCHANGED vars
  <2>1. AnswerTypes'
    BY <1>1 DEF vars, AnswerInv, AnswerTypes
  <2>2. ASSUME NEW q \in Requests PROVE Answer(q)'
    <3>1. Untouched(q) /\ UNCHANGED keyname /\ Answer(q)
      BY <1>1 DEF vars, Untouched, AnswerInv
    <3> QED BY <3>1, UntouchedAnswer
  <2> QED BY <2>1, <2>2 DEF AnswerInv
<1>2. ASSUME NEW r \in Requests, Begin(r) \/ Continue(r) PROVE AnswerInv'
  BY <1>2, BeginAnswers, CheckAnswers, CallAnswers, InterceptAnswers DEF Continue
<1>3. ASSUME NEW r \in Requests, UrlNotParsed(r) PROVE AnswerInv'
  <2>1. /\ pc' = [pc EXCEPT ![r] = "unhandled"] /\ UNCHANGED <<keyname, node, options, verdicts, arguments>>
        /\ UNCHANGED <<todo, error, response>>
    BY <1>3 DEF UrlNotParsed, GoOn, kept, input, shared
  <2>2. AnswerTypes' /\ pc \in [Requests -> Labels]
    BY <2>1 DEF AnswerInv, AnswerTypes, GuardInv, ControlTypes
  <2>3. Answer(r)'
    BY <2>1, <2>2 DEF Answer, Undecided, Answering, Progress
  <2>4. ASSUME NEW q \in Requests, q # r PROVE Answer(q)'
    <3>1. Untouched(q) /\ Answer(q)
      BY <2>1, <2>4 DEF Untouched, AnswerInv
    <3> QED BY <2>1, <3>1, UntouchedAnswer
  <2> QED BY <2>2, <2>3, <2>4 DEF AnswerInv
<1> QED BY <1>1, <1>2, <1>3 DEF Next

\* What execute() resolves with has passed every interceptor of its kind once and in
\* order, and its status names the step that decided it: no route, not let in,
\* an error, or the controller's own answer.
THEOREM AnswersAreRight == Spec => []AnswerIsRight
<1>1. Init => GuardInv /\ FitInv /\ AnswerInv
  <2> SUFFICES ASSUME Init PROVE GuardInv /\ FitInv /\ AnswerInv
    OBVIOUS
  <2>1. GuardInv
    BY GuardInvInit, RouterAssumption
  <2>2. FitInv
    BY RouterAssumption DEF Init, FitInv, CacheTypes, CacheFits, ArgumentsFitRequest
  <2>3. NewResponse(0) \in Answers
    BY DEF NewResponse, Answers, Statuses
  <2>4. AnswerTypes
    BY <2>3 DEF Init, AnswerTypes
  <2>5. \A r \in Requests : Answer(r)
    BY DEF Init, Answer, Undecided, Answering, Progress
  <2> QED BY <2>1, <2>2, <2>4, <2>5 DEF AnswerInv
<1>2. GuardInv /\ FitInv /\ AnswerInv /\ [Next]_vars => (GuardInv /\ FitInv /\ AnswerInv)'
  BY GuardInvStep, FitInvStep, AnswerInvStep
<1>3. GuardInv /\ FitInv /\ AnswerInv => AnswerIsRight
  <2> SUFFICES ASSUME GuardInv, FitInv, AnswerInv PROVE AnswerIsRight
    OBVIOUS
  <2> USE RouterAssumption
  <2>1. TypeOK
    BY DEF GuardInv, ControlTypes, FitInv, CacheTypes, AnswerInv, AnswerTypes, Answers, TypeOK
  <2>2. ResponseIsIntercepted
    BY DEF AnswerInv, Answer, Progress, SeenOnError, ResponseIsIntercepted
  <2>3. ASSUME NEW r \in Requests, pc[r] = "resolved"
        PROVE  /\ NodeOf[keyname[r]] = NoNode <=> node[r] = NoNode
               /\ node[r] = NoNode => response[r].status = 404
               /\ Refused(r) => response[r].status \in {401, 403}
               /\ response[r].status = 200 => error[r] = NoError /\ arguments[r] # NoArguments
    <3>1. Reason(r) /\ node[r] = NodeOf[keyname[r]]
      BY <2>3 DEF AnswerInv, Answer, Answering
    <3>2. error[r] \in (Statuses \ {0, 200}) \cup {NoError}
      BY DEF AnswerInv, AnswerTypes
    <3> QED BY <3>1, <3>2 DEF Reason, Statuses
  <2>4. AnswerNamesReason
    BY <2>3 DEF AnswerNamesReason, Refused
  <2> QED BY <2>1, <2>2, <2>4 DEF AnswerIsRight
<1> QED BY <1>1, <1>2, <1>3, PTL DEF Spec

-----------------------------------------------------------------------------
(* The options: an authenticator of its own keeps the context of a request *)
(* until the request reads it.                                             *)

OwnContext(r) ==
    /\ pc[r] = "new" => options[r] = NoNode
    /\ pc[r] = "authenticate" => context[r] = node[r]
    /\ options[r] \in {NoNode, node[r]}
OwnContexts == \A r \in Requests : OwnContext(r)

\* Without a singleton only the request itself sets the context it reads.
LEMMA OwnContextsStep ==
    ASSUME OwnContexts, GuardInv, ~SingletonAuthenticator, [Next]_vars
    PROVE  OwnContexts'
<1> USE RouterAssumption
<1>1. /\ pc \in [Requests -> Labels] /\ node \in [Requests -> Nodes \cup {NoNode}]
      /\ options \in [Requests -> Nodes \cup {NoNode}]
      /\ context \in [Instances -> Nodes \cup {NoNode}]
      /\ \A r \in Requests : AuthenticatorOf(r) = r /\ r \in Instances
  BY DEF GuardInv, ControlTypes, AuthenticatorOf, Instances
<1>2. ASSUME NEW r \in Requests, Begin(r) PROVE OwnContexts'
  <2>1. Lookup(r)
    BY <1>2 DEF Begin, NotFound, ControllerNotResolved, NotAuthenticated,
                AuthenticatorNotCreated, SetContext
  <2>2. /\ node' = [node EXCEPT ![r] = NodeOf[keyname[r]]] /\ UNCHANGED options
        /\ options[r] = NoNode
    BY <2>1, LookupFinds DEF Lookup, OwnContexts, OwnContext
  <2>3. \E label \in Labels \ {"new"} : pc' = [pc EXCEPT ![r] = label]
    BY <1>2 DEF Begin, NotFound, ControllerNotResolved, NotAuthenticated,
                AuthenticatorNotCreated, SetContext, Fail, Enter, GoOn, Labels, HookNames
  <2>4. \/ UNCHANGED context /\ pc'[r] # "authenticate"
        \/ context' = [context EXCEPT ![r] = node'[r]]
    BY <1>1, <1>2 DEF Begin, NotFound, ControllerNotResolved, NotAuthenticated,
                      AuthenticatorNotCreated, SetContext, Fail, Enter, GoOn
  <2>5. OwnContext(r)'
    BY <1>1, <2>2, <2>3, <2>4 DEF OwnContext
  <2>6. ASSUME NEW q \in Requests, q # r PROVE OwnContext(q)'
    <3>1. pc'[q] = pc[q] /\ node'[q] = node[q] /\ context'[q] = context[q]
      BY <1>1, <2>2, <2>3, <2>4, <2>6
    <3> QED BY <2>2, <3>1 DEF OwnContexts, OwnContext
  <2> QED BY <2>5, <2>6 DEF OwnContexts
<1>3. ASSUME NEW r \in Requests, Identified(r) PROVE OwnContexts'
  <2>1. /\ pc[r] = "authenticate" /\ options' = [options EXCEPT ![r] = context[r]]
        /\ pc' = [pc EXCEPT ![r] = "guards"] /\ UNCHANGED <<node, context>>
    BY <1>1, <1>3 DEF Identified, GoOn, shared
  <2>2. OwnContext(r)'
    BY <1>1, <2>1 DEF OwnContexts, OwnContext
  <2>3. ASSUME NEW q \in Requests, q # r PROVE OwnContext(q)'
    BY <1>1, <2>1, <2>3 DEF OwnContexts, OwnContext
  <2> QED BY <2>2, <2>3 DEF OwnContexts
<1>4. ASSUME NEW r \in Requests, UNCHANGED <<node, options, context>>,
             \/ UNCHANGED pc
             \/ \E label \in Labels \ {"new", "authenticate"} : pc' = [pc EXCEPT ![r] = label]
      PROVE  OwnContexts'
  BY <1>1, <1>4 DEF OwnContexts, OwnContext
<1>5. ASSUME NEW r \in Requests, Continue(r), ~Identified(r) PROVE OwnContexts'
  <2>1. UNCHANGED <<node, options, context>>
    BY <1>5 DEF Continue, AuthenticationFails, GuardAnswers, GuardThrowsTyped, GuardsDone,
         Ask, InterceptRequest, InterceptResponse, InterceptError, Call, Resolve,
         ErrorIntercepted, HashThrows, ArgumentsWereCached, ArgumentsNotCached,
         RequestIntercepted, ArgumentsResolved, ArgumentsFail, ControllerReturns,
         ControllerThrows, kept, shared
  <2>2. \/ UNCHANGED pc
        \/ \E label \in Labels \ {"new", "authenticate"} : pc' = [pc EXCEPT ![r] = label]
    BY ZenonT(40), <1>5 DEF Continue, AuthenticationFails, GuardAnswers, GuardThrowsTyped, GuardsDone,
         InterceptRequest, InterceptResponse, InterceptError, Return, Throw, Resolve,
         ErrorIntercepted, HashThrows, ArgumentsWereCached, ArgumentsNotCached,
         ArgumentsResolved, ArgumentsFail, ControllerReturns, ControllerThrows,
         Fail, GoOn, Enter, Labels, HookNames
  <2> QED BY <1>4, <2>1, <2>2
<1>6. CASE UNCHANGED vars
  BY <1>6 DEF vars, OwnContexts, OwnContext
<1>7. ASSUME NEW r \in Requests, UrlNotParsed(r) PROVE OwnContexts'
  BY <1>4, <1>7 DEF UrlNotParsed, GoOn, Labels, kept, shared
<1> QED BY <1>2, <1>3, <1>5, <1>6, <1>7 DEF Next

\* An authenticator that is created for each request goes by the options of the route
\* of its request: that a singleton serves all of them is the one way to read the
\* options of another request.
THEOREM OwnAuthenticatorsReadOwnOptions ==
    ~SingletonAuthenticator /\ Spec => []OptionsAreOwn
<1>1. Init => GuardInv /\ OwnContexts
  BY GuardInvInit, RouterAssumption DEF Init, OwnContexts, OwnContext
<1>2. ~SingletonAuthenticator /\ GuardInv /\ OwnContexts /\ [Next]_vars
      => (GuardInv /\ OwnContexts)'
  BY GuardInvStep, OwnContextsStep
<1>3. OwnContexts => OptionsAreOwn
  BY DEF OwnContexts, OwnContext, OptionsAreOwn
<1>4. CASE ~SingletonAuthenticator
  BY <1>1, <1>2, <1>3, <1>4, PTL DEF Spec
<1> QED BY <1>4
=============================================================================
