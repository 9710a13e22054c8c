------------------------------- MODULE Router -------------------------------
(***************************************************************************)
(* Router.execute() of packages/networking, with the managers it awaits:   *)
(* AuthenticationManager and AuthorizerManager of packages/security and    *)
(* the RouterCache that all requests of a process share.                   *)
(*                                                                         *)
(* A step is what runs between two awaits.  Several requests are in flight *)
(* at once and meet in the cache and in an authenticator that is a         *)
(* @singleton(), as the ones for Auth0, Cognito and Identity Platform are. *)
(***************************************************************************)
EXTENDS Naturals, Sequences

CONSTANTS
    Requests,           \* the requests in flight
    Keys,               \* cache keys: a method and a path
    Nodes,              \* MethodRouterNodes of the route tree
    Identities,
    Interceptors,       \* sequence, in the order the sort by priority leaves
    Keynames,           \* the methods and paths the requests may have
    Hashes,             \* what hashRequest() returns
    RequestHashes,      \* the hashes the requests may have
    NodeOf,             \* [Keys -> Nodes \cup {NoNode}]: root.find()
    Authenticated,      \* the nodes with an @authenticator
    Guards,             \* [Nodes -> Nat]: how many @guard a node has
    Hooks,              \* [interceptors -> SUBSET HookNames]
    Unresolvable,       \* the nodes whose controller cannot be constructed
    Malformed,          \* the keys whose url cannot be parsed, as that of "//"
    SingletonAuthenticator,  \* does one instance serve every request?
    NoNode, NoIdentity, NoArguments, NoError, Unset,
    Unhashable,         \* hashRequest() returns null: the body has a cycle
    InvalidUrl          \* hashRequest() throws: the url is relative

HookNames == {"interceptRequest", "interceptResponse", "interceptError"}
Instances == Requests \cup {"singleton"}
Statuses == {0, 200, 401, 403, 404, 500}
Arguments == [of : Requests, identity : Identities \cup {NoIdentity}]
InterceptorSet == {Interceptors[i] : i \in DOMAIN Interceptors}

(* Interceptors without the hook are skipped. *)
Implementing(hook) == SelectSeq(Interceptors, LAMBDA i : hook \in Hooks[i])

ASSUME RouterAssumption ==
    /\ Keynames \subseteq [Requests -> Keys]
    /\ RequestHashes \subseteq [Requests -> Hashes \cup {Unhashable, InvalidUrl}]
    /\ NodeOf \in [Keys -> Nodes \cup {NoNode}]
    /\ NoNode \notin Nodes /\ Unset \notin Nodes \cup {NoNode}
    /\ Authenticated \subseteq Nodes /\ Unresolvable \subseteq Nodes /\ Malformed \subseteq Keys
    /\ Guards \in [Nodes -> Nat]
    /\ SingletonAuthenticator \in BOOLEAN
    /\ NoIdentity \notin Identities
    /\ Unhashable \notin Hashes /\ InvalidUrl \notin Hashes
    /\ "singleton" \notin Requests
    /\ NoError \notin Statuses /\ NoArguments \notin Arguments

\* The interceptors left of a sequence of interceptors are one.
ASSUME InterceptorsAssumption ==
    \A hook \in HookNames : Implementing(hook) \in Seq(InterceptorSet)

VARIABLES
    keyname,        \* the method and the path of each request
    hash,           \* what hashRequest() makes of it after the interceptors
    isActive,       \* routerCache.isActive
    routes,         \* [Keys -> the methodNode cached, NoNode for a 404]
    cached,         \* [Keys -> [Hashes -> the arguments cached]]
    context,        \* [Instances -> the node whose options it was given]
    pc,             \* where each request is
    node,           \* methodNode
    options,        \* the node whose options it was authenticated with
    identity,
    verdicts,       \* what the guards of the request answered so far
    todo,           \* the interceptors that are still to be called
    error,          \* the status of the error being answered, or NoError
    arguments,      \* what the controller was called with
    response        \* the response, with the interceptors that saw it

input == <<keyname, hash, isActive>>
shared == <<routes, cached, context>>
vars == <<keyname, hash, isActive, routes, cached, context, pc, node, options, identity,
          verdicts, todo, error, arguments, response>>

AuthenticatorOf(r) == IF SingletonAuthenticator THEN "singleton" ELSE r
NewResponse(status) == [status |-> status, error |-> <<>>, response |-> <<>>]

Init ==
    /\ keyname \in Keynames
    /\ hash \in RequestHashes
    /\ isActive \in BOOLEAN
    /\ routes = [k \in Keys |-> Unset]
    /\ cached = [k \in Keys |-> [h \in Hashes |-> NoArguments]]
    /\ context = [i \in Instances |-> NoNode]
    /\ pc = [r \in Requests |-> "new"]
    /\ node = [r \in Requests |-> NoNode]
    /\ options = [r \in Requests |-> NoNode]
    /\ identity = [r \in Requests |-> NoIdentity]
    /\ verdicts = [r \in Requests |-> <<>>]
    /\ todo = [r \in Requests |-> <<>>]
    /\ error = [r \in Requests |-> NoError]
    /\ arguments = [r \in Requests |-> NoArguments]
    /\ response = [r \in Requests |-> NewResponse(0)]

-----------------------------------------------------------------------------
Enter(r, hook) ==
    /\ todo' = [todo EXCEPT ![r] = Implementing(hook)]
    /\ pc' = [pc EXCEPT ![r] = hook]

\* executeErrorResponseInterceptors(): the error becomes a new response.
Fail(r, status) ==
    /\ error' = [error EXCEPT ![r] = status]
    /\ response' = [response EXCEPT ![r] = NewResponse(status)]
    /\ Enter(r, "interceptError")

kept == <<input, shared, node, options, identity, verdicts, arguments>>

GoOn(r, label) ==
    /\ pc' = [pc EXCEPT ![r] = label]
    /\ UNCHANGED <<todo, error, response>>

-----------------------------------------------------------------------------
(* execute() up to its first await: the lookup, the construction of the    *)
(* controller and authenticate() as far as the setContext() it awaits.     *)

\* RouterCache.get(), or find() when the cache has nothing; a route that does
\* not exist is cached as well.
MethodNode(k) == IF isActive /\ routes[k] # Unset THEN routes[k] ELSE NodeOf[k]

Lookup(r) ==
    /\ pc[r] = "new" /\ keyname[r] \notin Malformed
    /\ node' = [node EXCEPT ![r] = MethodNode(keyname[r])]
    /\ routes' = IF isActive THEN [routes EXCEPT ![keyname[r]] = MethodNode(keyname[r])]
                             ELSE routes
    /\ UNCHANGED <<input, cached, options, identity, verdicts, arguments>>

\* new URL() throws inside the executor of the promise, which is an async function:
\* nothing is left that could settle what execute() returned.
UrlNotParsed(r) ==
    /\ pc[r] = "new" /\ keyname[r] \in Malformed
    /\ GoOn(r, "unhandled")
    /\ UNCHANGED kept

NotFound(r) ==
    /\ Lookup(r)
    /\ node'[r] = NoNode
    /\ Fail(r, 404)
    /\ UNCHANGED context

\* container.resolve() throws inside the executor as well.
ControllerNotResolved(r) ==
    /\ Lookup(r)
    /\ node'[r] \in Unresolvable
    /\ GoOn(r, "unhandled")
    /\ UNCHANGED context

NotAuthenticated(r) ==
    /\ Lookup(r)
    /\ node'[r] \in Nodes \ (Unresolvable \cup Authenticated)
    /\ GoOn(r, "guards")
    /\ UNCHANGED context

\* AuthenticatorFactory.fromContext() throws.
AuthenticatorNotCreated(r) ==
    /\ Lookup(r)
    /\ node'[r] \in Authenticated \ Unresolvable
    /\ Fail(r, 401)
    /\ UNCHANGED context

SetContext(r) ==
    /\ Lookup(r)
    /\ node'[r] \in Authenticated \ Unresolvable
    /\ GoOn(r, "authenticate")
    /\ context' = [context EXCEPT ![AuthenticatorOf(r)] = node'[r]]

-----------------------------------------------------------------------------
(* authenticate() of the authenticator and the identity providers.  The    *)
(* options are read after the last await.                                  *)

\* No identity is not a failure: the guards decide about it.
Identified(r) ==
    /\ pc[r] = "authenticate"
    /\ options' = [options EXCEPT ![r] = context[AuthenticatorOf(r)]]
    /\ \E i \in Identities \cup {NoIdentity} : identity' = [identity EXCEPT ![r] = i]
    /\ GoOn(r, "guards")
    /\ UNCHANGED <<input, shared, node, verdicts, arguments>>

StatusAsThrown(thrown) == thrown
\* An error that is neither a 401 nor a 403 is wrapped in an UnauthorizedError.
AuthenticationStatus(thrown) == IF thrown \in {401, 403} THEN thrown ELSE 401

AuthenticationFails(r) ==
    /\ pc[r] = "authenticate"
    /\ \E thrown \in {401, 403, 500} : Fail(r, AuthenticationStatus(thrown))
    /\ UNCHANGED <<input, shared, node, options, identity, verdicts, arguments>>

-----------------------------------------------------------------------------
(* AuthorizerManager.isAuthorized(): every guard is asked, one after the   *)
(* other, whatever the ones before it said.                                *)

LastGuardDecides(answers) == answers = <<>> \/ answers[Len(answers)] = "allow"
isAuthorized(answers) == \A i \in DOMAIN answers : answers[i] = "allow"

Ask(r) ==
    /\ pc[r] = "guards"
    /\ Len(verdicts[r]) < Guards[node[r]]
    /\ UNCHANGED <<input, shared, node, options, identity, arguments>>

GuardAnswers(r) ==
    /\ Ask(r)
    /\ \E v \in {"allow", "deny", "error"} :
          verdicts' = [verdicts EXCEPT ![r] = Append(@, v)]
    /\ UNCHANGED <<pc, todo, error, response>>

GuardRejects(r) ==
    /\ Ask(r)
    /\ verdicts' = [verdicts EXCEPT ![r] = Append(@, "error")]
    /\ GoOn(r, "unhandled")
\* A 401 or a 403 a guard throws ends the loop and is the answer.
GuardThrowsTyped(r) ==
    /\ Ask(r)
    /\ verdicts' = [verdicts EXCEPT ![r] = Append(@, "error")]
    /\ \E status \in {401, 403} : Fail(r, status)

GuardsDone(r) ==
    /\ pc[r] = "guards"
    /\ Len(verdicts[r]) = Guards[node[r]]
    /\ IF isAuthorized(verdicts[r])
         THEN Enter(r, "interceptRequest") /\ UNCHANGED <<error, response>>
         ELSE Fail(r, 403)
    /\ UNCHANGED <<input, shared, node, options, identity, verdicts, arguments>>

-----------------------------------------------------------------------------
(* The interceptors, in the order of their priorities.  One that throws    *)
(* leaves its loop: before the error path that is an error to answer, on   *)
(* it the promise is rejected.                                             *)

Call(r, hook) ==
    /\ pc[r] = hook
    /\ todo[r] # <<>>
    /\ UNCHANGED kept
Return(r) ==
    /\ todo' = [todo EXCEPT ![r] = Tail(@)]
    /\ UNCHANGED <<pc, error>>
ThrowWithoutStatus(r) ==
    IF error[r] = NoError THEN Fail(r, error[r]) ELSE GoOn(r, "rejected")
Throw(r) ==
    IF error[r] = NoError THEN Fail(r, 500) ELSE GoOn(r, "rejected")

InterceptRequest(r) ==
    /\ Call(r, "interceptRequest")
    /\ \/ Return(r) /\ UNCHANGED response
       \/ Throw(r)

InterceptResponse(r) ==
    /\ Call(r, "interceptResponse")
    /\ \/ /\ Return(r)
          /\ response' = [response EXCEPT ![r].response = Append(@, Head(todo[r]))]
       \/ Throw(r)

InterceptError(r) ==
    /\ Call(r, "interceptError")
    /\ \/ /\ Return(r)
          /\ response' = [response EXCEPT ![r].error = Append(@, Head(todo[r]))]
       \/ Throw(r)

Resolve(r) ==
    /\ pc[r] = "interceptResponse" /\ todo[r] = <<>>
    /\ GoOn(r, "resolved")
    /\ UNCHANGED kept

ResolveAfterErrors(r) ==
    /\ pc[r] = "interceptError" /\ todo[r] = <<>>
    /\ GoOn(r, "resolved")
    /\ UNCHANGED kept
ErrorIntercepted(r) ==
    /\ pc[r] = "interceptError" /\ todo[r] = <<>>
    /\ Enter(r, "interceptResponse")
    /\ UNCHANGED <<kept, error, response>>

-----------------------------------------------------------------------------
(* The arguments of the controller method and the call.                    *)

CachedForPath(r) ==
    IF isActive /\ \E h \in Hashes : cached[keyname[r]][h] # NoArguments
      THEN CHOOSE c \in {cached[keyname[r]][h] : h \in Hashes} : c # NoArguments
      ELSE NoArguments
\* getCachedControllerMethodArguments()
CachedArguments(r) ==
    IF isActive /\ hash[r] \in Hashes THEN cached[keyname[r]][hash[r]]
                                        ELSE NoArguments
RequestIntercepted(r) ==
    /\ pc[r] = "interceptRequest" /\ todo[r] = <<>>
    /\ UNCHANGED <<input, shared, node, options, identity, verdicts>>

\* hashRequest() parses the url without a base.
HashThrows(r) ==
    /\ RequestIntercepted(r)
    /\ isActive /\ hash[r] = InvalidUrl
    /\ Fail(r, 500)
    /\ UNCHANGED arguments

ArgumentsWereCached(r) ==
    /\ RequestIntercepted(r)
    /\ CachedArguments(r) # NoArguments
    /\ arguments' = [arguments EXCEPT ![r] = CachedArguments(r)]
    /\ GoOn(r, "controller")

ArgumentsNotCached(r) ==
    /\ RequestIntercepted(r)
    /\ CachedArguments(r) = NoArguments
    /\ ~(isActive /\ hash[r] = InvalidUrl)
    /\ GoOn(r, "arguments")
    /\ UNCHANGED arguments

\* The resolvers were awaited; the result is cached and the method called.
OwnArguments(r) == [of |-> r, identity |-> identity[r]]
ArgumentsResolved(r) ==
    /\ pc[r] = "arguments"
    /\ arguments' = [arguments EXCEPT ![r] = OwnArguments(r)]
    /\ cached' = IF isActive /\ hash[r] \in Hashes
                   THEN [cached EXCEPT ![keyname[r]][hash[r]] = OwnArguments(r)]
                   ELSE cached
    /\ GoOn(r, "controller")
    /\ UNCHANGED <<input, routes, context, node, options, identity, verdicts>>

ArgumentsFail(r) ==
    /\ pc[r] = "arguments"
    /\ Fail(r, 500)
    /\ UNCHANGED kept

ControllerReturns(r) ==
    /\ pc[r] = "controller"
    /\ response' = [response EXCEPT ![r] = NewResponse(200)]
    /\ Enter(r, "interceptResponse")
    /\ UNCHANGED <<kept, error>>

ControllerThrows(r) ==
    /\ pc[r] = "controller"
    /\ \E status \in {404, 500} : Fail(r, status)
    /\ UNCHANGED kept

-----------------------------------------------------------------------------
Begin(r) ==
    \/ NotFound(r) \/ ControllerNotResolved(r) \/ NotAuthenticated(r)
    \/ AuthenticatorNotCreated(r) \/ SetContext(r)
Continue(r) ==
    \/ Identified(r) \/ AuthenticationFails(r)
    \/ GuardAnswers(r) \/ GuardThrowsTyped(r) \/ GuardsDone(r)
    \/ InterceptRequest(r) \/ InterceptResponse(r) \/ InterceptError(r)
    \/ Resolve(r) \/ ErrorIntercepted(r)
    \/ HashThrows(r) \/ ArgumentsWereCached(r) \/ ArgumentsNotCached(r)
    \/ ArgumentsResolved(r) \/ ArgumentsFail(r)
    \/ ControllerReturns(r) \/ ControllerThrows(r)

Next == \E r \in Requests : Begin(r) \/ UrlNotParsed(r) \/ Continue(r)
Spec == Init /\ [][Next]_vars

\* What a request awaits settles: the event loop runs its continuation.
Fairness == \A r \in Requests : WF_vars(Continue(r))
FairSpec == Spec /\ Fairness

-----------------------------------------------------------------------------
Labels == HookNames \cup {"new", "authenticate", "guards", "arguments",
             "controller", "resolved", "rejected", "unhandled"}

\* Every variable has its type.
TypeOK ==
    /\ keyname \in [Requests -> Keys]
    /\ hash \in [Requests -> Hashes \cup {Unhashable, InvalidUrl}]
    /\ isActive \in BOOLEAN
    /\ routes \in [Keys -> Nodes \cup {NoNode, Unset}]
    /\ cached \in [Keys -> [Hashes -> Arguments \cup {NoArguments}]]
    /\ context \in [Instances -> Nodes \cup {NoNode}]
    /\ pc \in [Requests -> Labels]
    /\ node \in [Requests -> Nodes \cup {NoNode}]
    /\ options \in [Requests -> Nodes \cup {NoNode}]
    /\ identity \in [Requests -> Identities \cup {NoIdentity}]
    /\ verdicts \in [Requests -> Seq({"allow", "deny", "error"})]
    /\ error \in [Requests -> (Statuses \ {0, 200}) \cup {NoError}]
    /\ arguments \in [Requests -> Arguments \cup {NoArguments}]
    /\ \A r \in Requests : response[r].status \in Statuses

\* A controller method is only called for a request whose route has been
\* found, whose credentials were checked and all of whose guards allowed it.
ControllerIsGuarded ==
    \A r \in Requests : arguments[r] # NoArguments =>
        /\ node[r] = NodeOf[keyname[r]]
        /\ node[r] \in Authenticated => options[r] # NoNode
        /\ Len(verdicts[r]) = Guards[node[r]]
        /\ \A i \in DOMAIN verdicts[r] : verdicts[r][i] = "allow"

\* The authenticator goes by the options of the route the request is for:
\* the context set for one request is not the one another request reads.
OptionsAreOwn ==
    \A r \in Requests : options[r] \in {NoNode, node[r]}

\* Whatever is cached or not, the arguments of a call were made from a request
\* that reads the same: same method and path, same url, headers and body.
\* Without the cache they were made from the request itself.
ArgumentsFitRequest ==
    \A r \in Requests : arguments[r] # NoArguments =>
        LET origin == arguments[r].of IN
        /\ keyname[origin] = keyname[r] /\ hash[origin] = hash[r]
        /\ ~isActive => arguments[r] = [of |-> r, identity |-> identity[r]]

\* Every response, of a success, of an error and of a route that does not
\* exist, has passed every response interceptor once and in order when it is
\* handed out, and every error interceptor before if it answers an error.
ResponseIsIntercepted ==
    \A r \in Requests : pc[r] = "resolved" =>
        /\ response[r].response = Implementing("interceptResponse")
        /\ response[r].error = IF error[r] = NoError THEN <<>>
                                  ELSE Implementing("interceptError")

\* The answer names the reason: a request that no route exists for gets 404, one
\* that was not let in 401 or 403, and only one whose controller returned and
\* whose response all interceptors accepted is a success.
AnswerNamesReason ==
    \A r \in Requests : pc[r] = "resolved" =>
        /\ NodeOf[keyname[r]] = NoNode <=> node[r] = NoNode
        /\ node[r] = NoNode => response[r].status = 404
        /\ \/ \E i \in DOMAIN verdicts[r] : verdicts[r][i] # "allow"
           \/ node[r] \in Authenticated /\ options[r] = NoNode
           => response[r].status \in {401, 403}
        /\ response[r].status = 200 => error[r] = NoError /\ arguments[r] # NoArguments

\* However requests overlap and wherever one fails, what is handed out is the answer
\* its steps call for.
AnswerIsRight == TypeOK /\ ResponseIsIntercepted /\ AnswerNamesReason

\* execute() settles the promise of every request, in whatever step it fails, with
\* two exceptions: its url cannot be parsed, or the controller of its route cannot
\* be constructed.
EveryRequestSettles ==
    \A r \in Requests :
        pc[r] # "new" ~> \/ pc[r] \in {"resolved", "rejected"}
                         \/ keyname[r] \in Malformed \/ node[r] \in Unresolvable
=============================================================================
