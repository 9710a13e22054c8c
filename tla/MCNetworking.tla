---------------------------- MODULE MCNetworking ----------------------------
(***************************************************************************)
(* Networking for TLC: the requests of a router, for an open route, one    *)
(* with an authenticator, one with an authenticator and two guards, one    *)
(* whose controller cannot be constructed, a path no route exists for and  *)
(* a url that cannot be parsed; or the route tree as the controllers of an *)
(* application build it up.                                                *)
(***************************************************************************)
EXTENDS Router

CONSTANTS r1, r2, h1, h2, open, private, guarded, missing, defect, garbled,
          list, read, update, broken, trace, mapping,
          a, b, x, y, any, get, put, MaxRoutes

AllNodes == {list, read, update, broken}
AllKeys == {open, private, guarded, missing, defect, garbled}
MalformedKeys == {garbled}
FoundNodes == [k \in AllKeys |-> CASE k = open -> list [] k = private -> read
                                   [] k = guarded -> update [] k = defect -> broken
                                   [] k \in {missing, garbled} -> NoNode]
AuthenticatedNodes == {read, update}
UnresolvableNodes == {broken}
GuardCounts == [n \in AllNodes |-> IF n = update THEN 2 ELSE 0]

\* Two requests are alike or differ, up to the names of requests and hashes.
Pair(p, q) == [r \in {r1, r2} |-> IF r = r1 THEN p ELSE q]
KeyPairs == {Pair(open, open), Pair(private, private), Pair(private, guarded),
             Pair(missing, missing), Pair(missing, defect),
             Pair(missing, garbled)}
HashPairs == {Pair(h1, h1), Pair(h1, h2), Pair(Unhashable, InvalidUrl)}

InterceptorOrder == <<trace, mapping>>
HookSets == [i \in {trace, mapping} |->
               IF i = trace THEN {"interceptRequest", "interceptResponse"}
                            ELSE {"interceptResponse", "interceptError"}]

\* Literals, parameters and catch-alls that overlap in every way.
RoutePatterns == {<<a>>, <<x>>, <<any>>, <<a, b>>, <<a, y>>, <<x, b>>, <<x, x>>,
                  <<a, any>>, <<x, any>>, <<any, any>>, <<any, b>>}
RequestPaths == UNION {[1..n -> {a, b}] : n \in 0..3}

VARIABLES
    building,   \* is it the tree that is looked at?
    children, registered, refused
Tree == INSTANCE RouteTree WITH
    Literals <- {a, b}, Parameters <- {x, y}, CatchAlls <- {any},
    Methods <- {get, put}, Patterns <- RoutePatterns, Paths <- RequestPaths

treeVars == <<children, registered, refused>>
NetworkingInit ==
    /\ Init /\ Tree!TreeInit
    /\ building \in BOOLEAN
    /\ building => /\ keyname = Pair(open, open)
                   /\ hash = Pair(h1, h1) /\ ~isActive
Serve == ~building /\ Next /\ UNCHANGED <<building, treeVars>>
Build == building /\ Tree!TreeNext /\ UNCHANGED <<building, vars>>
NetworkingSpec ==
    /\ NetworkingInit
    /\ [][Serve \/ Build]_<<building, vars, treeVars>>
    /\ Fairness

\* The routes of a tree, in whatever order the controllers registered them, are those a
\* search through the list of all routes finds, with their parameters.
TreeAgreesWithList == building => Tree!TreeAgreesWithList
=============================================================================
