------------------------------ MODULE RouteTree ------------------------------
(***************************************************************************)
(* The tree of PathRouterNodes and MethodRouterNodes of packages/networking*)
(* and its recursive operations: add(), find() and getRouteParameters().   *)
(*                                                                         *)
(* Paths are sequences of segments, as UrlUtil.splitPath() returns them,   *)
(* without the first one: it is "/" for the root and for every path.  A    *)
(* path node is the sequence of the segments that lead to it.  splitPath() *)
(* has no segment at all for the path "/", which no route is found for.    *)
(***************************************************************************)
EXTENDS Naturals, Sequences, FiniteSetsExt, SequencesExt

CONSTANTS
    Literals, Parameters, CatchAlls,    \* the segments of the routes
    Methods,
    Patterns,       \* the paths that may be registered
    Paths,          \* the paths that may be requested, made of literals
    MaxRoutes       \* how many routes are registered

Segments == Literals \cup Parameters \cup CatchAlls
VARIABLES
    children,   \* [path nodes -> sequence of segments and methods, in order]
    registered, \* the sequence of routes that were added, as <<path, method>>
    refused     \* the route whose register() threw, once in a <<>>: setup() ends
treeVars == <<children, registered, refused>>

Root == <<>>
None == [found |-> FALSE]       \* the null that find() returns
MethodNode(n, m) == [found |-> TRUE, parent |-> n, method |-> m]

isCatchAll(n) == n # Root /\ Last(n) \in CatchAlls
containsRouteParameterInPath(n) == \E i \in DOMAIN n : n[i] \in Parameters
matches(segment, s) == segment \in CatchAlls \cup Parameters \/ segment = s

-----------------------------------------------------------------------------
(* PathRouterNode.add() *)

MergesIfMatches(segment, child) == child \in Segments /\ matches(child, segment)
\* The child a segment of a new route is merged with: a catch-all with any
\* catch-all, a parameter with the one of the same name, a literal with itself.
MergesWith(segment, child) ==
    IF segment \in CatchAlls THEN child \in CatchAlls ELSE child = segment

AddError == [error |-> TRUE]
RECURSIVE add(_, _, _, _)
add(tree, n, rest, m) ==
    IF rest = <<>>
      THEN IF m \in Range(tree[n])
             THEN AddError
             ELSE [tree EXCEPT ![n] = Append(@, m)]
      ELSE LET merged == {i \in DOMAIN tree[n] : MergesWith(Head(rest), tree[n][i])}
               child == Append(n, IF merged = {} THEN Head(rest) ELSE tree[n][Min(merged)])
               grown == [p \in DOMAIN tree \cup {child} |->
                           IF p = child THEN <<>>
                           ELSE IF p = n THEN Append(tree[n], Head(rest)) ELSE tree[p]]
           IN add(IF merged = {} THEN grown ELSE tree, child, Tail(rest), m)

-----------------------------------------------------------------------------
(* PathRouterNode.find() and MethodRouterNode.find() *)

FirstFound(found) == found[1]
\* Which of the method nodes found below a node is returned.
MostAppropriate(found) ==
    LET nonCatchAll == SelectSeq(found, LAMBDA f : ~isCatchAll(f.parent))
        plain == SelectSeq(nonCatchAll, LAMBDA f : ~containsRouteParameterInPath(f.parent))
        deepest == Max({Len(f.parent) : f \in Range(found)})
    IN IF nonCatchAll # <<>>
         THEN IF Len(nonCatchAll) > 1 /\ plain # <<>> THEN plain[1] ELSE nonCatchAll[1]
         ELSE SelectSeq(found, LAMBDA f : Len(f.parent) = deepest)[1]

RECURSIVE findIn(_, _, _)
\* find() of the children of node n, which has matched all before rest.
findIn(n, rest, m) ==
    LET findChild(c) ==
          CASE c \in Methods ->
                 IF c = m /\ (rest = <<>> \/ isCatchAll(n)) THEN MethodNode(n, m) ELSE None
            [] c \in Segments ->
                 IF rest # <<>> /\ matches(c, Head(rest))
                   THEN findIn(Append(n, c), Tail(rest), m) ELSE None
        found == SelectSeq([i \in DOMAIN children[n] |-> findChild(children[n][i])],
                           LAMBDA f : f.found)
    IN IF found = <<>> THEN None ELSE MostAppropriate(found)

find(path, m) == IF path = <<>> THEN None ELSE findIn(Root, path, m)

\* {...parameters, ...parent.getRouteParameters()}: the parent overrides.
MergeOverParent(p, value, outer) ==
    [q \in DOMAIN outer \cup {p} |-> IF q = p THEN value ELSE outer[q]]
MergeParameters(p, value, outer) ==
    [q \in DOMAIN outer \cup {p} |-> IF q \in DOMAIN outer THEN outer[q] ELSE value]

\* Called with the path reversed: every node takes the segment at the head.
RECURSIVE getRouteParameters(_, _)
getRouteParameters(n, reversed) ==
    IF n = Root THEN <<>>
    ELSE LET outer == getRouteParameters(Front(n), Tail(reversed))
         IN IF Last(n) \in Parameters
              THEN MergeParameters(Last(n), Head(reversed), outer)
              ELSE outer

-----------------------------------------------------------------------------
TreeInit ==
    /\ children = [n \in {Root} |-> <<>>]
    /\ registered = <<>>
    /\ refused = <<>>

\* Router.register(), called by setup() for one route after the other; the
\* first one that is refused ends setup() with its error.
register(p, m) ==
    /\ refused = <<>> /\ Len(registered) < MaxRoutes
    /\ LET tree == add(children, Root, p, m) IN
       IF tree = AddError
         THEN refused' = <<<<p, m>>>> /\ UNCHANGED <<children, registered>>
         ELSE /\ children' = tree
              /\ registered' = Append(registered, <<p, m>>)
              /\ UNCHANGED refused

TreeNext == \E p \in Patterns, m \in Methods : register(p, m)

-----------------------------------------------------------------------------
(* The reference: a lookup in the list of the registered routes.           *)

EndsInCatchAll(p) == p # <<>> /\ Last(p) \in CatchAlls
Covers(p, path) ==
    /\ \A i \in DOMAIN p : i <= Len(path) /\ matches(p[i], path[i])
    /\ Len(p) = Len(path) \/ EndsInCatchAll(p)
Candidates(path, m) == {p \in Patterns : <<p, m>> \in Range(registered) /\ Covers(p, path)}
\* A route without a catch-all at its end beats one with it, and among those one
\* without parameters wins; the longest of the catch-alls wins.
Better(p, q) ==
    \/ ~EndsInCatchAll(p) /\ EndsInCatchAll(q)
    \/ /\ ~EndsInCatchAll(p) /\ ~EndsInCatchAll(q)
       /\ ~containsRouteParameterInPath(p) /\ containsRouteParameterInPath(q)
    \/ EndsInCatchAll(p) /\ EndsInCatchAll(q) /\ Len(p) > Len(q)
Best(path, m) == {p \in Candidates(path, m) : \A q \in Candidates(path, m) : ~Better(q, p)}

\* The routes are found that a search through the list of all routes finds: a
\* request gets a route exactly if one covers its path, and no other route is
\* more specific, in whatever order the controllers registered them.
FindIsMostSpecific ==
    \A path \in Paths, m \in Methods :
        LET f == find(path, m) IN
        IF Candidates(path, m) = {} THEN f = None
        ELSE f.found /\ f.method = m /\ f.parent \in Best(path, m)

\* setup() is only ended by a route that exists already, and routes that are
\* different, if only in the name of a parameter, are never taken for one.
OnlyDuplicatesRefused ==
    /\ IsInjective(registered)
    /\ Range(refused) \subseteq Range(registered)

\* A parameter of a route that matched segment by segment gets the segment at
\* its position, and of two with one name the first counts.
ParametersAreInPlace ==
    \A path \in Paths, m \in Methods :
        LET f == find(path, m)
            n == f.parent
            values == getRouteParameters(n, Reverse(path))
        IN f.found /\ Len(n) = Len(path) =>
             /\ DOMAIN values = Range(n) \cap Parameters
             /\ \A p \in DOMAIN values :
                   values[p] = path[Min({i \in DOMAIN n : n[i] = p})]

\* The tree answers as the list of the routes would.
TreeAgreesWithList == FindIsMostSpecific /\ OnlyDuplicatesRefused /\ ParametersAreInPlace
=============================================================================
