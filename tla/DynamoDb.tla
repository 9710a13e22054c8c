----------------------------- MODULE DynamoDb -----------------------------
(***************************************************************************)
(* packages/aws, DynamodbClient: items by their key, created, put,         *)
(* updated, deleted, and listed page by page, by several callers at once.  *)
(* Every request of the table is one step.                                 *)
(*                                                                         *)
(* The table is external: the keys that have an item; what an item holds   *)
(* is left out.  No request asks for a consistent read, and an index never *)
(* has one: until the replicas have caught up a reader may be shown, key   *)
(* by key, an item that is gone or none where there is one.  A scan        *)
(* returns the items after the start key in the order of the keys, a page  *)
(* at a time; an item keeps its place in that order.  A request fails for  *)
(* any reason with "error", a write possibly after it took effect.         *)
(***************************************************************************)
EXTENDS Naturals, Sequences, FiniteSets, SequencesExt

CONSTANTS Requesters,
          NumKeys,              \* keys are numbers, in the order of the index
          PageSize,
          MaxCalls,             \* bound: calls that are made
          NullValue

Keys == 1..NumKeys

DynamoAssumption ==
    /\ NumKeys \in Nat \ {0} /\ PageSize \in Nat \ {0}
    /\ NullValue \notin Nat /\ NullValue \notin {"error", "ItemNotFoundException"}

VARIABLES table,                \* the keys with an item, at the provider
          lagging,              \* keys of which a reader may be shown the opposite
          calls,                \* caller -> its call
          made                  \* the number of calls

dynamoVars == <<table, lagging, calls, made>>

NoCall == [op |-> NullValue, key |-> NullValue, step |-> "none", result |-> NullValue, items |-> <<>>,
           from |-> 0, forward |-> TRUE, filter |-> Keys, always |-> {}]
DynamoInit ==
    /\ table \in SUBSET Keys
    /\ lagging = {}
    /\ calls = [c \in Requesters |-> NoCall]
    /\ made = 0

Ended(c) == calls[c].step \in {"none", "done"}

\* A write shows at once to the next writer, and later to the readers.
TableBecomes(keys) ==
    /\ table' = keys
    /\ lagging' = lagging \cup (table \ keys) \cup (keys \ table)

\* The replicas and the indexes catch up.
CatchUp(k) ==
    /\ k \in lagging
    /\ lagging' = lagging \ {k}
    /\ UNCHANGED <<table, calls, made>>

\* The items that every reader is shown, and those that one may be shown.
Settled == table \ lagging
Shown == table \cup lagging
\* What a step leaves of the items that every reader was shown all along a call.
Kept == [c \in Requesters |-> [calls[c] EXCEPT !.always = @ \cap Settled']]
Result(c, r) == calls' = [Kept EXCEPT ![c].step = "done", ![c].result = r]

\* A caller may give a page size and the key that its page starts after, and the
\* caller of findBySecondaryIndex() an order and filters.
Call(c) ==
    /\ Ended(c) /\ made < MaxCalls
    /\ \E op \in {"get", "create", "put", "delete", "list", "page", "find", "findPage"}, k \in Keys,
          forward \in BOOLEAN, filter \in {Keys, {1}} :
         /\ op \in {"list", "page", "find", "findPage"} => k = 1
         /\ op \notin {"find", "findPage"} => forward /\ filter = Keys
         /\ \E from \in {IF forward THEN 0 ELSE NumKeys + 1} \cup {j \in Keys : op \in {"page", "findPage"}} :
              calls' = [calls EXCEPT ![c] =
                [NoCall EXCEPT !.op = op, !.key = k, !.step = "start",
                               !.from = from, !.forward = forward, !.filter = filter, !.always = Settled]]
    /\ made' = made + 1
    /\ UNCHANGED <<table, lagging>>

\* convertError(): what the table answers, as an error of this package.
everyErrorIsNotFound(name) == "ItemNotFound"
convertError(name) ==
    CASE name = "ResourceNotFoundException" -> "TableNotFound"
      [] name = "ItemNotFoundException" -> "ItemNotFound"
      [] name = "ValidationException" -> "Validation"
      [] OTHER -> "Dynamodb"
\* The errors of a request for an item.
GetErrors(k) == {"error"} \cup {e \in {"ItemNotFoundException"} : k \notin Settled}

\* get(): an item that is not found is null.
get(c) ==
    /\ calls[c].op = "get" /\ calls[c].step = "start"
    /\ UNCHANGED <<table, lagging, made>>
    /\ \/ calls[c].key \in Shown /\ Result(c, <<"item">>)
       \/ \E e \in GetErrors(calls[c].key) :
            Result(c, IF convertError(e) = "ItemNotFound" THEN <<"null">> ELSE <<"thrown", convertError(e)>>)

\* create(): get, then put when nothing was found.
createAnyway(c) ==
    /\ calls[c].op = "create" /\ calls[c].step = "start"
    /\ calls' = [calls EXCEPT ![c].step = "put"]
    /\ UNCHANGED <<table, lagging, made>>
createCheck(c) ==
    /\ calls[c].op = "create" /\ calls[c].step = "start"
    /\ UNCHANGED <<table, lagging, made>>
    /\ \/ calls[c].key \in Shown /\ Result(c, <<"thrown", "ItemAlreadyExists">>)
       \/ \E e \in GetErrors(calls[c].key) :
            IF convertError(e) = "ItemNotFound" THEN calls' = [calls EXCEPT ![c].step = "put"]
            ELSE Result(c, <<"thrown", convertError(e)>>)

\* How a request to write ends, given what it does to the table: it took effect, or it
\* failed with or without effect, or it took effect and the SDK sends it again.
Sent(c, effect, answer) ==
    /\ \/ effect /\ Result(c, answer)
       \/ effect /\ Result(c, <<"thrown", convertError("error")>>)
       \/ effect /\ calls' = Kept
       \/ UNCHANGED <<table, lagging>> /\ Result(c, <<"thrown", convertError("error")>>)
    /\ UNCHANGED made

\* put(), update(), which makes an item that is missing, and the second step of create().
write(c) ==
    /\ \/ calls[c].op = "put" /\ calls[c].step = "start"
       \/ calls[c].op = "create" /\ calls[c].step = "put"
    /\ Sent(c, TableBecomes(table \cup {calls[c].key}), <<"item">>)

delete(c) ==
    /\ calls[c].op = "delete" /\ calls[c].step = "start"
    /\ Sent(c, TableBecomes(table \ {calls[c].key}), <<"void">>)

\* The pages of a scan or of a query, of the keys that the reader is shown: what the
\* filter leaves of a page, and the key that the next page starts after.
Before(j, k, forward) == IF forward THEN j < k ELSE j > k
FirstOf(keys, forward) == {k \in keys : Cardinality({j \in keys : Before(j, k, forward)}) < PageSize}
LastOf(keys, forward) == CHOOSE k \in keys : \A j \in keys : j = k \/ Before(j, k, forward)
Views == {S \in SUBSET Shown : Settled \subseteq S}
Page(c, seen) == FirstOf({k \in seen : Before(calls[c].from, k, calls[c].forward)}, calls[c].forward)
lastEvaluatedKey(c, page) == IF Cardinality(page) < PageSize THEN NullValue ELSE LastOf(page, calls[c].forward)
skipOne(c, page) == lastEvaluatedKey(c, page) + 1
nextKey(c, page) == lastEvaluatedKey(c, page)

\* One page is added: the last one, or the only one of a caller that gave a page size.
Collect(c, once) ==
    /\ calls[c].step = "start"
    /\ UNCHANGED <<table, lagging, made>>
    /\ \/ \E seen \in Views :
            LET page == Page(c, seen)
                items == Append(calls[c].items, page \cap calls[c].filter) IN
            \/ /\ once \/ lastEvaluatedKey(c, page) = NullValue
               /\ calls' = [calls EXCEPT ![c].step = "done", ![c].items = items,
                                         ![c].result = <<"key", lastEvaluatedKey(c, page)>>]
            \/ /\ ~once /\ lastEvaluatedKey(c, page) # NullValue
               /\ calls' = [calls EXCEPT ![c].items = items, ![c].from = nextKey(c, page)]
       \/ Result(c, <<"thrown", convertError("error")>>)
list(c) == calls[c].op \in {"list", "page"} /\ Collect(c, calls[c].op = "page")
findBySecondaryIndex(c) == calls[c].op \in {"find", "findPage"} /\ Collect(c, calls[c].op = "findPage")

DynamoNext ==
    \/ \E c \in Requesters : Call(c) \/ get(c) \/ createCheck(c) \/ write(c) \/ delete(c) \/ list(c) \/ findBySecondaryIndex(c)
    \/ \E k \in Keys : CatchUp(k)
DynamoSpec == DynamoInit /\ [][DynamoNext]_dynamoVars

-----------------------------------------------------------------------------
Created(c) == calls[c].op = "create" /\ calls[c].step = "done" /\ calls[c].result[1] = "item"
Listed(c) == UNION ToSet(calls[c].items)

\* create() never replaces an item that every reader was shown from its call to its
\* end, a failed look-up is no licence to create, a listing returns an item once, and
\* each item that every reader was shown from its beginning to its end.
TableIsSound ==
    \A c \in Requesters :
       /\ Created(c) => calls[c].key \notin calls[c].always
       /\ \A i, j \in DOMAIN calls[c].items : i # j => calls[c].items[i] \cap calls[c].items[j] = {}
       /\ calls[c].op \in {"list", "find"} /\ calls[c].step = "done" /\ calls[c].result[1] = "key"
            => calls[c].always \cap calls[c].filter \subseteq Listed(c)
=============================================================================
