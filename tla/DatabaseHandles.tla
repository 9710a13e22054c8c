--------------------------- MODULE DatabaseHandles ---------------------------
(***************************************************************************)
(* MysqlClient.getPool(), SqliteClient.getDatabase() and what runs a       *)
(* statement on the handle they return, for concurrent callers of one      *)
(* singleton client and one configuration key.  A step ends at an await:   *)
(* both look the key up, await the configuration and then register a new   *)
(* handle without looking again.                                           *)
(***************************************************************************)
EXTENDS Naturals, Sequences, FiniteSets

CONSTANTS
    Callers,
    MaxHandles,     \* bound: handles created in all
    PragmaFails,    \* may PRAGMA journal_mode fail on a database that was opened?
    NoHandle

HandlesAssumption == IsFiniteSet(Callers) /\ NoHandle \notin Nat

VARIABLES
    client,         \* "mysql" or "sqlite"
    registered,     \* pools.get(key), databases.get(key)
    handles,        \* the state of every handle that was created
    caller,         \* where each caller is and the handle it was given
    replaced        \* history: handles whose registration was overwritten or removed

handleVars == <<client, registered, handles, caller, replaced>>

Open == {h \in DOMAIN handles : handles[h] = "open"}
Ready == [at |-> "ready", handle |-> NoHandle, result |-> "none"]

HandlesInit ==
    /\ client \in {"mysql", "sqlite"}
    /\ registered = NoHandle
    /\ handles = <<>>
    /\ caller = [c \in Callers |-> Ready]
    /\ replaced = {}

At(c, label) == caller[c].at = label
Goto(c, label, h) == caller' = [caller EXCEPT ![c] = [Ready EXCEPT !.at = label, !.handle = h]]
Settle(c, result) ==
    caller' = [caller EXCEPT ![c] = [@ EXCEPT !.at = "settled", !.result = result]]

\* getPool(): force does not create a pool, it keeps one from being created.
getPool(c, force) ==
    /\ client = "mysql" /\ At(c, "ready")
    /\ IF registered = NoHandle /\ ~force
         THEN Goto(c, "config", NoHandle)
         ELSE Goto(c, "statement", registered)
    /\ UNCHANGED <<client, registered, handles, replaced>>

\* getDatabase(): force reopens.
getDatabase(c, force) ==
    /\ client = "sqlite" /\ At(c, "ready")
    /\ IF registered = NoHandle \/ force
         THEN Goto(c, "config", NoHandle)
         ELSE Goto(c, "statement", registered)
    /\ UNCHANGED <<client, registered, handles, replaced>>

\* getMysqlConfig(), getSqliteConfig(): no provider supports the key, the provider
\* throws or, for SQLite, the file name is empty.
configFails(c) ==
    /\ At(c, "config")
    /\ Settle(c, "error")
    /\ UNCHANGED <<client, registered, handles, replaced>>

createPool(c) ==
    LET h == Len(handles) + 1 IN
    /\ client = "mysql" /\ At(c, "config") /\ h <= MaxHandles
    /\ handles' = Append(handles, "open")
    /\ registered' = h
    /\ replaced' = replaced \cup ({registered} \ {NoHandle})
    /\ Goto(c, "statement", h)
    /\ UNCHANGED client

\* The previous database is closed before the new one is opened.
forgetPrevious == handles
closePrevious ==
    IF registered = NoHandle THEN handles ELSE [handles EXCEPT ![registered] = "closed"]

\* Opening fails, the PRAGMA fails on the database that was opened, or both work.
openDatabase(c) ==
    LET h == Len(handles) + 1 IN
    /\ client = "sqlite" /\ At(c, "config") /\ h <= MaxHandles
    /\ replaced' = replaced \cup ({registered} \ {NoHandle})
    /\ \/ /\ handles' = closePrevious /\ registered' = NoHandle
          /\ Settle(c, "error")
       \/ /\ PragmaFails
          /\ handles' = Append(closePrevious, "open") /\ registered' = NoHandle
          /\ Settle(c, "error")
       \/ /\ handles' = Append(closePrevious, "open") /\ registered' = h
          /\ Goto(c, "statement", h)
    /\ UNCHANGED client

\* SqliteClient.close().
close(c) ==
    /\ client = "sqlite" /\ At(c, "ready")
    /\ handles' = closePrevious /\ registered' = NoHandle
    /\ replaced' = replaced \cup ({registered} \ {NoHandle})
    /\ Settle(c, "closed")
    /\ UNCHANGED client

\* MysqlClient.executeSql() and querySql(): the pool may be undefined after a
\* forced getPool(), and the server may refuse the statement.
mysqlStatement(c) ==
    /\ client = "mysql" /\ At(c, "statement")
    /\ Settle(c, "error") \/ (caller[c].handle # NoHandle /\ Settle(c, "result"))
    /\ UNCHANGED <<client, registered, handles, replaced>>

\* SqliteClient.executeSql() and querySql() throw on a database that was closed
\* since the caller was given it.
sqliteStatement(c) ==
    /\ client = "sqlite" /\ At(c, "statement")
    /\ IF handles[caller[c].handle] = "open"
         THEN Settle(c, "result") \/ Settle(c, "error")
         ELSE Settle(c, "notOpen")
    /\ UNCHANGED <<client, registered, handles, replaced>>

Again(c) ==
    /\ At(c, "settled")
    /\ caller' = [caller EXCEPT ![c] = Ready]
    /\ UNCHANGED <<client, registered, handles, replaced>>

HandlesNext == \E c \in Callers :
    \/ \E force \in BOOLEAN : getPool(c, force) \/ getDatabase(c, force)
    \/ configFails(c) \/ createPool(c) \/ openDatabase(c) \/ close(c)
    \/ mysqlStatement(c) \/ sqliteStatement(c) \/ Again(c)

HandlesSpec == HandlesInit /\ [][HandlesNext]_handleVars

-----------------------------------------------------------------------------
(* Properties                                                              *)

\* The SQLite client keeps one database per key open, whoever opens, reopens and
\* closes it at the same time, as long as a database that was opened can be set
\* up: nothing is open but what is registered.
OneOpenDatabase == client = "sqlite" /\ ~PragmaFails => Open = {registered} \ {NoHandle}

\* A statement runs on an open handle unless that handle was replaced after it
\* was given out; a pool stays open even then, and is given out once at least.
StatementsFindTheirHandle ==
    \A c \in Callers : At(c, "statement") /\ caller[c].handle # NoHandle =>
        caller[c].handle \in Open \/ (client = "sqlite" /\ caller[c].handle \in replaced)

\* Every pool is registered or was replaced by that of a concurrent first use,
\* of which there are no more than callers.
PoolsAreFew == client = "mysql" => Cardinality(Open) <= Cardinality(Callers)

HandlesAreSound == OneOpenDatabase /\ StatementsFindTheirHandle /\ PoolsAreFew
=============================================================================
