----------------------------- MODULE Migrations -----------------------------
(***************************************************************************)
(* packages/mysql-cli: MysqlMigrationManager with its record manager and   *)
(* its runner, as the commands mysql:migrate, mysql:verify and             *)
(* mysql:status call it from several processes that share one database.    *)
(*                                                                         *)
(* A migration is its rank among the names, an SQL text and its checksum   *)
(* are one version.  A process has the migrations it was built with, so    *)
(* the release may change while it runs.  A file holds several statements  *)
(* and DDL commits by itself: what was executed stays executed whatever    *)
(* fails afterwards, and a file may have run in part.                      *)
(***************************************************************************)
EXTENDS Naturals, Sequences, FiniteSets, SequencesExt

CONSTANTS
    Runners,        \* processes that run a command
    NumMigrations,
    Versions,       \* SQL texts of one migration
    MaxStarts,      \* bound: how many commands are run in all
    Absent

Names == 1..NumMigrations

MigrationsAssumption == NumMigrations \in Nat

VARIABLES
    release,        \* release[m]: the version that is registered, or Absent
    records,        \* the bookkeeping table
    executions,     \* history: what the database ran of each migration, and if all of it
    runner,         \* the command of each process
    starts,
    unrecorded,     \* history: run, wholly or in part, by a command that did not record it
    overlap         \* history: have two commands been in progress at a time?

migrationVars == <<release, records, executions, runner, starts, unrecorded, overlap>>

Idle == [at |-> "idle", command |-> "none", dryRun |-> FALSE, force |-> FALSE,
         code |-> [m \in Names |-> Absent], plan |-> [m \in Names |-> "unlisted"],
         todo |-> {}, applied |-> {}, skipped |-> {}, failed |-> Absent, exit |-> "none"]

InProgress(r) == runner[r].at \notin {"idle", "done"}

MigrationsInit ==
    /\ release \in [Names -> Versions \cup {Absent}]
    /\ records = [m \in Names |-> Absent]
    /\ executions = [m \in Names |-> <<>>]
    /\ runner = [r \in Runners |-> Idle]
    /\ starts = 0
    /\ unrecorded = {}
    /\ overlap = FALSE

-----------------------------------------------------------------------------
(* MysqlMigrateCommand.run(), MysqlMigrateVerifyCommand.run() and          *)
(* MysqlMigrateStatusCommand.run().                                        *)

Invocations ==
    {[command |-> "migrate", dryRun |-> d, force |-> f] : d, f \in BOOLEAN}
    \cup {[command |-> c, dryRun |-> FALSE, force |-> FALSE] : c \in {"verify", "status"}}

run(r, i) ==
    /\ ~InProgress(r) /\ starts < MaxStarts
    /\ runner' = [runner EXCEPT ![r] =
          [Idle EXCEPT !.at = "ensure", !.command = i.command, !.dryRun = i.dryRun,
                       !.force = i.force, !.code = release]]
    /\ starts' = starts + 1
    /\ overlap' = (overlap \/ \E q \in Runners \ {r} : InProgress(q))
    /\ UNCHANGED <<release, records, executions, unrecorded>>

\* What run() catches is reported and makes the exit code an error.
Throw(r) == runner' = [runner EXCEPT ![r].at = "done", ![r].exit = "error"]

\* resolveTableName() and ensureTable(): either may throw.
ensureTable(r) ==
    /\ runner[r].at = "ensure"
    /\ Throw(r) \/ runner' = [runner EXCEPT ![r].at = "plan"]
    /\ UNCHANGED <<release, records, executions, starts, unrecorded, overlap>>

\* selectMigrations() refuses an invalid or a duplicate name: the release is then
\* malformed, which only shows here.  Otherwise every name is compared with its
\* record; a name that has neither a migration nor a record is not listed.
State(code, m) ==
    CASE code[m] = Absent /\ records[m] = Absent -> "unlisted"
      [] code[m] = Absent /\ records[m] # Absent -> "orphaned"
      [] code[m] # Absent /\ records[m] = Absent -> "pending"
      [] code[m] # Absent /\ records[m] = code[m] -> "applied"
      [] OTHER -> "modified"
Entries(code) == [m \in Names |-> State(code, m)]
hasDrift(plan) == \E m \in Names : plan[m] \in {"modified", "orphaned"}

\* assertNoDrift() throws unless the command forces its way or only reports.
ignoreDrift(r, plan) == FALSE
refusedForDrift(r, plan) ==
    hasDrift(plan) /\ runner[r].command # "status" /\ ~runner[r].force

buildPlan(r) ==
    LET plan == Entries(runner[r].code) IN
    /\ runner[r].at = "plan"
    /\ \/ Throw(r)
       \/ /\ refusedForDrift(r, plan) /\ Throw(r)
       \/ /\ ~refusedForDrift(r, plan)
          /\ IF runner[r].command = "migrate"
               THEN runner' = [runner EXCEPT ![r].at = "apply", ![r].plan = plan,
                                  ![r].todo = {m \in Names : plan[m] # "unlisted"}]
               ELSE runner' = [runner EXCEPT ![r].at = "done", ![r].exit = "success",
                                             ![r].plan = plan]
    /\ UNCHANGED <<release, records, executions, starts, unrecorded, overlap>>

-----------------------------------------------------------------------------
(* apply()                                                                 *)

\* The entries are sorted: the loop is at the first of those that are left.
IsEntry(r, m) == m \in runner[r].todo /\ \A k \in runner[r].todo : m <= k
IsPending(r, m) == IsEntry(r, m) /\ runner[r].plan[m] = "pending"

\* Applied entries are listed as skipped; modified and orphaned ones, which only
\* --force lets through, are passed over.
skip(r, m) ==
    /\ runner[r].at = "apply" /\ IsEntry(r, m) /\ ~IsPending(r, m)
    /\ runner' = [runner EXCEPT ![r].todo = @ \ {m},
                    ![r].skipped = @ \cup {k \in {m} : runner[r].plan[k] = "applied"}]
    /\ UNCHANGED <<release, records, executions, starts, unrecorded, overlap>>

\* up() is called outside the try: what it throws ends the command.
up(r, m) ==
    /\ runner[r].at = "apply" /\ IsPending(r, m)
    /\ Throw(r)
    /\ UNCHANGED <<release, records, executions, starts, unrecorded, overlap>>

dryRun(r, m) ==
    /\ runner[r].at = "apply" /\ IsPending(r, m)
    /\ runner[r].dryRun
    /\ runner' = [runner EXCEPT ![r].todo = @ \ {m}, ![r].applied = @ \cup {m}]
    /\ UNCHANGED <<release, records, executions, starts, unrecorded, overlap>>

\* A failed migration ends the run: those after it are not attempted.
Fail(r, m) ==
    runner' = [runner EXCEPT ![r].at = "done", ![r].exit = "error", ![r].failed = m]
goOn(r, m) ==
    runner' = [runner EXCEPT ![r].at = "apply", ![r].todo = @ \ {m}, ![r].failed = m]
stopAtFailure(r, m) == Fail(r, m)

\* Every run that took effect: of which text, and whether of all its statements.
InFull(v) == [version |-> v, whole |-> TRUE]
Took(r, m, all) ==
    executions' = [executions EXCEPT ![m] = Append(@, [version |-> runner[r].code[m], whole |-> all])]

\* MysqlMigrationRunner.execute() sends the whole file on a connection of its own.
\* It rejects with nothing run (no connection, a first statement that fails) or
\* after a part or all of it took effect (a later one fails, the connection is lost).
execute(r, m) ==
    /\ runner[r].at = "apply" /\ IsPending(r, m)
    /\ ~runner[r].dryRun
    /\ \/ /\ Took(r, m, TRUE)
          /\ runner' = [runner EXCEPT ![r].at = "record"]
          /\ UNCHANGED unrecorded
       \/ stopAtFailure(r, m) /\ UNCHANGED <<executions, unrecorded>>
       \/ /\ \E all \in BOOLEAN : Took(r, m, all)
          /\ stopAtFailure(r, m)
          /\ unrecorded' = unrecorded \cup {m}
    /\ UNCHANGED <<release, records, starts, overlap>>

\* recordApplied(): the file name is unique in the table.  An insert that rejects
\* may have been stored all the same, when only its answer was lost.
recordApplied(r, m) ==
    /\ runner[r].at = "record" /\ IsPending(r, m)
    /\ \/ /\ records[m] = Absent
          /\ records' = [records EXCEPT ![m] = runner[r].code[m]]
          /\ \/ runner' = [runner EXCEPT ![r].at = "apply", ![r].todo = @ \ {m},
                                         ![r].applied = @ \cup {m}]
             \/ stopAtFailure(r, m)
          /\ UNCHANGED unrecorded
       \/ /\ stopAtFailure(r, m)
          /\ unrecorded' = unrecorded \cup {m}
          /\ UNCHANGED records
    /\ UNCHANGED <<release, executions, starts, overlap>>

applied(r) ==
    /\ runner[r].at = "apply" /\ runner[r].todo = {}
    /\ runner' = [runner EXCEPT ![r].at = "done", ![r].exit = "success"]
    /\ UNCHANGED <<release, records, executions, starts, unrecorded, overlap>>

-----------------------------------------------------------------------------
\* A process dies between any two of its steps.
Crash(r) ==
    /\ InProgress(r)
    /\ runner' = [runner EXCEPT ![r] = Idle]
    /\ unrecorded' = unrecorded \cup {m \in Names : runner[r].at = "record" /\ IsPending(r, m)}
    /\ UNCHANGED <<release, records, executions, starts, overlap>>

\* It dies while the file runs, of which the database has executed, or goes on to
\* execute, a part: a history has no use for the moment.
DieExecuting(r, m) ==
    /\ runner[r].at = "apply" /\ IsPending(r, m)
    /\ ~runner[r].dryRun
    /\ Took(r, m, FALSE)
    /\ runner' = [runner EXCEPT ![r] = Idle]
    /\ unrecorded' = unrecorded \cup {m}
    /\ UNCHANGED <<release, records, starts, overlap>>

\* A migration is written, edited or deleted in the next release.
Release(m) ==
    /\ starts < MaxStarts
    /\ \E v \in (Versions \cup {Absent}) \ {release[m]} : release' = [release EXCEPT ![m] = v]
    /\ UNCHANGED <<records, executions, runner, starts, unrecorded, overlap>>

MigrationsNext ==
    \/ \E r \in Runners :
         \/ \E i \in Invocations : run(r, i)
         \/ ensureTable(r) \/ buildPlan(r) \/ applied(r) \/ Crash(r)
         \/ \E m \in Names : \/ skip(r, m) \/ up(r, m) \/ dryRun(r, m)
                              \/ execute(r, m) \/ recordApplied(r, m) \/ DieExecuting(r, m)
    \/ \E m \in Names : Release(m)

MigrationsSpec == MigrationsInit /\ [][MigrationsNext]_migrationVars

-----------------------------------------------------------------------------
(* Properties                                                              *)

\* The table never claims what the database has not run: every record has the
\* checksum of an SQL text of which every statement was executed under that name.
RecordsAreTrue ==
    \A m \in Names : records[m] # Absent => InFull(records[m]) \in ToSet(executions[m])

\* A migration takes effect a second time only where an earlier time left effects
\* and no record (a process that died, a file that failed half-way, a lost answer,
\* an insert that failed) or where commands overlap.
OnceUnlessInterrupted ==
    \A m \in Names : Len(executions[m]) > 1 => m \in unrecorded \/ overlap

\* What mysql:migrate reports is so: what it lists as applied is recorded with
\* the version it was built with, and a dry run changes nothing.
ReportIsTrue ==
    \A r \in Runners : \A m \in runner[r].applied :
        ~runner[r].dryRun => records[m] = runner[r].code[m]

\* A run that fails has not touched any migration after the one that failed.
NothingAfterFailure ==
    \A r \in Runners : runner[r].failed # Absent =>
        \A m \in runner[r].applied : m < runner[r].failed

\* An unforced mysql:migrate that succeeds leaves every migration of its release
\* recorded with its own checksum, whatever else ran at the same time.
SuccessMeansInStep ==
    \A r \in Runners : \A m \in Names :
        runner[r].exit = "success" /\ runner[r].command = "migrate" /\ ~runner[r].force
            /\ ~runner[r].dryRun /\ runner[r].code[m] # Absent
        => records[m] = runner[r].code[m]

MigrationsAreSound ==
    /\ RecordsAreTrue /\ OnceUnlessInterrupted /\ ReportIsTrue
    /\ NothingAfterFailure /\ SuccessMeansInStep
=============================================================================
