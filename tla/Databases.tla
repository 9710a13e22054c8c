------------------------------ MODULE Databases ------------------------------
(***************************************************************************)
(* What an application uses of its databases: the commands that migrate    *)
(* them and the clients that its callers share.  Neither knows of the      *)
(* other: a client never looks at the table of records.                    *)
(***************************************************************************)
EXTENDS Migrations, DatabaseHandles

\* MysqlMigrationManager, MysqlClient and SqliteClient: migrations run once and in order,
\* their records are true, and callers share one handle that is open when they use it.
DatabasesAreSound == MigrationsAreSound /\ HandlesAreSound
=============================================================================
