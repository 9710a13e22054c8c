--------------------------- MODULE StorageProofs ----------------------------
(***************************************************************************)
(* Theorems about what outlives a process: the migrations that several     *)
(* processes apply to one database, the handles that concurrent callers of *)
(* a client share, and the files of the observability store, which every   *)
(* process writes, rotates and sweeps, for any number of them.             *)
(***************************************************************************)
EXTENDS Databases, ObservabilityStore, FiniteSetTheorems, SequenceTheorems, WellFoundedInduction, TLAPS

(***************************************************************************)
(* Migrations                                                              *)
(***************************************************************************)

RunnerRecord ==
    [at : {"idle", "ensure", "plan", "apply", "record", "done"},
     command : {"none", "migrate", "verify", "status"}, dryRun : BOOLEAN, force : BOOLEAN,
     code : [Names -> Versions \cup {Absent}],
     plan : [Names -> {"unlisted", "orphaned", "pending", "applied", "modified"}],
     todo : SUBSET Names, applied : SUBSET Names, skipped : SUBSET Names,
     failed : Names \cup {Absent}, exit : {"none", "success", "error"}]

Execution == [version : Versions, whole : BOOLEAN]

MigrationsTypeOK ==
    /\ release \in [Names -> Versions \cup {Absent}]
    /\ records \in [Names -> Versions \cup {Absent}]
    /\ executions \in [Names -> Seq(Execution)]
    /\ runner \in [Runners -> RunnerRecord]
    /\ overlap \in BOOLEAN

Applying(r) == runner[r].at \in {"apply", "record"}

\* What a command did is behind what it still has to do, and what failed is between.
WorksInOrder(r) ==
    /\ Applying(r) => \A m \in runner[r].applied : \A k \in runner[r].todo : m < k
    /\ runner[r].at \in {"idle", "ensure", "plan"} => runner[r].applied = {}
    /\ runner[r].at # "done" => runner[r].failed = Absent /\ runner[r].exit = "none"
    /\ runner[r].failed # Absent => \A m \in runner[r].applied : m < runner[r].failed

\* The plan was made from the code, and what it found recorded stays recorded.
PlanIsTrue(r) ==
    Applying(r) => \A m \in runner[r].todo :
        /\ runner[r].plan[m] = "pending" => runner[r].code[m] # Absent
        /\ runner[r].plan[m] = "applied" =>
             runner[r].code[m] # Absent /\ records[m] = runner[r].code[m]

\* What a command reports as applied is recorded with its own version.
RecordsWhatItApplied(r) ==
    ~runner[r].dryRun => \A m \in runner[r].applied :
        runner[r].code[m] # Absent /\ records[m] = runner[r].code[m]

\* A command that has executed a migration and not recorded it yet did execute all of it.
HasExecuted(r) ==
    runner[r].at = "record" => \A m \in Names :
        IsPending(r, m) => InFull(runner[r].code[m]) \in ToSet(executions[m])

\* An unforced mysql:migrate leaves nothing out: a migration of its release is
\* either recorded or still to be done.
LeavesNothingOut(r) ==
    /\ runner[r].command = "migrate" /\ ~runner[r].force /\ ~runner[r].dryRun
    /\ Applying(r) \/ runner[r].exit = "success"
    => \A m \in Names : runner[r].code[m] # Absent =>
          \/ records[m] = runner[r].code[m]
          \/ Applying(r) /\ m \in runner[r].todo /\ runner[r].plan[m] = "pending"

RunnerInv(r) ==
    WorksInOrder(r) /\ PlanIsTrue(r) /\ RecordsWhatItApplied(r) /\ HasExecuted(r) /\ LeavesNothingOut(r)

\* Where commands have never overlapped, one is in progress at most, its plan is
\* still what the table says, and a migration that was executed is recorded, is
\* about to be or lost its record.
SerialInv ==
    ~overlap =>
      /\ \A r, q \in Runners : InProgress(r) /\ InProgress(q) => r = q
      /\ \A r \in Runners : Applying(r) => \A m \in runner[r].todo :
           runner[r].plan[m] = "pending" => records[m] = Absent
      /\ \A m \in Names \ unrecorded :
           /\ Len(executions[m]) <= 1
           /\ executions[m] # <<>> =>
                records[m] # Absent \/ \E r \in Runners : runner[r].at = "record" /\ IsPending(r, m)

MigrationsInv ==
    MigrationsTypeOK /\ RecordsAreTrue /\ (\A r \in Runners : RunnerInv(r)) /\ SerialInv

-----------------------------------------------------------------------------
(* What a step does to the record of the process that takes it.             *)

OnlyRunner(r) ==
    /\ runner' \in [Runners -> RunnerRecord]
    /\ \A p \in Runners \ {r} : runner'[p] = runner[p]
SameCommand(r) ==
    /\ runner'[r].command = runner[r].command /\ runner'[r].code = runner[r].code
    /\ runner'[r].dryRun = runner[r].dryRun /\ runner'[r].force = runner[r].force
SameWork(r) == runner'[r].todo = runner[r].todo /\ runner'[r].applied = runner[r].applied
SamePlan(r) == runner'[r].plan = runner[r].plan
SameEnd(r) == runner'[r].failed = runner[r].failed /\ runner'[r].exit = runner[r].exit

\* Every update of one process's record leaves the other processes alone.
LEMMA UpdateIsLocal ==
    ASSUME runner \in [Runners -> RunnerRecord], NEW r \in Runners, NEW q \in RunnerRecord,
           runner' = [runner EXCEPT ![r] = q]
    PROVE  OnlyRunner(r) /\ runner'[r] = q
BY DEF OnlyRunner

\* Assigning one field keeps a record a record.
LEMMA FieldIsSet ==
    ASSUME NEW q \in RunnerRecord
    PROVE  /\ \A v \in {"apply", "record", "plan", "done"} : [q EXCEPT !.at = v] \in RunnerRecord
           /\ \A v \in {"success", "error"} : [q EXCEPT !.exit = v] \in RunnerRecord
           /\ \A v \in SUBSET Names : /\ [q EXCEPT !.todo = v] \in RunnerRecord
                                       /\ [q EXCEPT !.applied = v] \in RunnerRecord
                                       /\ [q EXCEPT !.skipped = v] \in RunnerRecord
           /\ \A v \in Names : [q EXCEPT !.failed = v] \in RunnerRecord
           /\ \A v \in [Names -> {"unlisted", "orphaned", "pending", "applied", "modified"}] :
                [q EXCEPT !.plan = v] \in RunnerRecord
<1>1. \A v \in {"apply", "record", "plan", "done"} : [q EXCEPT !.at = v] \in RunnerRecord
  BY DEF RunnerRecord
<1>2. \A v \in {"success", "error"} : [q EXCEPT !.exit = v] \in RunnerRecord
  BY DEF RunnerRecord
<1>3. \A v \in SUBSET Names : /\ [q EXCEPT !.todo = v] \in RunnerRecord
                              /\ [q EXCEPT !.applied = v] \in RunnerRecord
                              /\ [q EXCEPT !.skipped = v] \in RunnerRecord
  BY DEF RunnerRecord
<1>4. \A v \in Names : [q EXCEPT !.failed = v] \in RunnerRecord
  BY DEF RunnerRecord
<1>5. \A v \in [Names -> {"unlisted", "orphaned", "pending", "applied", "modified"}] :
         [q EXCEPT !.plan = v] \in RunnerRecord
  BY DEF RunnerRecord
<1> QED BY <1>1, <1>2, <1>3, <1>4, <1>5

\* Throw(): the command is over and its work stays as it is.
LEMMA ThrowStep ==
    ASSUME MigrationsTypeOK, NEW r \in Runners, Throw(r)
    PROVE  /\ OnlyRunner(r) /\ SameCommand(r) /\ SameWork(r) /\ SamePlan(r)
           /\ runner'[r].at = "done" /\ runner'[r].exit = "error" /\ runner'[r].failed = runner[r].failed
<1>1. PICK q \in RunnerRecord : q = [runner[r] EXCEPT !.at = "done", !.exit = "error"]
  <2>1. [runner[r] EXCEPT !.at = "done"] \in RunnerRecord
    BY FieldIsSet DEF MigrationsTypeOK
  <2>2. [[runner[r] EXCEPT !.at = "done"] EXCEPT !.exit = "error"] \in RunnerRecord
    BY <2>1, FieldIsSet
  <2> QED BY <2>2
<1>2. runner' = [runner EXCEPT ![r] = q]
  BY <1>1 DEF Throw, MigrationsTypeOK
<1>3. OnlyRunner(r) /\ runner'[r] = q
  BY <1>2, UpdateIsLocal DEF MigrationsTypeOK
<1>4. runner[r] \in RunnerRecord
  BY DEF MigrationsTypeOK
<1> QED BY <1>1, <1>3, <1>4 DEF SameCommand, SameWork, SamePlan, RunnerRecord

\* A process only moves on.
LEMMA MoveStep ==
    ASSUME MigrationsTypeOK, NEW r \in Runners, NEW v \in {"plan", "record"},
           runner' = [runner EXCEPT ![r].at = v]
    PROVE  OnlyRunner(r) /\ SameCommand(r) /\ SameWork(r) /\ SamePlan(r) /\ SameEnd(r) /\ runner'[r].at = v
<1>1. PICK q \in RunnerRecord : q = [runner[r] EXCEPT !.at = v]
  <2>1. [runner[r] EXCEPT !.at = v] \in RunnerRecord
    BY FieldIsSet DEF MigrationsTypeOK
  <2> QED BY <2>1
<1>2. runner' = [runner EXCEPT ![r] = q]
  BY <1>1 DEF MigrationsTypeOK
<1>3. OnlyRunner(r) /\ runner'[r] = q
  BY <1>2, UpdateIsLocal DEF MigrationsTypeOK
<1>4. runner[r] \in RunnerRecord
  BY DEF MigrationsTypeOK
<1>5. q.dryRun = runner[r].dryRun /\ q.force = runner[r].force
  BY <1>1, <1>4 DEF RunnerRecord
<1>6. SameCommand(r)
  BY <1>1, <1>3, <1>4, <1>5 DEF SameCommand, RunnerRecord
<1> QED BY <1>1, <1>3, <1>4, <1>6 DEF SameWork, SamePlan, SameEnd, RunnerRecord

\* applied(): mysql:migrate has done all it had to.
LEMMA ReportStep ==
    ASSUME MigrationsTypeOK, NEW r \in Runners,
           runner' = [runner EXCEPT ![r].at = "done", ![r].exit = "success"]
    PROVE  /\ OnlyRunner(r) /\ SameCommand(r) /\ SameWork(r) /\ SamePlan(r)
           /\ runner'[r].at = "done" /\ runner'[r].exit = "success" /\ runner'[r].failed = runner[r].failed
<1>1. PICK q \in RunnerRecord : q = [runner[r] EXCEPT !.at = "done", !.exit = "success"]
  <2>1. [runner[r] EXCEPT !.at = "done"] \in RunnerRecord
    BY FieldIsSet DEF MigrationsTypeOK
  <2>2. [[runner[r] EXCEPT !.at = "done"] EXCEPT !.exit = "success"] \in RunnerRecord
    BY <2>1, FieldIsSet
  <2> QED BY <2>2
<1>2. runner' = [runner EXCEPT ![r] = q]
  BY <1>1 DEF MigrationsTypeOK
<1>3. OnlyRunner(r) /\ runner'[r] = q
  BY <1>2, UpdateIsLocal DEF MigrationsTypeOK
<1>4. runner[r] \in RunnerRecord
  BY DEF MigrationsTypeOK
<1>5. q.dryRun = runner[r].dryRun /\ q.force = runner[r].force
  BY <1>1, <1>4 DEF RunnerRecord
<1>6. SameCommand(r)
  BY ZenonT(40), <1>1, <1>3, <1>4, <1>5 DEF SameCommand, RunnerRecord
<1> QED BY ZenonT(40), <1>1, <1>3, <1>4, <1>6 DEF SameWork, SamePlan, SameEnd, RunnerRecord

\* Fail(): the command ends at the migration that failed.
LEMMA FailStep ==
    ASSUME MigrationsTypeOK, NEW r \in Runners, NEW m \in Names,
           runner' = [runner EXCEPT ![r].at = "done", ![r].exit = "error", ![r].failed = m]
    PROVE  /\ OnlyRunner(r) /\ SameCommand(r) /\ SameWork(r) /\ SamePlan(r)
           /\ runner'[r].at = "done" /\ runner'[r].exit = "error" /\ runner'[r].failed = m
<1>1. PICK q \in RunnerRecord : q = [runner[r] EXCEPT !.at = "done", !.exit = "error", !.failed = m]
  <2>1. [runner[r] EXCEPT !.at = "done"] \in RunnerRecord
    BY FieldIsSet DEF MigrationsTypeOK
  <2>2. [[runner[r] EXCEPT !.at = "done"] EXCEPT !.exit = "error"] \in RunnerRecord
    BY <2>1, FieldIsSet
  <2>3. [[[runner[r] EXCEPT !.at = "done"] EXCEPT !.exit = "error"] EXCEPT !.failed = m] \in RunnerRecord
    BY <2>2, FieldIsSet
  <2> QED BY <2>3
<1>2. runner' = [runner EXCEPT ![r] = q]
  BY <1>1 DEF MigrationsTypeOK
<1>3. OnlyRunner(r) /\ runner'[r] = q
  BY <1>2, UpdateIsLocal DEF MigrationsTypeOK
<1>4. runner[r] \in RunnerRecord
  BY DEF MigrationsTypeOK
<1>5. q.dryRun = runner[r].dryRun /\ q.force = runner[r].force
  BY <1>1, <1>4 DEF RunnerRecord
<1>6. SameCommand(r)
  BY ZenonT(40), <1>1, <1>3, <1>4, <1>5 DEF SameCommand, RunnerRecord
<1> QED BY ZenonT(40), <1>1, <1>3, <1>4, <1>6 DEF SameWork, SamePlan, SameEnd, RunnerRecord

\* buildPlan(), for mysql:migrate.
Planned(r, p, t) ==
    runner' = [runner EXCEPT ![r].at = "apply", ![r].plan = p, ![r].todo = t]

\* What buildPlan() changes of a runner: its plan and what is left to do.
LEMMA PlanStep ==
    ASSUME MigrationsTypeOK, NEW r \in Runners,
           NEW p \in [Names -> {"unlisted", "orphaned", "pending", "applied", "modified"}], NEW t \in SUBSET Names,
           Planned(r, p, t)
    PROVE  /\ OnlyRunner(r) /\ SameCommand(r) /\ SameEnd(r) /\ runner'[r].applied = runner[r].applied
           /\ runner'[r].at = "apply" /\ runner'[r].plan = p /\ runner'[r].todo = t
<1>1. PICK q \in RunnerRecord : q = [runner[r] EXCEPT !.at = "apply", !.plan = p, !.todo = t]
  <2>1. [runner[r] EXCEPT !.at = "apply"] \in RunnerRecord
    BY FieldIsSet DEF MigrationsTypeOK
  <2>2. [[runner[r] EXCEPT !.at = "apply"] EXCEPT !.plan = p] \in RunnerRecord
    BY <2>1, FieldIsSet
  <2>3. [[[runner[r] EXCEPT !.at = "apply"] EXCEPT !.plan = p] EXCEPT !.todo = t] \in RunnerRecord
    BY <2>2, FieldIsSet
  <2> QED BY <2>3
<1>2. runner' = [runner EXCEPT ![r] = q]
  BY <1>1 DEF MigrationsTypeOK, Planned
<1>3. OnlyRunner(r) /\ runner'[r] = q
  BY <1>2, UpdateIsLocal DEF MigrationsTypeOK
<1>4. runner[r] \in RunnerRecord
  BY DEF MigrationsTypeOK
<1>5. q.dryRun = runner[r].dryRun /\ q.force = runner[r].force
  BY <1>1, <1>4 DEF RunnerRecord
<1>6. SameCommand(r)
  BY <1>1, <1>3, <1>4, <1>5 DEF SameCommand, RunnerRecord
<1> QED BY <1>1, <1>3, <1>4, <1>6 DEF SameWork, SamePlan, SameEnd, RunnerRecord

\* buildPlan(), for the commands that only report.
LEMMA ShowStep ==
    ASSUME MigrationsTypeOK, NEW r \in Runners,
           NEW p \in [Names -> {"unlisted", "orphaned", "pending", "applied", "modified"}],
           runner' = [runner EXCEPT ![r].at = "done", ![r].exit = "success", ![r].plan = p]
    PROVE  /\ OnlyRunner(r) /\ SameCommand(r) /\ SameWork(r)
           /\ runner'[r].at = "done" /\ runner'[r].exit = "success" /\ runner'[r].failed = runner[r].failed
<1>1. PICK q \in RunnerRecord : q = [runner[r] EXCEPT !.at = "done", !.exit = "success", !.plan = p]
  <2>1. [runner[r] EXCEPT !.at = "done"] \in RunnerRecord
    BY FieldIsSet DEF MigrationsTypeOK
  <2>2. [[runner[r] EXCEPT !.at = "done"] EXCEPT !.exit = "success"] \in RunnerRecord
    BY <2>1, FieldIsSet
  <2>3. [[[runner[r] EXCEPT !.at = "done"] EXCEPT !.exit = "success"] EXCEPT !.plan = p] \in RunnerRecord
    BY <2>2, FieldIsSet
  <2> QED BY <2>3
<1>2. runner' = [runner EXCEPT ![r] = q]
  BY <1>1 DEF MigrationsTypeOK
<1>3. OnlyRunner(r) /\ runner'[r] = q
  BY <1>2, UpdateIsLocal DEF MigrationsTypeOK
<1>4. runner[r] \in RunnerRecord
  BY DEF MigrationsTypeOK
<1>5. q.dryRun = runner[r].dryRun /\ q.force = runner[r].force
  BY <1>1, <1>4 DEF RunnerRecord
<1>6. SameCommand(r)
  BY ZenonT(40), <1>1, <1>3, <1>4, <1>5 DEF SameCommand, RunnerRecord
<1> QED BY ZenonT(40), <1>1, <1>3, <1>4, <1>6 DEF SameWork, SamePlan, SameEnd, RunnerRecord

\* skip(): an entry is passed over.
LEMMA SkipStep ==
    ASSUME MigrationsTypeOK, NEW r \in Runners, NEW t \in SUBSET Names, NEW s \in SUBSET Names,
           runner' = [runner EXCEPT ![r].todo = t, ![r].skipped = s]
    PROVE  /\ OnlyRunner(r) /\ SameCommand(r) /\ SamePlan(r) /\ SameEnd(r) /\ runner'[r].at = runner[r].at
           /\ runner'[r].todo = t /\ runner'[r].applied = runner[r].applied
<1>1. PICK q \in RunnerRecord : q = [runner[r] EXCEPT !.todo = t, !.skipped = s]
  <2>1. [runner[r] EXCEPT !.todo = t] \in RunnerRecord
    BY FieldIsSet DEF MigrationsTypeOK
  <2>2. [[runner[r] EXCEPT !.todo = t] EXCEPT !.skipped = s] \in RunnerRecord
    BY <2>1, FieldIsSet
  <2> QED BY <2>2
<1>2. runner' = [runner EXCEPT ![r] = q]
  BY <1>1 DEF MigrationsTypeOK
<1>3. OnlyRunner(r) /\ runner'[r] = q
  BY <1>2, UpdateIsLocal DEF MigrationsTypeOK
<1>4. runner[r] \in RunnerRecord
  BY DEF MigrationsTypeOK
<1>5. q.dryRun = runner[r].dryRun /\ q.force = runner[r].force
  BY <1>1, <1>4 DEF RunnerRecord
<1>6. SameCommand(r)
  BY ZenonT(40), <1>1, <1>3, <1>4, <1>5 DEF SameCommand, RunnerRecord
<1> QED BY ZenonT(40), <1>1, <1>3, <1>4, <1>6 DEF SameWork, SamePlan, SameEnd, RunnerRecord

\* dryRun(): an entry is reported as applied.
LEMMA DryStep ==
    ASSUME MigrationsTypeOK, NEW r \in Runners, NEW t \in SUBSET Names, NEW a \in SUBSET Names,
           runner' = [runner EXCEPT ![r].todo = t, ![r].applied = a]
    PROVE  /\ OnlyRunner(r) /\ SameCommand(r) /\ SamePlan(r) /\ SameEnd(r) /\ runner'[r].at = runner[r].at
           /\ runner'[r].todo = t /\ runner'[r].applied = a
<1>1. PICK q \in RunnerRecord : q = [runner[r] EXCEPT !.todo = t, !.applied = a]
  <2>1. [runner[r] EXCEPT !.todo = t] \in RunnerRecord
    BY FieldIsSet DEF MigrationsTypeOK
  <2>2. [[runner[r] EXCEPT !.todo = t] EXCEPT !.applied = a] \in RunnerRecord
    BY <2>1, FieldIsSet
  <2> QED BY <2>2
<1>2. runner' = [runner EXCEPT ![r] = q]
  BY <1>1 DEF MigrationsTypeOK
<1>3. OnlyRunner(r) /\ runner'[r] = q
  BY <1>2, UpdateIsLocal DEF MigrationsTypeOK
<1>4. runner[r] \in RunnerRecord
  BY DEF MigrationsTypeOK
<1>5. q.dryRun = runner[r].dryRun /\ q.force = runner[r].force
  BY <1>1, <1>4 DEF RunnerRecord
<1>6. SameCommand(r)
  BY ZenonT(40), <1>1, <1>3, <1>4, <1>5 DEF SameCommand, RunnerRecord
<1> QED BY ZenonT(40), <1>1, <1>3, <1>4, <1>6 DEF SameWork, SamePlan, SameEnd, RunnerRecord

\* recordApplied(), when the record could be inserted.
Recorded(r, t, a) ==
    runner' = [runner EXCEPT ![r].at = "apply", ![r].todo = t, ![r].applied = a]

\* What recordApplied() changes of a runner: the lists, and it goes on to the next entry.
LEMMA RecordStep ==
    ASSUME MigrationsTypeOK, NEW r \in Runners, NEW t \in SUBSET Names, NEW a \in SUBSET Names,
           Recorded(r, t, a)
    PROVE  /\ OnlyRunner(r) /\ SameCommand(r) /\ SamePlan(r) /\ SameEnd(r) /\ runner'[r].at = "apply"
           /\ runner'[r].todo = t /\ runner'[r].applied = a
<1>1. PICK q \in RunnerRecord : q = [runner[r] EXCEPT !.at = "apply", !.todo = t, !.applied = a]
  <2>1. [runner[r] EXCEPT !.at = "apply"] \in RunnerRecord
    BY FieldIsSet DEF MigrationsTypeOK
  <2>2. [[runner[r] EXCEPT !.at = "apply"] EXCEPT !.todo = t] \in RunnerRecord
    BY <2>1, FieldIsSet
  <2>3. [[[runner[r] EXCEPT !.at = "apply"] EXCEPT !.todo = t] EXCEPT !.applied = a] \in RunnerRecord
    BY <2>2, FieldIsSet
  <2> QED BY <2>3
<1>2. runner' = [runner EXCEPT ![r] = q]
  BY <1>1 DEF MigrationsTypeOK, Recorded
<1>3. OnlyRunner(r) /\ runner'[r] = q
  BY <1>2, UpdateIsLocal DEF MigrationsTypeOK
<1>4. runner[r] \in RunnerRecord
  BY DEF MigrationsTypeOK
<1>5. q.dryRun = runner[r].dryRun /\ q.force = runner[r].force
  BY <1>1, <1>4 DEF RunnerRecord
<1>6. SameCommand(r)
  BY <1>1, <1>3, <1>4, <1>5 DEF SameCommand, RunnerRecord
<1> QED BY <1>1, <1>3, <1>4, <1>6 DEF SameWork, SamePlan, SameEnd, RunnerRecord

\* run() and a crash start the record of a process afresh.
LEMMA IdleIsRecord ==
    Idle \in RunnerRecord
BY DEF Idle, RunnerRecord

\* A command starts with nothing planned, applied or failed.
LEMMA RunStep ==
    ASSUME MigrationsTypeOK, NEW r \in Runners, NEW i \in Invocations, run(r, i)
    PROVE  /\ OnlyRunner(r) /\ runner'[r].at = "ensure" /\ runner'[r].todo = {} /\ runner'[r].applied = {}
           /\ runner'[r].failed = Absent /\ runner'[r].exit = "none"
<1>1. PICK q : q = [Idle EXCEPT !.at = "ensure", !.command = i.command, !.dryRun = i.dryRun,
                                !.force = i.force, !.code = release]
  OBVIOUS
<1>2. q = [at |-> "ensure", command |-> i.command, dryRun |-> i.dryRun, force |-> i.force,
           code |-> release, plan |-> [m \in Names |-> "unlisted"], todo |-> {}, applied |-> {},
           skipped |-> {}, failed |-> Absent, exit |-> "none"]
  BY <1>1 DEF Idle
<1>3. i.command \in {"migrate", "verify", "status"} /\ i.dryRun \in BOOLEAN /\ i.force \in BOOLEAN
  <2>1. CASE \E d, f \in BOOLEAN : i = [command |-> "migrate", dryRun |-> d, force |-> f]
    BY <2>1
  <2>2. CASE \E c \in {"verify", "status"} : i = [command |-> c, dryRun |-> FALSE, force |-> FALSE]
    BY <2>2
  <2> QED BY <2>1, <2>2 DEF Invocations
<1>4. q \in RunnerRecord
  BY <1>2, <1>3 DEF RunnerRecord, MigrationsTypeOK
<1>5. OnlyRunner(r) /\ runner'[r] = q
  BY <1>1, <1>4, UpdateIsLocal DEF run, MigrationsTypeOK
<1> QED BY <1>2, <1>5

\* Of a process that died nothing is left in memory.
LEMMA CrashStep ==
    ASSUME MigrationsTypeOK, NEW r \in Runners, Crash(r)
    PROVE  /\ OnlyRunner(r) /\ runner'[r].at = "idle" /\ runner'[r].todo = {} /\ runner'[r].applied = {}
           /\ runner'[r].failed = Absent /\ runner'[r].exit = "none"
<1>1. OnlyRunner(r) /\ runner'[r] = Idle
  BY IdleIsRecord, UpdateIsLocal DEF Crash, MigrationsTypeOK
<1> QED BY <1>1 DEF Idle

-----------------------------------------------------------------------------
(* The table and the history only grow.                                     *)

Grows ==
    /\ \A m \in Names : records[m] # Absent => records'[m] = records[m]
    /\ \A m \in Names : ToSet(executions[m]) \subseteq ToSet(executions'[m])

\* One more execution loses none and adds that one.
LEMMA AppendGrows ==
    ASSUME NEW s \in Seq(Execution), NEW v \in Execution
    PROVE  /\ Append(s, v) \in Seq(Execution)
           /\ ToSet(s) \subseteq ToSet(Append(s, v))
           /\ v \in ToSet(Append(s, v))
           /\ Len(Append(s, v)) = Len(s) + 1
<1>1. Append(s, v) \in Seq(Execution) /\ Len(Append(s, v)) = Len(s) + 1
  OBVIOUS
<1>2. \A i \in DOMAIN s : i \in DOMAIN Append(s, v) /\ Append(s, v)[i] = s[i]
  OBVIOUS
<1>3. Len(s) + 1 \in DOMAIN Append(s, v) /\ Append(s, v)[Len(s) + 1] = v
  OBVIOUS
<1> QED BY <1>1, <1>2, <1>3 DEF ToSet

\* A migration that is to be executed is one of the process's own.
LEMMA PendingIsOwn ==
    ASSUME MigrationsTypeOK, NEW r \in Runners, NEW m \in Names, PlanIsTrue(r), Applying(r), IsPending(r, m)
    PROVE  runner[r].code[m] \in Versions /\ runner[r].code[m] # Absent
<1>1. runner[r].code \in [Names -> Versions \cup {Absent}]
  BY DEF MigrationsTypeOK, RunnerRecord
<1>2. runner[r].code[m] # Absent
  BY DEF PlanIsTrue, IsPending, IsEntry
<1> QED BY <1>1, <1>2

\* What is noted when statements of a migration took effect.
LEMMA ExecuteGrows ==
    ASSUME MigrationsTypeOK, NEW r \in Runners, NEW m \in Names, runner[r].code[m] \in Versions,
           NEW all \in BOOLEAN, Took(r, m, all)
    PROVE  /\ executions' \in [Names -> Seq(Execution)]
           /\ \A k \in Names : ToSet(executions[k]) \subseteq ToSet(executions'[k])
           /\ \A k \in Names \ {m} : executions'[k] = executions[k]
           /\ all => InFull(runner[r].code[m]) \in ToSet(executions'[m])
           /\ Len(executions'[m]) = Len(executions[m]) + 1
<1>1. executions \in [Names -> Seq(Execution)]
  BY DEF MigrationsTypeOK
<1>2. PICK e \in Execution : e = [version |-> runner[r].code[m], whole |-> all]
  BY DEF Execution
<1>3. executions'[m] = Append(executions[m], e)
  BY <1>1, <1>2 DEF Took
<1>4. \A k \in Names \ {m} : executions'[k] = executions[k]
  BY <1>1 DEF Took
<1>5. /\ executions'[m] \in Seq(Execution)
      /\ ToSet(executions[m]) \subseteq ToSet(executions'[m])
      /\ e \in ToSet(executions'[m])
      /\ Len(executions'[m]) = Len(executions[m]) + 1
  BY <1>1, <1>3, AppendGrows
<1>6. all => InFull(runner[r].code[m]) \in ToSet(executions'[m])
  BY <1>2, <1>5 DEF InFull
<1>7. executions' \in [Names -> Seq(Execution)]
  BY <1>1, <1>3, <1>5 DEF Took
<1>8. \A k \in Names : ToSet(executions[k]) \subseteq ToSet(executions'[k])
  BY <1>4, <1>5
<1> QED BY <1>4, <1>5, <1>6, <1>7, <1>8

\* A process that takes no step keeps what it may rely on.
LEMMA OthersKeep ==
    ASSUME MigrationsTypeOK, Grows, NEW p \in Runners, RunnerInv(p), runner'[p] = runner[p]
    PROVE  RunnerInv(p)'
<1>1. WorksInOrder(p)'
  BY DEF RunnerInv, WorksInOrder, Applying
<1>2. runner[p].todo \subseteq Names /\ runner[p].applied \subseteq Names
  BY DEF MigrationsTypeOK, RunnerRecord
<1>3. PlanIsTrue(p)'
  BY <1>2 DEF RunnerInv, PlanIsTrue, Applying, Grows
<1>4. RecordsWhatItApplied(p)'
  BY <1>2 DEF RunnerInv, RecordsWhatItApplied, Grows
<1>5. HasExecuted(p)'
  BY DEF RunnerInv, HasExecuted, IsPending, IsEntry, Grows
<1>6. LeavesNothingOut(p)'
  BY DEF RunnerInv, LeavesNothingOut, Applying, Grows
<1> QED BY <1>1, <1>3, <1>4, <1>5, <1>6 DEF RunnerInv

-----------------------------------------------------------------------------
(* One lemma per operation: the process that takes the step keeps its part  *)
(* of the invariant, and the table stays true.                              *)

StepIsSound(r) == MigrationsTypeOK' /\ Grows /\ OnlyRunner(r) /\ RunnerInv(r)' /\ RecordsAreTrue'

\* Where neither the table nor the history changes, only the process has.
LEMMA QuietStep ==
    ASSUME MigrationsTypeOK, RecordsAreTrue, NEW r \in Runners, OnlyRunner(r), RunnerInv(r)',
           release' = release, records' = records, executions' = executions, overlap' \in BOOLEAN
    PROVE  StepIsSound(r)
<1>1. MigrationsTypeOK'
  BY DEF MigrationsTypeOK, OnlyRunner
<1>2. Grows
  BY DEF Grows
<1>3. RecordsAreTrue'
  BY DEF RecordsAreTrue
<1> QED BY <1>1, <1>2, <1>3 DEF StepIsSound

\* A command that ends with an error claims no more than what it recorded.
LEMMA ErrorKeeps ==
    ASSUME MigrationsTypeOK, NEW r \in Runners, RunnerInv(r), Grows,
           OnlyRunner(r), SameCommand(r), SameWork(r), runner'[r].at = "done", runner'[r].exit = "error",
           \/ runner'[r].failed = Absent
           \/ runner'[r].failed = runner[r].failed
           \/ Applying(r) /\ runner'[r].failed \in runner[r].todo
    PROVE  RunnerInv(r)'
<1>1. WorksInOrder(r)'
  BY DEF RunnerInv, WorksInOrder, Applying, SameWork
<1>2. PlanIsTrue(r)' /\ HasExecuted(r)' /\ LeavesNothingOut(r)'
  BY DEF PlanIsTrue, HasExecuted, LeavesNothingOut, Applying
<1>3. runner[r].applied \subseteq Names
  BY DEF MigrationsTypeOK, RunnerRecord
<1>4. RecordsWhatItApplied(r)'
  BY <1>3 DEF RunnerInv, RecordsWhatItApplied, SameWork, SameCommand, Grows
<1> QED BY <1>1, <1>2, <1>4 DEF RunnerInv

\* A runner that has planned nothing satisfies what is said of one.
LEMMA FreshKeeps ==
    ASSUME NEW r \in Runners, runner'[r].at \in {"idle", "ensure"}, runner'[r].todo = {}, runner'[r].applied = {},
           runner'[r].failed = Absent, runner'[r].exit = "none"
    PROVE  RunnerInv(r)'
BY DEF RunnerInv, WorksInOrder, PlanIsTrue, RecordsWhatItApplied, HasExecuted, LeavesNothingOut, Applying

\* Starting a command changes no record and no schema.
LEMMA RunIsSound ==
    ASSUME MigrationsTypeOK, RecordsAreTrue, NEW r \in Runners, NEW i \in Invocations, run(r, i)
    PROVE  StepIsSound(r)
<1>1. RunnerInv(r)' /\ OnlyRunner(r)
  BY RunStep, FreshKeeps
<1>2. overlap' \in BOOLEAN
  BY DEF run
<1> QED BY <1>1, <1>2, QuietStep DEF run

\* A crash changes no record and no schema, wherever it falls.
LEMMA CrashIsSound ==
    ASSUME MigrationsTypeOK, RecordsAreTrue, NEW r \in Runners, Crash(r)
    PROVE  StepIsSound(r)
<1>1. RunnerInv(r)' /\ OnlyRunner(r)
  BY CrashStep, FreshKeeps
<1> QED BY <1>1, QuietStep DEF Crash, MigrationsTypeOK

\* A process that dies while a file runs leaves a longer history and no record.
LEMMA DieExecutingIsSound ==
    ASSUME MigrationsTypeOK, RecordsAreTrue, NEW r \in Runners, NEW m \in Names, RunnerInv(r), DieExecuting(r, m)
    PROVE  StepIsSound(r)
<1>1. Applying(r) /\ IsPending(r, m)
  BY DEF DieExecuting, Applying
<1>2. runner[r].code[m] \in Versions
  BY <1>1, PendingIsOwn DEF RunnerInv
<1>3. /\ executions' \in [Names -> Seq(Execution)]
      /\ \A k \in Names : ToSet(executions[k]) \subseteq ToSet(executions'[k])
  BY <1>2, ExecuteGrows DEF DieExecuting
<1>4. OnlyRunner(r) /\ runner'[r] = Idle
  BY IdleIsRecord, UpdateIsLocal DEF DieExecuting, MigrationsTypeOK
<1>5. RunnerInv(r)'
  BY <1>4, FreshKeeps DEF Idle
<1>6. MigrationsTypeOK'
  BY <1>3, <1>4 DEF MigrationsTypeOK, OnlyRunner, DieExecuting
<1>7. Grows /\ RecordsAreTrue'
  BY <1>3 DEF Grows, RecordsAreTrue, DieExecuting
<1> QED BY <1>4, <1>5, <1>6, <1>7 DEF StepIsSound

\* An exception ends the runner and leaves the tables as they are.
LEMMA ThrowIsSound ==
    ASSUME MigrationsTypeOK, RecordsAreTrue, NEW r \in Runners, RunnerInv(r), Throw(r),
           release' = release, records' = records, executions' = executions, overlap' = overlap
    PROVE  StepIsSound(r)
<1>1. Grows
  BY DEF Grows
<1>2. RunnerInv(r)'
  BY <1>1, ThrowStep, ErrorKeeps
<1> QED BY <1>2, ThrowStep, QuietStep DEF MigrationsTypeOK

\* A migration that fails is remembered as the one that failed, whatever of it was
\* executed or recorded.
LEMMA FailIsSound ==
    ASSUME MigrationsTypeOK, NEW r \in Runners, NEW m \in Names, RunnerInv(r),
           Applying(r), IsPending(r, m), stopAtFailure(r, m),
           release' = release, overlap' = overlap, Grows, RecordsAreTrue',
           records' \in [Names -> Versions \cup {Absent}], executions' \in [Names -> Seq(Execution)]
    PROVE  StepIsSound(r)
<1>1. /\ OnlyRunner(r) /\ SameCommand(r) /\ SameWork(r) /\ SamePlan(r)
      /\ runner'[r].at = "done" /\ runner'[r].exit = "error" /\ runner'[r].failed = m
  BY FailStep DEF stopAtFailure, Fail
<1>2. RunnerInv(r)'
  BY <1>1, ErrorKeeps DEF IsPending, IsEntry
<1>3. MigrationsTypeOK'
  BY <1>1 DEF MigrationsTypeOK, OnlyRunner
<1> QED BY <1>1, <1>2, <1>3 DEF StepIsSound

\* Creating the table of records leaves it empty or as it was.
LEMMA EnsureTableIsSound ==
    ASSUME MigrationsTypeOK, RecordsAreTrue, NEW r \in Runners, RunnerInv(r), ensureTable(r)
    PROVE  StepIsSound(r)
<1>1. CASE Throw(r)
  BY <1>1, ThrowIsSound DEF ensureTable
<1>2. CASE runner' = [runner EXCEPT ![r].at = "plan"]
  <2>1. OnlyRunner(r) /\ SameCommand(r) /\ SameWork(r) /\ SameEnd(r) /\ runner'[r].at = "plan"
    BY <1>2, MoveStep
  <2>2. RunnerInv(r)'
    BY <2>1 DEF ensureTable, RunnerInv, WorksInOrder, PlanIsTrue, RecordsWhatItApplied, HasExecuted,
                LeavesNothingOut, Applying, SameWork, SameEnd
  <2> QED BY <2>1, <2>2, QuietStep DEF ensureTable, MigrationsTypeOK
<1> QED BY <1>1, <1>2 DEF ensureTable

\* The states an entry may be in, and what they say of the code and of the table.
LEMMA EntriesAreTrue ==
    ASSUME NEW code
    PROVE  /\ Entries(code) \in [Names -> {"unlisted", "orphaned", "pending", "applied", "modified"}]
           /\ \A m \in Names :
                /\ Entries(code)[m] = "unlisted" => code[m] = Absent
                /\ Entries(code)[m] = "pending" => code[m] # Absent /\ records[m] = Absent
                /\ Entries(code)[m] = "applied" => code[m] # Absent /\ records[m] = code[m]
BY DEF Entries, State

\* The plan says of each name what the records and the release say at this moment.
LEMMA BuildPlanIsSound ==
    ASSUME MigrationsTypeOK, RecordsAreTrue, NEW r \in Runners, RunnerInv(r), buildPlan(r)
    PROVE  StepIsSound(r)
<1>1. CASE Throw(r)
  BY <1>1, ThrowIsSound DEF buildPlan
<1>2. CASE ~Throw(r)
  <2>1. PICK p \in [Names -> {"unlisted", "orphaned", "pending", "applied", "modified"}] :
          p = Entries(runner[r].code)
    BY EntriesAreTrue
  <2>2. \A m \in Names :
          /\ p[m] = "unlisted" => runner[r].code[m] = Absent
          /\ p[m] = "pending" => runner[r].code[m] # Absent /\ records[m] = Absent
          /\ p[m] = "applied" => runner[r].code[m] # Absent /\ records[m] = runner[r].code[m]
    BY <2>1, EntriesAreTrue
  <2>3. runner[r].at = "plan" /\ ~refusedForDrift(r, p)
    BY <1>2, <2>1 DEF buildPlan
  <2>4. CASE runner[r].command = "migrate"
    <3>1. PICK t \in SUBSET Names : t = {m \in Names : p[m] # "unlisted"}
      OBVIOUS
    <3>2. Planned(r, p, t)
      BY <1>2, <2>1, <2>4, <3>1 DEF buildPlan, Planned
    <3>3. /\ OnlyRunner(r) /\ SameCommand(r) /\ SameEnd(r) /\ runner'[r].applied = runner[r].applied
          /\ runner'[r].at = "apply" /\ runner'[r].plan = p /\ runner'[r].todo = t
      BY <3>2, PlanStep
    <3>4. runner[r].applied = {} /\ runner[r].failed = Absent /\ runner[r].exit = "none"
      BY <2>3 DEF RunnerInv, WorksInOrder
    <3>5. WorksInOrder(r)'
      BY <3>3, <3>4 DEF WorksInOrder, SameEnd
    <3>6. PlanIsTrue(r)'
      BY <2>2, <3>1, <3>3 DEF PlanIsTrue, SameCommand, buildPlan
    <3>7. RecordsWhatItApplied(r)' /\ HasExecuted(r)'
      BY <3>3, <3>4 DEF RecordsWhatItApplied, HasExecuted
    <3>8. ASSUME ~runner[r].force, NEW m \in Names, runner[r].code[m] # Absent
          PROVE  records[m] = runner[r].code[m] \/ (m \in t /\ p[m] = "pending")
      <4>1. p[m] \notin {"modified", "orphaned"}
        BY <2>3, <2>4, <3>8 DEF refusedForDrift, hasDrift
      <4> QED BY <2>2, <3>1, <3>8, <4>1
    <3>9. LeavesNothingOut(r)'
      BY <3>3, <3>8 DEF LeavesNothingOut, SameCommand, Applying, buildPlan
    <3> QED BY <3>3, <3>5, <3>6, <3>7, <3>9, QuietStep DEF RunnerInv, buildPlan, MigrationsTypeOK
  <2>5. CASE runner[r].command # "migrate"
    <3>1. runner' = [runner EXCEPT ![r].at = "done", ![r].exit = "success", ![r].plan = p]
      BY <1>2, <2>1, <2>5 DEF buildPlan
    <3>2. /\ OnlyRunner(r) /\ SameCommand(r) /\ SameWork(r)
          /\ runner'[r].at = "done" /\ runner'[r].exit = "success" /\ runner'[r].failed = runner[r].failed
      BY <3>1, ShowStep
    <3>3. RunnerInv(r)'
      BY <2>3, <2>5, <3>2 DEF RunnerInv, WorksInOrder, PlanIsTrue, RecordsWhatItApplied, HasExecuted,
                              LeavesNothingOut, Applying, SameWork, SameCommand
    <3> QED BY <3>2, <3>3, QuietStep DEF buildPlan, MigrationsTypeOK
  <2> QED BY <2>4, <2>5
<1> QED BY <1>1, <1>2

\* An entry that is not pending needs no work.
LEMMA SkipIsSound ==
    ASSUME MigrationsTypeOK, RecordsAreTrue, NEW r \in Runners, NEW m \in Names, RunnerInv(r), skip(r, m)
    PROVE  StepIsSound(r)
<1>1. runner[r].todo \subseteq Names /\ runner[r].skipped \subseteq Names
  BY DEF MigrationsTypeOK, RunnerRecord
<1>2. PICK t \in SUBSET Names : t = runner[r].todo \ {m}
  BY <1>1
<1>3. PICK s \in SUBSET Names : s = runner[r].skipped \cup {k \in {m} : runner[r].plan[k] = "applied"}
  BY <1>1
<1>4. runner' = [runner EXCEPT ![r].todo = t, ![r].skipped = s]
  BY <1>2, <1>3 DEF skip, MigrationsTypeOK, RunnerRecord
<1>5. /\ OnlyRunner(r) /\ SameCommand(r) /\ SamePlan(r) /\ SameEnd(r) /\ runner'[r].at = runner[r].at
      /\ runner'[r].todo = t /\ runner'[r].applied = runner[r].applied
  BY <1>4, SkipStep
<1>6. runner[r].at = "apply" /\ m \in runner[r].todo /\ runner[r].plan[m] # "pending"
  BY DEF skip, IsPending, IsEntry
<1>7. WorksInOrder(r)'
  BY <1>2, <1>5, <1>6 DEF RunnerInv, WorksInOrder, Applying, SameEnd
<1>8. PlanIsTrue(r)'
  BY <1>2, <1>5, <1>6 DEF RunnerInv, PlanIsTrue, Applying, SameCommand, SamePlan, skip
<1>9. RecordsWhatItApplied(r)' /\ HasExecuted(r)'
  BY <1>5, <1>6 DEF RunnerInv, RecordsWhatItApplied, HasExecuted, SameCommand, skip
<1>10. LeavesNothingOut(r)'
  BY <1>2, <1>5, <1>6 DEF RunnerInv, LeavesNothingOut, Applying, SameCommand, SamePlan, SameEnd, skip
<1> QED BY <1>5, <1>7, <1>8, <1>9, <1>10, QuietStep DEF RunnerInv, skip, MigrationsTypeOK

\* A dry run goes through the plan without touching the database.
LEMMA DryRunIsSound ==
    ASSUME MigrationsAssumption, MigrationsTypeOK, RecordsAreTrue,
           NEW r \in Runners, NEW m \in Names, RunnerInv(r), dryRun(r, m)
    PROVE  StepIsSound(r)
<1>1. runner[r].todo \subseteq Names /\ runner[r].applied \subseteq Names
  BY DEF MigrationsTypeOK, RunnerRecord
<1>2. PICK t \in SUBSET Names : t = runner[r].todo \ {m}
  BY <1>1
<1>3. PICK a \in SUBSET Names : a = runner[r].applied \cup {m}
  BY <1>1
<1>4. runner' = [runner EXCEPT ![r].todo = t, ![r].applied = a]
  BY <1>2, <1>3 DEF dryRun, MigrationsTypeOK, RunnerRecord
<1>5. /\ OnlyRunner(r) /\ SameCommand(r) /\ SamePlan(r) /\ SameEnd(r) /\ runner'[r].at = runner[r].at
      /\ runner'[r].todo = t /\ runner'[r].applied = a
  BY <1>4, DryStep
<1>6. runner[r].at = "apply" /\ m \in runner[r].todo /\ runner[r].dryRun
  BY DEF dryRun, IsPending, IsEntry
<1>7. WorksInOrder(r)'
  <2>1. \A k \in t : m < k
    BY <1>1, <1>2 DEF dryRun, IsPending, IsEntry, Names
  <2>2. \A j \in a : \A k \in t : j < k
    BY <1>2, <1>3, <1>6, <2>1 DEF RunnerInv, WorksInOrder, Applying
  <2> QED BY <1>5, <1>6, <2>2 DEF RunnerInv, WorksInOrder, SameEnd
<1>8. PlanIsTrue(r)'
  BY ZenonT(40), <1>2, <1>5, <1>6 DEF RunnerInv, PlanIsTrue, Applying, SameCommand, SamePlan, dryRun
<1>9. RecordsWhatItApplied(r)' /\ HasExecuted(r)' /\ LeavesNothingOut(r)'
  BY <1>5, <1>6 DEF RecordsWhatItApplied, HasExecuted, LeavesNothingOut, SameCommand
<1> QED BY <1>5, <1>7, <1>8, <1>9, QuietStep DEF RunnerInv, dryRun, MigrationsTypeOK

\* A migration is executed once all pending ones before it were recorded.
LEMMA ExecuteIsSound ==
    ASSUME MigrationsTypeOK, RecordsAreTrue, NEW r \in Runners, NEW m \in Names, RunnerInv(r), execute(r, m)
    PROVE  StepIsSound(r)
<1>1. runner[r].at = "apply" /\ Applying(r) /\ IsPending(r, m)
  BY DEF execute, Applying
<1>2. runner[r].code[m] \in Versions
  BY <1>1, PendingIsOwn DEF RunnerInv
<1>3. CASE Took(r, m, TRUE) /\ runner' = [runner EXCEPT ![r].at = "record"]
  <2>2. /\ executions' \in [Names -> Seq(Execution)]
        /\ \A k \in Names : ToSet(executions[k]) \subseteq ToSet(executions'[k])
        /\ InFull(runner[r].code[m]) \in ToSet(executions'[m])
    BY <1>2, <1>3, ExecuteGrows
  <2>3. Grows
    BY <2>2 DEF Grows, execute
  <2>4. /\ OnlyRunner(r) /\ SameCommand(r) /\ SameWork(r) /\ SamePlan(r) /\ SameEnd(r)
        /\ runner'[r].at = "record"
    BY <1>3, MoveStep
  <2>5. MigrationsTypeOK'
    BY <2>2, <2>4 DEF MigrationsTypeOK, OnlyRunner, execute
  <2>6. RecordsAreTrue'
    BY <2>2 DEF RecordsAreTrue, execute
  <2>7. WorksInOrder(r)' /\ PlanIsTrue(r)' /\ RecordsWhatItApplied(r)' /\ LeavesNothingOut(r)'
    <3>1. WorksInOrder(r)'
      BY <1>1, <2>4 DEF RunnerInv, WorksInOrder, Applying, SameWork, SameEnd
    <3>2. PlanIsTrue(r)'
      BY <1>1, <2>4 DEF RunnerInv, PlanIsTrue, Applying, SameWork, SamePlan, SameCommand, execute
    <3>3. RecordsWhatItApplied(r)'
      BY <1>1, <2>4 DEF RunnerInv, RecordsWhatItApplied, SameWork, SameCommand, execute
    <3>4. LeavesNothingOut(r)'
      BY <1>1, <2>4 DEF RunnerInv, LeavesNothingOut, Applying, SameWork, SamePlan, SameCommand, SameEnd, execute
    <3> QED BY <3>1, <3>2, <3>3, <3>4
  <2>8. HasExecuted(r)'
    <3>1. \A k \in Names : IsPending(r, k)' => k = m
      BY <1>1, <2>4 DEF IsPending, IsEntry, SameWork, SamePlan, Names
    <3> QED BY <2>2, <2>4, <3>1 DEF HasExecuted, SameCommand
  <2> QED BY <2>3, <2>4, <2>5, <2>6, <2>7, <2>8 DEF StepIsSound, RunnerInv
<1>4. CASE stopAtFailure(r, m) /\ UNCHANGED executions
  <2>1. Grows /\ RecordsAreTrue'
    BY <1>4 DEF Grows, RecordsAreTrue, execute
  <2> QED BY <1>1, <1>4, <2>1, FailIsSound DEF execute, MigrationsTypeOK
<1>5. CASE \E all \in BOOLEAN : Took(r, m, all) /\ stopAtFailure(r, m)
  <2>1. /\ executions' \in [Names -> Seq(Execution)]
        /\ \A k \in Names : ToSet(executions[k]) \subseteq ToSet(executions'[k])
    BY <1>2, <1>5, ExecuteGrows
  <2>2. Grows /\ RecordsAreTrue'
    BY <2>1 DEF Grows, RecordsAreTrue, execute
  <2> QED BY <1>1, <1>5, <2>1, <2>2, FailIsSound DEF execute, MigrationsTypeOK
<1> QED BY <1>3, <1>4, <1>5 DEF execute

\* recordApplied(), when the insert succeeded.
LEMMA InsertGrows ==
    ASSUME MigrationsTypeOK, NEW r \in Runners, NEW m \in Names, records[m] = Absent,
           runner[r].code[m] \in Versions, records' = [records EXCEPT ![m] = runner[r].code[m]]
    PROVE  /\ records' \in [Names -> Versions \cup {Absent}]
           /\ records'[m] = runner[r].code[m]
           /\ \A k \in Names \ {m} : records'[k] = records[k]
           /\ \A k \in Names : records[k] # Absent => records'[k] = records[k]
BY DEF MigrationsTypeOK

\* A record is written for what the runner has executed.
LEMMA RecordAppliedIsSound ==
    ASSUME MigrationsAssumption, MigrationsTypeOK, RecordsAreTrue,
           NEW r \in Runners, NEW m \in Names, RunnerInv(r), recordApplied(r, m)
    PROVE  StepIsSound(r)
<1>1. runner[r].at = "record" /\ Applying(r) /\ IsPending(r, m)
  BY DEF recordApplied, Applying
<1>2. CASE stopAtFailure(r, m) /\ UNCHANGED records
  <2>1. Grows /\ RecordsAreTrue'
    BY <1>2 DEF Grows, RecordsAreTrue, recordApplied
  <2> QED BY <1>1, <1>2, <2>1, FailIsSound DEF recordApplied, MigrationsTypeOK
<1>3. CASE records[m] = Absent /\ records' = [records EXCEPT ![m] = runner[r].code[m]]
  <2>1. runner[r].code[m] \in Versions /\ runner[r].code[m] # Absent
    BY <1>1, PendingIsOwn DEF RunnerInv
  <2>2. /\ records' \in [Names -> Versions \cup {Absent}]
        /\ records'[m] = runner[r].code[m]
        /\ \A k \in Names \ {m} : records'[k] = records[k]
        /\ \A k \in Names : records[k] # Absent => records'[k] = records[k]
    BY <1>3, <2>1, InsertGrows
  <2>3. Grows
    BY <2>2 DEF Grows, recordApplied
  <2>10. RecordsAreTrue'
    <3>1. InFull(runner[r].code[m]) \in ToSet(executions[m])
      BY <1>1 DEF RunnerInv, HasExecuted
    <3> QED BY <2>2, <3>1 DEF RecordsAreTrue, recordApplied
  <2>16. CASE stopAtFailure(r, m)
    BY <1>1, <2>2, <2>3, <2>10, <2>16, FailIsSound DEF recordApplied, MigrationsTypeOK
  <2> SUFFICES ASSUME runner' = [runner EXCEPT ![r].at = "apply", ![r].todo = @ \ {m},
                                               ![r].applied = @ \cup {m}]
               PROVE  StepIsSound(r)
    BY <1>3, <2>1, <2>2, <2>16 DEF recordApplied
  <2>4. runner[r].todo \subseteq Names /\ runner[r].applied \subseteq Names
    BY DEF MigrationsTypeOK, RunnerRecord
  <2>5. PICK t \in SUBSET Names : t = runner[r].todo \ {m}
    BY <2>4
  <2>6. PICK a \in SUBSET Names : a = runner[r].applied \cup {m}
    BY <2>4
  <2>7. Recorded(r, t, a)
    BY <2>5, <2>6 DEF MigrationsTypeOK, RunnerRecord, Recorded
  <2>8. /\ OnlyRunner(r) /\ SameCommand(r) /\ SamePlan(r) /\ SameEnd(r) /\ runner'[r].at = "apply"
        /\ runner'[r].todo = t /\ runner'[r].applied = a
    BY <2>7, RecordStep
  <2>9. MigrationsTypeOK'
    BY <2>2, <2>8 DEF MigrationsTypeOK, OnlyRunner, recordApplied
  <2>11. WorksInOrder(r)'
    <3>1. \A k \in t : m < k
      BY <1>1, <2>4, <2>5 DEF IsPending, IsEntry, Names
    <3>2. \A j \in a : \A k \in t : j < k
      BY <1>1, <2>5, <2>6, <3>1 DEF RunnerInv, WorksInOrder
    <3> QED BY <1>1, <2>8, <3>2 DEF RunnerInv, WorksInOrder, SameEnd
  <2>12. PlanIsTrue(r)'
    BY <1>1, <2>2, <2>4, <2>5, <2>8 DEF RunnerInv, PlanIsTrue, Applying, SameCommand, SamePlan
  <2>13. RecordsWhatItApplied(r)'
    <3>1. ASSUME ~runner[r].dryRun, NEW k \in a
          PROVE  runner[r].code[k] # Absent /\ records'[k] = runner[r].code[k]
      <4>1. CASE k = m
        BY <2>1, <2>2, <4>1
      <4>2. CASE k \in runner[r].applied
        BY <2>2, <2>4, <3>1, <4>2 DEF RunnerInv, RecordsWhatItApplied
      <4> QED BY <2>6, <4>1, <4>2
    <3> QED BY <2>8, <3>1 DEF RecordsWhatItApplied, SameCommand
  <2>14. HasExecuted(r)'
    BY <2>8 DEF HasExecuted
  <2>15. LeavesNothingOut(r)'
    BY <1>1, <2>2, <2>5, <2>8 DEF RunnerInv, LeavesNothingOut, Applying, SameCommand, SamePlan, SameEnd
  <2> QED BY <2>3, <2>8, <2>9, <2>10, <2>11, <2>12, <2>13, <2>14, <2>15 DEF StepIsSound, RunnerInv
<1> QED BY <1>2, <1>3 DEF recordApplied

\* A command ends well when nothing pending is left.
LEMMA AppliedIsSound ==
    ASSUME MigrationsTypeOK, RecordsAreTrue, NEW r \in Runners, RunnerInv(r), applied(r)
    PROVE  StepIsSound(r)
<1>1. runner[r].at = "apply" /\ Applying(r) /\ runner[r].todo = {}
  BY DEF applied, Applying
<1>2. /\ OnlyRunner(r) /\ SameCommand(r) /\ SameWork(r) /\ SamePlan(r)
      /\ runner'[r].at = "done" /\ runner'[r].exit = "success" /\ runner'[r].failed = runner[r].failed
  BY ReportStep DEF applied
<1>3. WorksInOrder(r)' /\ PlanIsTrue(r)' /\ HasExecuted(r)'
  BY <1>1, <1>2 DEF RunnerInv, WorksInOrder, PlanIsTrue, HasExecuted, Applying, SameWork
<1>4. RecordsWhatItApplied(r)'
  BY <1>2 DEF RunnerInv, RecordsWhatItApplied, SameWork, SameCommand, applied
<1>5. LeavesNothingOut(r)'
  BY <1>1, <1>2 DEF RunnerInv, LeavesNothingOut, Applying, SameCommand, applied
<1> QED BY <1>2, <1>3, <1>4, <1>5, QuietStep DEF RunnerInv, applied, MigrationsTypeOK

-----------------------------------------------------------------------------
(* Commands that do not overlap.                                            *)

\* The process that takes a step is then the only one in progress.
LEMMA OnlyOne ==
    ASSUME SerialInv, ~overlap, NEW r \in Runners, InProgress(r), OnlyRunner(r)
    PROVE  /\ \A p \in Runners : InProgress(p) => p = r
           /\ \A p \in Runners : InProgress(p)' => p = r
           /\ \A p \in Runners : Applying(p)' => p = r
           /\ \A p \in Runners : runner'[p].at = "record" => p = r
<1>1. \A p \in Runners : InProgress(p) => p = r
  BY DEF SerialInv
<1>2. \A p \in Runners : InProgress(p)' => p = r
  BY <1>1 DEF OnlyRunner, InProgress
<1> QED BY <1>1, <1>2 DEF InProgress, Applying

\* A step that neither executes nor records: the migration a process was about to
\* record, if it is given up, is known to have lost its record.
LEMMA SerialKeeps ==
    ASSUME MigrationsTypeOK, SerialInv, NEW r \in Runners, InProgress(r), OnlyRunner(r),
           overlap' = overlap, records' = records, executions' = executions,
           unrecorded \subseteq unrecorded',
           ~overlap /\ Applying(r)' => \A m \in runner'[r].todo :
              runner'[r].plan[m] = "pending" => records[m] = Absent,
           runner[r].at = "record" => \A m \in Names : IsPending(r, m) => m \in unrecorded'
    PROVE  SerialInv'
<1> SUFFICES ASSUME ~overlap
             PROVE  /\ \A p, q \in Runners : InProgress(p)' /\ InProgress(q)' => p = q
                    /\ \A p \in Runners : Applying(p)' => \A m \in runner'[p].todo :
                         runner'[p].plan[m] = "pending" => records'[m] = Absent
                    /\ \A m \in Names \ unrecorded' :
                         /\ Len(executions'[m]) <= 1
                         /\ executions'[m] # <<>> =>
                              \/ records'[m] # Absent
                              \/ \E p \in Runners : runner'[p].at = "record" /\ IsPending(p, m)'
  BY DEF SerialInv
<1>1. \A p, q \in Runners : InProgress(p)' /\ InProgress(q)' => p = q
  BY OnlyOne
<1>2. \A p \in Runners : Applying(p)' => \A m \in runner'[p].todo :
         runner'[p].plan[m] = "pending" => records'[m] = Absent
  BY OnlyOne
<1>3. ASSUME NEW m \in Names \ unrecorded'
      PROVE  Len(executions[m]) <= 1 /\ (executions[m] # <<>> => records[m] # Absent)
  <2>1. /\ Len(executions[m]) <= 1
        /\ executions[m] # <<>> =>
             records[m] # Absent \/ \E p \in Runners : runner[p].at = "record" /\ IsPending(p, m)
    BY DEF SerialInv
  <2>2. \A p \in Runners : runner[p].at = "record" => p = r
    BY OnlyOne DEF InProgress
  <2> QED BY <2>1, <2>2
<1> QED BY <1>1, <1>2, <1>3

\* A process that was not about to record anything, and whose plan is no larger.
LEMMA SerialShrinks ==
    ASSUME MigrationsTypeOK, SerialInv, NEW r \in Runners, runner[r].at \in {"ensure", "plan", "apply"},
           OnlyRunner(r), overlap' = overlap, records' = records, executions' = executions,
           unrecorded' = unrecorded,
           Applying(r)' => Applying(r) /\ SamePlan(r) /\ runner'[r].todo \subseteq runner[r].todo
    PROVE  SerialInv'
<1>1. InProgress(r) /\ runner[r].at # "record"
  BY DEF InProgress
<1>2. ~overlap /\ Applying(r)' => \A m \in runner'[r].todo :
         runner'[r].plan[m] = "pending" => records[m] = Absent
  BY DEF SerialInv, SamePlan
<1> QED BY <1>1, <1>2, SerialKeeps

\* A process that ends.
LEMMA SerialEnds ==
    ASSUME MigrationsTypeOK, SerialInv, NEW r \in Runners, InProgress(r), OnlyRunner(r),
           runner'[r].at \in {"idle", "done"},
           overlap' = overlap, records' = records, executions' = executions,
           unrecorded \subseteq unrecorded',
           runner[r].at = "record" => \A m \in Names : IsPending(r, m) => m \in unrecorded'
    PROVE  SerialInv'
BY SerialKeeps DEF Applying

\* run() notes whether another command is in progress.
LEMMA RunIsSerial ==
    ASSUME MigrationsTypeOK, SerialInv, NEW r \in Runners, NEW i \in Invocations, run(r, i)
    PROVE  SerialInv'
<1>1. OnlyRunner(r) /\ runner'[r].at = "ensure"
  BY RunStep
<1> SUFFICES ASSUME ~overlap'
             PROVE  SerialInv'
  BY DEF SerialInv
<1>2. ~overlap /\ \A p \in Runners \ {r} : ~InProgress(p)
  BY DEF run
<1>3. \A p \in Runners : InProgress(p)' => p = r
  BY <1>1, <1>2 DEF OnlyRunner, InProgress
<1>4. \A p \in Runners : ~Applying(p)' /\ runner[p].at # "record"
  BY <1>1, <1>2, <1>3 DEF Applying, InProgress, run
<1>5. /\ \A m \in Names \ unrecorded :
           Len(executions[m]) <= 1 /\ (executions[m] # <<>> => records[m] # Absent)
  BY <1>2, <1>4 DEF SerialInv
<1> QED BY <1>3, <1>4, <1>5 DEF SerialInv, run

\* A process that ends at a migration of which a part took effect.
LEMMA SerialGivesUp ==
    ASSUME MigrationsTypeOK, SerialInv, NEW r \in Runners, NEW m \in Names, runner[r].at = "apply",
           OnlyRunner(r), runner'[r].at \in {"idle", "done"}, overlap' = overlap, records' = records,
           \A k \in Names \ {m} : executions'[k] = executions[k],
           unrecorded' = unrecorded \cup {m}
    PROVE  SerialInv'
<1> SUFFICES ASSUME ~overlap
             PROVE  SerialInv'
  BY DEF SerialInv
<1>1. \A p \in Runners : ~InProgress(p)' /\ ~Applying(p)' /\ runner[p].at # "record"
  BY OnlyOne DEF InProgress, Applying
<1>2. \A k \in Names \ unrecorded' :
        Len(executions'[k]) <= 1 /\ (executions'[k] # <<>> => records'[k] # Absent)
  BY <1>1 DEF SerialInv
<1> QED BY <1>1, <1>2 DEF SerialInv

\* A process that dies while a file runs.
LEMMA DieExecutingIsSerial ==
    ASSUME MigrationsTypeOK, SerialInv, NEW r \in Runners, NEW m \in Names, DieExecuting(r, m)
    PROVE  SerialInv'
<1>1. OnlyRunner(r) /\ runner'[r].at = "idle"
  BY IdleIsRecord, UpdateIsLocal DEF DieExecuting, MigrationsTypeOK, Idle
<1>2. \A k \in Names \ {m} : executions'[k] = executions[k]
  BY DEF DieExecuting, Took, MigrationsTypeOK
<1> QED BY <1>1, <1>2, SerialGivesUp DEF DieExecuting

\* execute(): what is executed has no record, so it was not executed before.
LEMMA ExecuteIsSerial ==
    ASSUME MigrationsTypeOK, SerialInv, NEW r \in Runners, NEW m \in Names, RunnerInv(r), execute(r, m)
    PROVE  SerialInv'
<1>1. runner[r].at = "apply" /\ Applying(r) /\ IsPending(r, m) /\ InProgress(r)
  BY DEF execute, Applying, InProgress
<1>2. CASE stopAtFailure(r, m) /\ UNCHANGED <<executions, unrecorded>>
  <2>1. OnlyRunner(r) /\ runner'[r].at = "done"
    BY <1>2, FailStep DEF stopAtFailure, Fail
  <2> QED BY <1>1, <1>2, <2>1, SerialEnds DEF execute
<1>4. CASE /\ \E all \in BOOLEAN : Took(r, m, all)
           /\ stopAtFailure(r, m)
           /\ unrecorded' = unrecorded \cup {m}
  <2>1. OnlyRunner(r) /\ runner'[r].at = "done"
    BY <1>4, FailStep DEF stopAtFailure, Fail
  <2>2. \A k \in Names \ {m} : executions'[k] = executions[k]
    BY <1>4 DEF Took, MigrationsTypeOK
  <2> QED BY <1>1, <1>4, <2>1, <2>2, SerialGivesUp DEF execute
<1>3. CASE Took(r, m, TRUE) /\ runner' = [runner EXCEPT ![r].at = "record"] /\ UNCHANGED unrecorded
  <2> SUFFICES ASSUME ~overlap
               PROVE  SerialInv'
    BY DEF SerialInv, execute
  <2>1. runner[r].code[m] \in Versions
    BY <1>1, PendingIsOwn DEF RunnerInv
  <2>2. /\ \A k \in Names \ {m} : executions'[k] = executions[k]
        /\ Len(executions'[m]) = Len(executions[m]) + 1
    BY <1>3, <2>1, ExecuteGrows
  <2>3. OnlyRunner(r) /\ SameWork(r) /\ SamePlan(r) /\ runner'[r].at = "record"
    BY <1>3, MoveStep
  <2>4. records[m] = Absent
    BY <1>1 DEF SerialInv, IsPending, IsEntry
  <2>5. \A p \in Runners : runner[p].at # "record"
    BY <1>1, <2>3, OnlyOne DEF InProgress
  <2>6. \A k \in Names \ unrecorded :
          Len(executions[k]) <= 1 /\ (executions[k] # <<>> => records[k] # Absent)
    BY <2>5 DEF SerialInv
  <2>7. IsPending(r, m)'
    BY <1>1, <2>3 DEF IsPending, IsEntry, SameWork, SamePlan
  <2>8. m \notin unrecorded => Len(executions'[m]) <= 1
    BY <2>2, <2>4, <2>6 DEF MigrationsTypeOK
  <2>9. \A p \in Runners : Applying(p)' => \A k \in runner'[p].todo :
          runner'[p].plan[k] = "pending" => records[k] = Absent
    BY <1>1, <2>3, OnlyOne DEF SerialInv, SameWork, SamePlan
  <2>10. \A p, q \in Runners : InProgress(p)' /\ InProgress(q)' => p = q
    BY <1>1, <2>3, OnlyOne
  <2>11. \A k \in Names \ unrecorded :
           /\ Len(executions'[k]) <= 1
           /\ executions'[k] # <<>> =>
                records[k] # Absent \/ \E p \in Runners : runner'[p].at = "record" /\ IsPending(p, k)'
    BY <2>2, <2>3, <2>6, <2>7, <2>8
  <2> QED BY <2>9, <2>10, <2>11 DEF SerialInv, execute
<1> QED BY <1>2, <1>3, <1>4 DEF execute

\* Recording: the only runner at work accounts for what it executed.
LEMMA RecordAppliedIsSerial ==
    ASSUME MigrationsTypeOK, SerialInv, NEW r \in Runners, NEW m \in Names, RunnerInv(r), recordApplied(r, m)
    PROVE  SerialInv'
<1>1. runner[r].at = "record" /\ Applying(r) /\ IsPending(r, m) /\ InProgress(r)
  BY DEF recordApplied, Applying, InProgress
<1>2. \A k \in Names : IsPending(r, k) => k = m
  BY <1>1 DEF IsPending, IsEntry, Names
<1>3. CASE /\ stopAtFailure(r, m)
           /\ unrecorded' = unrecorded \cup {m}
           /\ UNCHANGED records
  <2>1. OnlyRunner(r) /\ runner'[r].at = "done"
    BY <1>3, FailStep DEF stopAtFailure, Fail
  <2> QED BY <1>1, <1>2, <1>3, <2>1, SerialEnds DEF recordApplied
<1>4. CASE /\ records[m] = Absent
           /\ records' = [records EXCEPT ![m] = runner[r].code[m]]
           /\ \/ runner' = [runner EXCEPT ![r].at = "apply", ![r].todo = @ \ {m}, ![r].applied = @ \cup {m}]
              \/ stopAtFailure(r, m)
           /\ UNCHANGED unrecorded
  <2> SUFFICES ASSUME ~overlap
               PROVE  SerialInv'
    BY DEF SerialInv, recordApplied
  <2>1. runner[r].code[m] \in Versions /\ runner[r].code[m] # Absent
    BY <1>1, PendingIsOwn DEF RunnerInv
  <2>2. /\ records'[m] # Absent
        /\ \A k \in Names \ {m} : records'[k] = records[k]
    BY <1>4, <2>1, InsertGrows
  <2>3. runner[r].todo \subseteq Names /\ runner[r].applied \subseteq Names
    BY DEF MigrationsTypeOK, RunnerRecord
  <2>4. PICK t \in SUBSET Names : t = runner[r].todo \ {m}
    BY <2>3
  <2>5. PICK a \in SUBSET Names : a = runner[r].applied \cup {m}
    BY <2>3
  <2>7. OnlyRunner(r) /\ (Applying(r)' => SamePlan(r) /\ runner'[r].todo = t)
    <3>1. CASE stopAtFailure(r, m)
      BY <3>1, FailStep DEF stopAtFailure, Fail, Applying
    <3>2. CASE runner' = [runner EXCEPT ![r].at = "apply", ![r].todo = @ \ {m}, ![r].applied = @ \cup {m}]
      <4>1. Recorded(r, t, a)
        BY <3>2, <2>4, <2>5 DEF MigrationsTypeOK, RunnerRecord, Recorded
      <4> QED BY <4>1, RecordStep
    <3> QED BY <1>4, <3>1, <3>2
  <2>8. \A p \in Runners : runner[p].at = "record" => p = r
    BY <1>1, <2>7, OnlyOne DEF InProgress
  <2>9. \A k \in Names \ unrecorded :
          Len(executions[k]) <= 1 /\ (executions[k] # <<>> => records'[k] # Absent)
    <3> SUFFICES ASSUME NEW k \in Names \ unrecorded
                 PROVE  Len(executions[k]) <= 1 /\ (executions[k] # <<>> => records'[k] # Absent)
      OBVIOUS
    <3>1. /\ Len(executions[k]) <= 1
          /\ executions[k] # <<>> =>
               records[k] # Absent \/ \E p \in Runners : runner[p].at = "record" /\ IsPending(p, k)
      BY DEF SerialInv
    <3> QED BY <1>2, <2>2, <2>8, <3>1
  <2>10. \A p \in Runners : Applying(p)' => \A k \in runner'[p].todo :
           runner'[p].plan[k] = "pending" => records'[k] = Absent
    BY <1>1, <2>2, <2>3, <2>4, <2>7, OnlyOne DEF SerialInv, SamePlan
  <2>11. \A p, q \in Runners : InProgress(p)' /\ InProgress(q)' => p = q
    BY <1>1, <2>7, OnlyOne
  <2> QED BY <1>4, <2>9, <2>10, <2>11 DEF SerialInv, recordApplied
<1> QED BY <1>3, <1>4 DEF recordApplied

\* Planning: what the plan calls pending has been executed by nobody.
LEMMA BuildPlanIsSerial ==
    ASSUME MigrationsTypeOK, SerialInv, NEW r \in Runners, buildPlan(r)
    PROVE  SerialInv'
<1>1. runner[r].at = "plan" /\ InProgress(r)
  BY DEF buildPlan, InProgress
<1>2. CASE Throw(r)
  BY <1>1, <1>2, ThrowStep, SerialEnds DEF buildPlan
<1>3. CASE ~Throw(r)
  <2>1. PICK p \in [Names -> {"unlisted", "orphaned", "pending", "applied", "modified"}] :
          p = Entries(runner[r].code)
    BY EntriesAreTrue
  <2>2. \A m \in Names : p[m] = "pending" => records[m] = Absent
    BY <2>1, EntriesAreTrue
  <2>3. CASE runner[r].command = "migrate"
    <3>1. PICK t \in SUBSET Names : t = {m \in Names : p[m] # "unlisted"}
      OBVIOUS
    <3>2. Planned(r, p, t)
      BY <1>3, <2>1, <2>3, <3>1 DEF buildPlan, Planned
    <3>3. OnlyRunner(r) /\ runner'[r].plan = p /\ runner'[r].todo = t
      BY <3>2, PlanStep
    <3>4. \A m \in runner'[r].todo : runner'[r].plan[m] = "pending" => records[m] = Absent
      BY <2>2, <3>3
    <3> QED BY <1>1, <3>3, <3>4, SerialKeeps DEF buildPlan
  <2>4. CASE runner[r].command # "migrate"
    <3>1. runner' = [runner EXCEPT ![r].at = "done", ![r].exit = "success", ![r].plan = p]
      BY <1>3, <2>1, <2>4 DEF buildPlan
    <3>2. OnlyRunner(r) /\ runner'[r].at = "done"
      BY <3>1, ShowStep
    <3> QED BY <1>1, <3>2, SerialEnds DEF buildPlan
  <2> QED BY <2>3, <2>4
<1> QED BY <1>2, <1>3

\* Creating the table executes and records nothing.
LEMMA EnsureTableIsSerial ==
    ASSUME MigrationsTypeOK, SerialInv, NEW r \in Runners, ensureTable(r)
    PROVE  SerialInv'
<1>1. runner[r].at = "ensure" /\ InProgress(r)
  BY DEF ensureTable, InProgress
<1>2. CASE Throw(r)
  BY <1>1, <1>2, ThrowStep, SerialEnds DEF ensureTable
<1>3. CASE runner' = [runner EXCEPT ![r].at = "plan"]
  <2>1. OnlyRunner(r) /\ runner'[r].at = "plan"
    BY <1>3, MoveStep
  <2> QED BY <1>1, <2>1, SerialShrinks DEF ensureTable, Applying
<1> QED BY <1>2, <1>3 DEF ensureTable

\* Passing over an entry executes and records nothing.
LEMMA SkipIsSerial ==
    ASSUME MigrationsTypeOK, SerialInv, NEW r \in Runners, NEW m \in Names, skip(r, m) \/ dryRun(r, m)
    PROVE  SerialInv'
<1>1. runner[r].at = "apply" /\ Applying(r)
  BY DEF skip, dryRun, Applying
<1>2. runner[r].todo \subseteq Names /\ runner[r].skipped \subseteq Names /\ runner[r].applied \subseteq Names
  BY DEF MigrationsTypeOK, RunnerRecord
<1>3. PICK t \in SUBSET Names : t = runner[r].todo \ {m}
  BY <1>2
<1>4. OnlyRunner(r) /\ SamePlan(r) /\ runner'[r].todo = t
  <2>1. CASE skip(r, m)
    <3>1. PICK s \in SUBSET Names : s = runner[r].skipped \cup {k \in {m} : runner[r].plan[k] = "applied"}
      BY <1>2
    <3>2. runner' = [runner EXCEPT ![r].todo = t, ![r].skipped = s]
      BY <1>3, <2>1, <3>1 DEF skip, MigrationsTypeOK, RunnerRecord
    <3> QED BY <3>2, SkipStep
  <2>2. CASE dryRun(r, m)
    <3>1. PICK a \in SUBSET Names : a = runner[r].applied \cup {m}
      BY <1>2
    <3>2. runner' = [runner EXCEPT ![r].todo = t, ![r].applied = a]
      BY <1>3, <2>2, <3>1 DEF dryRun, MigrationsTypeOK, RunnerRecord
    <3> QED BY <3>2, DryStep
  <2> QED BY <2>1, <2>2
<1> QED BY <1>1, <1>3, <1>4, SerialShrinks DEF skip, dryRun

\* A runner that ends, in whatever way, is no longer at work.
LEMMA EndsAreSerial ==
    ASSUME MigrationsTypeOK, SerialInv, NEW r \in Runners,
           (\E m \in Names : up(r, m)) \/ applied(r) \/ Crash(r)
    PROVE  SerialInv'
<1>1. CASE \E m \in Names : up(r, m)
  BY <1>1, ThrowStep, SerialEnds DEF up, InProgress
<1>2. CASE applied(r)
  BY <1>2, ReportStep, SerialEnds DEF applied, InProgress
<1>3. CASE Crash(r)
  BY <1>3, CrashStep, SerialEnds DEF Crash
<1> QED BY <1>1, <1>2, <1>3

-----------------------------------------------------------------------------
\* A step of a process keeps the whole invariant.
LEMMA StepKeepsInv ==
    ASSUME MigrationsInv, NEW r \in Runners, StepIsSound(r), SerialInv'
    PROVE  MigrationsInv'
<1>1. \A p \in Runners \ {r} : RunnerInv(p)'
  BY OthersKeep DEF MigrationsInv, StepIsSound, OnlyRunner
<1> QED BY <1>1 DEF MigrationsInv, StepIsSound

\* The invariant holds of a database nobody has migrated.
LEMMA MigrationsInitInv ==
    ASSUME MigrationsInit
    PROVE  MigrationsInv
<1>1. \A r \in Runners : runner[r] = Idle
  BY DEF MigrationsInit
<1>2. MigrationsTypeOK
  <2>1. runner \in [Runners -> RunnerRecord]
    BY IdleIsRecord DEF MigrationsInit
  <2>2. executions \in [Names -> Seq(Execution)]
    BY DEF MigrationsInit
  <2> QED BY <2>1, <2>2 DEF MigrationsTypeOK, MigrationsInit
<1>3. RecordsAreTrue
  BY DEF RecordsAreTrue, MigrationsInit
<1>4. \A r \in Runners : RunnerInv(r)
  BY <1>1 DEF Idle, RunnerInv, WorksInOrder, PlanIsTrue, RecordsWhatItApplied, HasExecuted,
              LeavesNothingOut, Applying
<1>5. SerialInv
  <2>1. \A r \in Runners : ~InProgress(r) /\ ~Applying(r)
    BY <1>1 DEF Idle, InProgress, Applying
  <2>2. \A m \in Names : executions[m] = <<>> /\ Len(executions[m]) <= 1
    BY DEF MigrationsInit
  <2> QED BY <2>1, <2>2 DEF SerialInv
<1> QED BY <1>2, <1>3, <1>4, <1>5 DEF MigrationsInv

\* The invariant is inductive: one lemma per action above.
LEMMA MigrationsNextInv ==
    ASSUME MigrationsAssumption, MigrationsInv, [MigrationsNext]_migrationVars
    PROVE  MigrationsInv'
<1>1. MigrationsTypeOK /\ RecordsAreTrue /\ SerialInv /\ \A r \in Runners : RunnerInv(r)
  BY DEF MigrationsInv
<1>2. ASSUME NEW r \in Runners, NEW i \in Invocations, run(r, i)
      PROVE  MigrationsInv'
  BY <1>1, <1>2, RunIsSound, RunIsSerial, StepKeepsInv
<1>3. ASSUME NEW r \in Runners, ensureTable(r)
      PROVE  MigrationsInv'
  BY <1>1, <1>3, EnsureTableIsSound, EnsureTableIsSerial, StepKeepsInv
<1>4. ASSUME NEW r \in Runners, buildPlan(r)
      PROVE  MigrationsInv'
  BY <1>1, <1>4, BuildPlanIsSound, BuildPlanIsSerial, StepKeepsInv
<1>5. ASSUME NEW r \in Runners, applied(r)
      PROVE  MigrationsInv'
  BY <1>1, <1>5, AppliedIsSound, EndsAreSerial, StepKeepsInv
<1>6. ASSUME NEW r \in Runners, Crash(r)
      PROVE  MigrationsInv'
  BY <1>1, <1>6, CrashIsSound, EndsAreSerial, StepKeepsInv
<1>7. ASSUME NEW r \in Runners, NEW m \in Names, skip(r, m)
      PROVE  MigrationsInv'
  BY <1>1, <1>7, SkipIsSound, SkipIsSerial, StepKeepsInv
<1>8. ASSUME NEW r \in Runners, NEW m \in Names, up(r, m)
      PROVE  MigrationsInv'
  <2>1. StepIsSound(r)
    BY <1>1, <1>8, ThrowIsSound DEF up
  <2> QED BY <1>1, <1>8, <2>1, EndsAreSerial, StepKeepsInv
<1>9. ASSUME NEW r \in Runners, NEW m \in Names, dryRun(r, m)
      PROVE  MigrationsInv'
  BY <1>1, <1>9, DryRunIsSound, SkipIsSerial, StepKeepsInv
<1>10. ASSUME NEW r \in Runners, NEW m \in Names, execute(r, m)
       PROVE  MigrationsInv'
  BY <1>1, <1>10, ExecuteIsSound, ExecuteIsSerial, StepKeepsInv
<1>11. ASSUME NEW r \in Runners, NEW m \in Names, recordApplied(r, m)
       PROVE  MigrationsInv'
  BY <1>1, <1>11, RecordAppliedIsSound, RecordAppliedIsSerial, StepKeepsInv
<1>14. ASSUME NEW r \in Runners, NEW m \in Names, DieExecuting(r, m)
       PROVE  MigrationsInv'
  BY <1>1, <1>14, DieExecutingIsSound, DieExecutingIsSerial, StepKeepsInv
<1>12. ASSUME NEW m \in Names, Release(m)
       PROVE  MigrationsInv'
  <2>1. MigrationsTypeOK'
    BY <1>1, <1>12 DEF MigrationsTypeOK, Release
  <2>2. RecordsAreTrue' /\ Grows
    BY <1>1, <1>12 DEF RecordsAreTrue, Grows, Release
  <2>3. \A r \in Runners : RunnerInv(r)'
    BY <1>1, <1>12, <2>2, OthersKeep DEF Release
  <2>4. SerialInv'
    BY <1>1, <1>12 DEF SerialInv, InProgress, Applying, IsPending, IsEntry, Release
  <2> QED BY <2>1, <2>2, <2>3, <2>4 DEF MigrationsInv
<1>13. ASSUME UNCHANGED migrationVars
       PROVE  MigrationsInv'
  <2>1. MigrationsTypeOK'
    BY <1>1, <1>13 DEF MigrationsTypeOK, migrationVars
  <2>2. RecordsAreTrue' /\ Grows
    BY <1>1, <1>13 DEF RecordsAreTrue, Grows, migrationVars
  <2>3. \A r \in Runners : RunnerInv(r)'
    BY <1>1, <1>13, <2>2, OthersKeep DEF migrationVars
  <2>4. SerialInv'
    BY <1>1, <1>13 DEF SerialInv, InProgress, Applying, IsPending, IsEntry, migrationVars
  <2> QED BY <2>1, <2>2, <2>3, <2>4 DEF MigrationsInv
<1> QED BY <1>2, <1>3, <1>4, <1>5, <1>6, <1>7, <1>8, <1>9, <1>10, <1>11, <1>12, <1>13, <1>14 DEF MigrationsNext

\* MysqlMigrationManager.apply(): however many processes run mysql:migrate, verify and
\* status against one database, whatever fails or crashes and however the release
\* changes meanwhile, the table tells the truth, a migration takes effect twice, wholly
\* or in part, only after a time that left no record or in an overlap, a report is true, nothing runs after a failure, and a
\* successful unforced command leaves its release recorded.
THEOREM MigrationsAreSoundHolds ==
    ASSUME MigrationsAssumption
    PROVE  MigrationsSpec => []MigrationsAreSound
<1>1. MigrationsInit => MigrationsInv
  BY MigrationsInitInv
<1>2. MigrationsInv /\ [MigrationsNext]_migrationVars => MigrationsInv'
  BY MigrationsNextInv
<1>3. MigrationsInv => MigrationsAreSound
  <2> SUFFICES ASSUME MigrationsInv
               PROVE  MigrationsAreSound
    OBVIOUS
  <2>1. MigrationsTypeOK /\ RecordsAreTrue /\ SerialInv /\ \A r \in Runners : RunnerInv(r)
    BY DEF MigrationsInv
  <2>2. OnceUnlessInterrupted
    <3> SUFFICES ASSUME NEW m \in Names, Len(executions[m]) > 1, m \notin unrecorded, ~overlap
                 PROVE  FALSE
      BY DEF OnceUnlessInterrupted
    <3>1. Len(executions[m]) <= 1
      BY <2>1 DEF SerialInv
    <3>2. Len(executions[m]) \in Nat
      BY <2>1 DEF MigrationsTypeOK
    <3> QED BY <3>1, <3>2
  <2>3. ReportIsTrue
    BY <2>1 DEF ReportIsTrue, RunnerInv, RecordsWhatItApplied
  <2>4. NothingAfterFailure
    BY <2>1 DEF NothingAfterFailure, RunnerInv, WorksInOrder
  <2>5. SuccessMeansInStep
    <3> SUFFICES ASSUME NEW r \in Runners, NEW m \in Names,
                        runner[r].exit = "success", runner[r].command = "migrate", ~runner[r].force,
                        ~runner[r].dryRun, runner[r].code[m] # Absent
                 PROVE  records[m] = runner[r].code[m]
      BY DEF SuccessMeansInStep
    <3>1. ~Applying(r)
      BY <2>1 DEF RunnerInv, WorksInOrder, Applying
    <3> QED BY <2>1, <3>1 DEF RunnerInv, LeavesNothingOut
  <2> QED BY <2>1, <2>2, <2>3, <2>4, <2>5 DEF MigrationsAreSound
<1> QED BY <1>1, <1>2, <1>3, PTL DEF MigrationsSpec


(***************************************************************************)
(* Database handles                                                        *)
(***************************************************************************)

HandleIds == Nat \cup {NoHandle}
CallerRecord ==
    [at : {"ready", "config", "statement", "settled"}, handle : HandleIds,
     result : {"none", "error", "result", "closed", "notOpen"}]

HandlesTypeOK ==
    /\ client \in {"mysql", "sqlite"}
    /\ registered \in HandleIds
    /\ handles \in Seq({"open", "closed"})
    /\ caller \in [Callers -> CallerRecord]

\* Every handle that anyone holds was created.
HandlesExist ==
    /\ registered # NoHandle => registered \in DOMAIN handles
    /\ \A c \in Callers : caller[c].handle # NoHandle => caller[c].handle \in DOMAIN handles
    /\ \A c \in Callers : caller[c].at = "config" => caller[c].handle = NoHandle

\* A pool is never closed; a database is only after it was taken out of the map.
ClosedWasReplaced ==
    \A h \in DOMAIN handles : handles[h] # "open" => client = "sqlite" /\ h \in replaced

\* The registered handle is open.
RegisteredIsOpen == registered # NoHandle => handles[registered] = "open"

\* While no pool is registered none was created.  Afterwards nobody sets out to
\* create one, so those who had are all that still may.
Creating == {c \in Callers : caller[c].at = "config"}
PoolsAreFirstUses ==
    client = "mysql" =>
      /\ registered = NoHandle => Len(handles) = 0
      /\ Len(handles) + Cardinality(Creating) <= Cardinality(Callers)

HandlesInv ==
    HandlesTypeOK /\ HandlesExist /\ ClosedWasReplaced /\ RegisteredIsOpen
    /\ OneOpenDatabase /\ PoolsAreFirstUses

-----------------------------------------------------------------------------
(* What a step does to the record of the caller that takes it.              *)

OnlyCaller(c) ==
    /\ caller' \in [Callers -> CallerRecord]
    /\ \A d \in Callers \ {c} : caller'[d] = caller[d]

\* The record of a caller that has not called yet.
LEMMA ReadyIsRecord == Ready \in CallerRecord /\ Ready.at = "ready" /\ Ready.handle = NoHandle
BY DEF Ready, CallerRecord, HandleIds

\* What a caller that goes on has: its place and its handle.
LEMMA GotoStep ==
    ASSUME HandlesTypeOK, NEW c \in Callers, NEW l \in {"config", "statement"}, NEW h \in HandleIds, Goto(c, l, h)
    PROVE  OnlyCaller(c) /\ caller'[c].at = l /\ caller'[c].handle = h
<1>1. PICK q \in CallerRecord : q = [Ready EXCEPT !.at = l, !.handle = h] /\ q.at = l /\ q.handle = h
  <2>1. PICK x \in CallerRecord : x = [Ready EXCEPT !.at = l] /\ x.at = l
    <3>1. [Ready EXCEPT !.at = l] \in CallerRecord /\ [Ready EXCEPT !.at = l].at = l
      BY ReadyIsRecord DEF CallerRecord
    <3> QED BY <3>1
  <2>2. PICK y \in CallerRecord : y = [x EXCEPT !.handle = h] /\ y.at = x.at /\ y.handle = h
    <3>1. /\ [x EXCEPT !.handle = h] \in CallerRecord
          /\ [x EXCEPT !.handle = h].at = x.at /\ [x EXCEPT !.handle = h].handle = h
      BY DEF CallerRecord
    <3> QED BY <3>1
  <2> QED BY <2>1, <2>2
<1>2. caller' = [caller EXCEPT ![c] = q]
  BY <1>1 DEF Goto
<1> QED BY <1>1, <1>2 DEF OnlyCaller, HandlesTypeOK

\* A caller that settles keeps the handle it was given.
LEMMA SettleStep ==
    ASSUME HandlesTypeOK, NEW c \in Callers, NEW v \in {"error", "result", "closed", "notOpen"}, Settle(c, v)
    PROVE  OnlyCaller(c) /\ caller'[c].at = "settled" /\ caller'[c].handle = caller[c].handle
<1>1. caller[c] \in CallerRecord
  BY DEF HandlesTypeOK
<1>2. PICK q \in CallerRecord : /\ q = [caller[c] EXCEPT !.at = "settled", !.result = v]
                                /\ q.at = "settled" /\ q.handle = caller[c].handle
  <2>1. PICK x \in CallerRecord : /\ x = [caller[c] EXCEPT !.at = "settled"]
                                  /\ x.at = "settled" /\ x.handle = caller[c].handle
    <3>1. LET x == [caller[c] EXCEPT !.at = "settled"]
          IN  x \in CallerRecord /\ x.at = "settled" /\ x.handle = caller[c].handle
      BY <1>1 DEF CallerRecord
    <3> QED BY <3>1
  <2>2. PICK y \in CallerRecord : y = [x EXCEPT !.result = v] /\ y.at = x.at /\ y.handle = x.handle
    <3>1. LET y == [x EXCEPT !.result = v]
          IN  y \in CallerRecord /\ y.at = x.at /\ y.handle = x.handle
      BY DEF CallerRecord
    <3> QED BY <3>1
  <2> QED BY <2>1, <2>2
<1>3. caller' = [caller EXCEPT ![c] = q]
  BY <1>2 DEF Settle, HandlesTypeOK
<1> QED BY <1>2, <1>3 DEF OnlyCaller, HandlesTypeOK

\* A caller that calls again forgets its handle.
LEMMA AgainStep ==
    ASSUME HandlesTypeOK, NEW c \in Callers, Again(c)
    PROVE  OnlyCaller(c) /\ caller'[c].at = "ready" /\ caller'[c].handle = NoHandle
BY ReadyIsRecord DEF Again, OnlyCaller, HandlesTypeOK

-----------------------------------------------------------------------------
(* Counting those who are about to create a pool.                           *)

\* No more callers create a pool than there are callers.
LEMMA CreatingIsFinite ==
    ASSUME HandlesAssumption
    PROVE  /\ IsFiniteSet(Creating) /\ Cardinality(Creating) \in Nat
           /\ Cardinality(Creating) <= Cardinality(Callers)
           /\ Cardinality(Callers) \in Nat
<1>1. Creating \subseteq Callers /\ IsFiniteSet(Callers)
  BY DEF Creating, HandlesAssumption
<1> QED BY <1>1, FS_Subset, FS_CardinalityType

\* Nobody joins them.
LEMMA CreatingShrinks ==
    ASSUME HandlesAssumption, NEW c \in Callers, OnlyCaller(c), caller'[c].at = "config" => caller[c].at = "config"
    PROVE  /\ Cardinality(Creating') \in Nat
           /\ Cardinality(Creating') <= Cardinality(Creating)
           /\ caller[c].at = "config" /\ caller'[c].at # "config"
                => Cardinality(Creating') = Cardinality(Creating) - 1
<1>1. Creating' \subseteq Creating
  BY DEF Creating, OnlyCaller
<1>2. Cardinality(Creating') \in Nat /\ Cardinality(Creating') <= Cardinality(Creating)
  BY <1>1, CreatingIsFinite, FS_Subset, FS_CardinalityType
<1>3. ASSUME caller[c].at = "config", caller'[c].at # "config"
      PROVE  Cardinality(Creating') = Cardinality(Creating) - 1
  <2>1. Creating' = Creating \ {c} /\ c \in Creating
    BY <1>3 DEF Creating, OnlyCaller
  <2> QED BY <2>1, CreatingIsFinite, FS_RemoveElement
<1> QED BY <1>2, <1>3

-----------------------------------------------------------------------------
(* One lemma per kind of step.                                              *)

\* A caller moves and the client stays as it is: it keeps the handle it had or is
\* given the registered one, and sets out to create a pool only where there is none.
LEMMA CallerMoves ==
    ASSUME HandlesAssumption, HandlesInv, NEW c \in Callers, OnlyCaller(c),
           UNCHANGED <<client, registered, handles, replaced>>,
           caller'[c].handle \in {NoHandle, registered, caller[c].handle},
           caller'[c].at = "config" => caller'[c].handle = NoHandle /\ (client = "mysql" => registered = NoHandle)
    PROVE  HandlesInv'
<1>1. HandlesTypeOK'
  BY DEF HandlesInv, HandlesTypeOK, OnlyCaller
<1>2. HandlesExist'
  BY DEF HandlesInv, HandlesExist, OnlyCaller
<1>3. ClosedWasReplaced' /\ RegisteredIsOpen'
  BY DEF HandlesInv, ClosedWasReplaced, RegisteredIsOpen
<1>4. OneOpenDatabase'
  BY DEF HandlesInv, OneOpenDatabase, Open
<1>5. PoolsAreFirstUses'
  <2> SUFFICES ASSUME client = "mysql"
               PROVE  /\ registered = NoHandle => Len(handles) = 0
                      /\ Len(handles) + Cardinality(Creating') <= Cardinality(Callers)
    BY DEF PoolsAreFirstUses
  <2>1. /\ registered = NoHandle => Len(handles) = 0
        /\ Len(handles) + Cardinality(Creating) <= Cardinality(Callers)
    BY DEF HandlesInv, PoolsAreFirstUses
  <2>2. Len(handles) \in Nat
    BY DEF HandlesInv, HandlesTypeOK
  <2>3. CASE registered = NoHandle
    <3>1. Creating' \subseteq Callers
      BY DEF Creating
    <3>2. Cardinality(Creating') \in Nat /\ Cardinality(Creating') <= Cardinality(Callers)
      BY <3>1, FS_Subset, FS_CardinalityType DEF HandlesAssumption
    <3> QED BY <2>1, <2>3, <3>2, CreatingIsFinite
  <2>4. CASE registered # NoHandle
    <3>1. Cardinality(Creating') \in Nat /\ Cardinality(Creating') <= Cardinality(Creating)
      BY <2>4, CreatingShrinks
    <3> QED BY <2>1, <2>2, <2>4, <3>1, CreatingIsFinite
  <2> QED BY <2>3, <2>4
<1> QED BY <1>1, <1>2, <1>3, <1>4, <1>5 DEF HandlesInv

\* createPool(): the caller is one of those who set out when there was none.
LEMMA CreatePoolKeeps ==
    ASSUME HandlesAssumption, HandlesInv, NEW c \in Callers, createPool(c)
    PROVE  HandlesInv'
<1>1. PICK h : h = Len(handles) + 1
  OBVIOUS
<1>2. /\ handles \in Seq({"open", "closed"}) /\ handles' = Append(handles, "open")
      /\ registered' = h /\ client = "mysql" /\ client' = client /\ caller[c].at = "config"
      /\ replaced \subseteq replaced'
  BY <1>1 DEF createPool, At, HandlesInv, HandlesTypeOK
<1>3. /\ h \in Nat /\ h \in HandleIds /\ h # NoHandle
      /\ handles' \in Seq({"open", "closed"}) /\ Len(handles') = h
      /\ handles'[h] = "open" /\ \A k \in DOMAIN handles : k \in DOMAIN handles' /\ handles'[k] = handles[k]
      /\ DOMAIN handles' = DOMAIN handles \cup {h}
  BY <1>1, <1>2 DEF HandleIds, HandlesAssumption
<1>4. Goto(c, "statement", h)
  BY <1>1 DEF createPool
<1>5. OnlyCaller(c) /\ caller'[c].at = "statement" /\ caller'[c].handle = h
  BY <1>3, <1>4, GotoStep DEF HandlesInv
<1>6. HandlesTypeOK'
  BY <1>2, <1>3, <1>5 DEF HandlesInv, HandlesTypeOK, OnlyCaller
<1>7. HandlesExist'
  BY <1>2, <1>3, <1>5 DEF HandlesInv, HandlesExist, OnlyCaller
<1>8. ClosedWasReplaced' /\ RegisteredIsOpen' /\ OneOpenDatabase'
  BY <1>2, <1>3 DEF HandlesInv, ClosedWasReplaced, RegisteredIsOpen, OneOpenDatabase
<1>9. PoolsAreFirstUses'
  <2>1. Cardinality(Creating') = Cardinality(Creating) - 1 /\ Cardinality(Creating) \in Nat
    BY <1>2, <1>5, CreatingShrinks, CreatingIsFinite
  <2>2. Len(handles) + Cardinality(Creating) <= Cardinality(Callers) /\ Len(handles) \in Nat
    BY <1>2 DEF HandlesInv, PoolsAreFirstUses
  <2>3. Len(handles') + Cardinality(Creating') <= Cardinality(Callers)
    BY <1>1, <1>3, <2>1, <2>2, CreatingIsFinite
  <2> QED BY <1>2, <1>3, <2>3 DEF PoolsAreFirstUses
<1> QED BY <1>6, <1>7, <1>8, <1>9 DEF HandlesInv

\* closePrevious(): what is left open is neither the database that was registered nor,
\* when no PRAGMA fails, any other.
LEMMA CloseLeaves ==
    ASSUME HandlesInv, client = "sqlite", NEW s, s = closePrevious
    PROVE  /\ s \in Seq({"open", "closed"}) /\ Len(s) = Len(handles) /\ DOMAIN s = DOMAIN handles
           /\ \A h \in DOMAIN s : s[h] # "open" => h \in replaced \cup ({registered} \ {NoHandle})
           /\ ~PragmaFails => \A h \in DOMAIN s : s[h] # "open"
<1>1. handles \in Seq({"open", "closed"})
  BY DEF HandlesInv, HandlesTypeOK
<1>2. ~PragmaFails => \A h \in DOMAIN handles : handles[h] = "open" => h = registered /\ registered # NoHandle
  BY DEF HandlesInv, OneOpenDatabase, Open
<1>3. \A h \in DOMAIN handles : handles[h] # "open" => h \in replaced
  BY DEF HandlesInv, ClosedWasReplaced
<1>4. CASE registered = NoHandle
  BY <1>1, <1>2, <1>3, <1>4 DEF closePrevious
<1>5. CASE registered # NoHandle
  <2>1. registered \in DOMAIN handles
    BY <1>5 DEF HandlesInv, HandlesExist
  <2>2. s = [handles EXCEPT ![registered] = "closed"]
    BY <1>5 DEF closePrevious
  <2>3. s \in Seq({"open", "closed"}) /\ Len(s) = Len(handles) /\ DOMAIN s = DOMAIN handles
    BY <1>1, <2>1, <2>2
  <2>4. s[registered] = "closed" /\ \A h \in DOMAIN handles \ {registered} : s[h] = handles[h]
    BY <1>1, <2>1, <2>2
  <2> QED BY <1>2, <1>3, <1>5, <2>1, <2>3, <2>4
<1> QED BY <1>4, <1>5

\* The previous database is closed and no other is registered.
LEMMA CloseKeeps ==
    ASSUME HandlesAssumption, HandlesInv, client = "sqlite", client' = client,
           handles' = closePrevious, registered' = NoHandle,
           replaced' = replaced \cup ({registered} \ {NoHandle}),
           NEW c \in Callers, OnlyCaller(c), caller'[c].at = "settled", caller'[c].handle = caller[c].handle
    PROVE  HandlesInv'
<1>1. /\ handles' \in Seq({"open", "closed"}) /\ DOMAIN handles' = DOMAIN handles
      /\ \A h \in DOMAIN handles' : handles'[h] # "open" => h \in replaced'
      /\ ~PragmaFails => \A h \in DOMAIN handles' : handles'[h] # "open"
  BY CloseLeaves
<1>2. HandlesTypeOK'
  BY <1>1 DEF HandlesInv, HandlesTypeOK, OnlyCaller, HandleIds
<1>3. HandlesExist'
  BY <1>1 DEF HandlesInv, HandlesExist, OnlyCaller
<1>4. ClosedWasReplaced' /\ RegisteredIsOpen' /\ PoolsAreFirstUses'
  BY <1>1 DEF ClosedWasReplaced, RegisteredIsOpen, PoolsAreFirstUses
<1>5. OneOpenDatabase'
  BY <1>1 DEF OneOpenDatabase, Open
<1> QED BY <1>2, <1>3, <1>4, <1>5 DEF HandlesInv

\* A database is opened after the previous one was closed: it is registered, or its
\* PRAGMA failed and it stays open without being registered.
LEMMA OpenKeeps ==
    ASSUME HandlesAssumption, HandlesInv, client = "sqlite", client' = client,
           NEW h, h = Len(handles) + 1, handles' = Append(closePrevious, "open"),
           registered' = h \/ (registered' = NoHandle /\ PragmaFails),
           replaced' = replaced \cup ({registered} \ {NoHandle}),
           NEW c \in Callers, OnlyCaller(c), caller'[c].at # "config",
           caller'[c].handle \in {h, caller[c].handle}
    PROVE  HandlesInv'
<1>1. PICK s : s = closePrevious
  OBVIOUS
<1>2. /\ s \in Seq({"open", "closed"}) /\ Len(s) = Len(handles) /\ DOMAIN s = DOMAIN handles
      /\ \A k \in DOMAIN s : s[k] # "open" => k \in replaced'
      /\ ~PragmaFails => \A k \in DOMAIN s : s[k] # "open"
  BY <1>1, CloseLeaves
<1>3. handles' = Append(s, "open") /\ h = Len(s) + 1
  BY <1>1, <1>2
<1>4. /\ handles' \in Seq({"open", "closed"}) /\ handles'[h] = "open"
      /\ DOMAIN handles' = DOMAIN handles \cup {h} /\ h \in Nat
      /\ \A k \in DOMAIN s : handles'[k] = s[k]
  <2>1. Len(s) \in Nat /\ DOMAIN s = 1..Len(s)
    BY <1>2
  <2>2. handles' \in Seq({"open", "closed"}) /\ Len(handles') = h /\ handles'[h] = "open"
    <3>1. /\ Append(s, "open") \in Seq({"open", "closed"})
          /\ Len(Append(s, "open")) = Len(s) + 1
          /\ Append(s, "open")[Len(s) + 1] = "open"
      BY <1>2, AppendProperties
    <3> QED BY <1>2, <1>3, <3>1
  <2>3. \A k \in DOMAIN s : handles'[k] = s[k]
    BY <1>2, <1>3, <2>1, AppendProperties
  <2>4. DOMAIN handles' = 1..h
    BY <2>2
  <2>5. 1..h = 1..Len(s) \cup {h} /\ h \in Nat
    BY <1>3, <2>1
  <2> QED BY <1>2, <2>1, <2>2, <2>3, <2>4, <2>5
<1>5. h # NoHandle /\ h \in HandleIds /\ registered' \in HandleIds
  BY <1>4 DEF HandlesAssumption, HandleIds
<1>6. HandlesTypeOK'
  BY <1>4, <1>5 DEF HandlesInv, HandlesTypeOK, OnlyCaller
<1>7. HandlesExist'
  BY <1>4 DEF HandlesInv, HandlesExist, OnlyCaller
<1>8. ClosedWasReplaced'
  BY <1>2, <1>4 DEF ClosedWasReplaced
<1>9. RegisteredIsOpen' /\ PoolsAreFirstUses'
  BY <1>4 DEF RegisteredIsOpen, PoolsAreFirstUses
<1>10. OneOpenDatabase'
  BY <1>2, <1>4, <1>5 DEF OneOpenDatabase, Open
<1> QED BY <1>6, <1>7, <1>8, <1>9, <1>10 DEF HandlesInv

-----------------------------------------------------------------------------
\* The invariant holds before the first call.
LEMMA HandlesInitInv ==
    ASSUME HandlesAssumption, HandlesInit
    PROVE  HandlesInv
<1>1. \A c \in Callers : caller[c] = Ready
  BY DEF HandlesInit
<1>2. HandlesTypeOK
  BY ReadyIsRecord DEF HandlesTypeOK, HandlesInit, HandleIds
<1>3. HandlesExist /\ ClosedWasReplaced /\ RegisteredIsOpen
  BY <1>1, ReadyIsRecord DEF HandlesExist, ClosedWasReplaced, RegisteredIsOpen, HandlesInit
<1>4. OneOpenDatabase
  BY DEF OneOpenDatabase, Open, HandlesInit
<1>5. PoolsAreFirstUses
  <2>1. Creating = {}
    BY <1>1, ReadyIsRecord DEF Creating
  <2>2. Cardinality(Creating) = 0
    BY <2>1, FS_EmptySet
  <2>3. Len(handles) = 0
    BY DEF HandlesInit
  <2> QED BY <2>2, <2>3, CreatingIsFinite DEF PoolsAreFirstUses
<1> QED BY <1>2, <1>3, <1>4, <1>5 DEF HandlesInv

\* The invariant is inductive: one lemma per action above.
LEMMA HandlesNextInv ==
    ASSUME HandlesAssumption, HandlesInv, [HandlesNext]_handleVars
    PROVE  HandlesInv'
<1>1. HandlesTypeOK /\ NoHandle \in HandleIds /\ registered \in HandleIds
  BY DEF HandlesInv, HandlesTypeOK, HandleIds
<1>2. ASSUME NEW c \in Callers, NEW force \in BOOLEAN, getPool(c, force)
      PROVE  HandlesInv'
  <2>1. CASE registered = NoHandle /\ ~force
    <3>1. Goto(c, "config", NoHandle)
      BY <1>2, <2>1 DEF getPool
    <3>2. OnlyCaller(c) /\ caller'[c].handle = NoHandle
      BY <1>1, <3>1, GotoStep
    <3> QED BY <1>2, <2>1, <3>2, CallerMoves DEF getPool
  <2>2. CASE ~(registered = NoHandle /\ ~force)
    <3>1. Goto(c, "statement", registered)
      BY <1>2, <2>2 DEF getPool
    <3>2. OnlyCaller(c) /\ caller'[c].handle = registered /\ caller'[c].at = "statement"
      BY <1>1, <3>1, GotoStep
    <3> QED BY <1>2, <3>2, CallerMoves DEF getPool
  <2> QED BY <2>1, <2>2
<1>3. ASSUME NEW c \in Callers, NEW force \in BOOLEAN, getDatabase(c, force)
      PROVE  HandlesInv'
  <2>1. CASE registered = NoHandle \/ force
    <3>1. Goto(c, "config", NoHandle)
      BY <1>3, <2>1 DEF getDatabase
    <3>2. OnlyCaller(c) /\ caller'[c].handle = NoHandle
      BY <1>1, <3>1, GotoStep
    <3> QED BY <1>3, <3>2, CallerMoves DEF getDatabase
  <2>2. CASE ~(registered = NoHandle \/ force)
    <3>1. Goto(c, "statement", registered)
      BY <1>3, <2>2 DEF getDatabase
    <3>2. OnlyCaller(c) /\ caller'[c].handle = registered /\ caller'[c].at = "statement"
      BY <1>1, <3>1, GotoStep
    <3> QED BY <1>3, <3>2, CallerMoves DEF getDatabase
  <2> QED BY <2>1, <2>2
<1>4. ASSUME NEW c \in Callers, configFails(c) \/ mysqlStatement(c) \/ sqliteStatement(c)
      PROVE  HandlesInv'
  <2>1. /\ \E v \in {"error", "result", "closed", "notOpen"} : Settle(c, v)
        /\ UNCHANGED <<client, registered, handles, replaced>>
    BY <1>4 DEF configFails, mysqlStatement, sqliteStatement
  <2>2. OnlyCaller(c) /\ caller'[c].at = "settled" /\ caller'[c].handle = caller[c].handle
    BY <1>1, <2>1, SettleStep
  <2> QED BY <2>1, <2>2, CallerMoves
<1>5. ASSUME NEW c \in Callers, Again(c)
      PROVE  HandlesInv'
  <2>1. OnlyCaller(c) /\ caller'[c].at = "ready" /\ caller'[c].handle = NoHandle
    BY <1>1, <1>5, AgainStep
  <2> QED BY <1>5, <2>1, CallerMoves DEF Again
<1>6. ASSUME NEW c \in Callers, createPool(c)
      PROVE  HandlesInv'
  BY <1>6, CreatePoolKeeps
<1>7. ASSUME NEW c \in Callers, openDatabase(c)
      PROVE  HandlesInv'
  <2>1. PICK h : h = Len(handles) + 1
    OBVIOUS
  <2>2. /\ client = "sqlite" /\ client' = client
        /\ replaced' = replaced \cup ({registered} \ {NoHandle})
    BY <1>7 DEF openDatabase
  <2>3. CASE handles' = closePrevious /\ registered' = NoHandle /\ Settle(c, "error")
    <3>1. OnlyCaller(c) /\ caller'[c].at = "settled" /\ caller'[c].handle = caller[c].handle
      BY <1>1, <2>3, SettleStep
    <3> QED BY <2>2, <2>3, <3>1, CloseKeeps
  <2>4. CASE /\ PragmaFails /\ handles' = Append(closePrevious, "open") /\ registered' = NoHandle
             /\ Settle(c, "error")
    <3>1. OnlyCaller(c) /\ caller'[c].at = "settled" /\ caller'[c].handle = caller[c].handle
      BY <1>1, <2>4, SettleStep
    <3> QED BY <2>1, <2>2, <2>4, <3>1, OpenKeeps
  <2>5. CASE handles' = Append(closePrevious, "open") /\ registered' = h /\ Goto(c, "statement", h)
    <3>1. h \in HandleIds
      BY <1>1, <2>1 DEF HandlesTypeOK, HandleIds
    <3>2. OnlyCaller(c) /\ caller'[c].at = "statement" /\ caller'[c].handle = h
      BY <1>1, <2>5, <3>1, GotoStep
    <3> QED BY <2>1, <2>2, <2>5, <3>2, OpenKeeps
  <2> QED BY <1>7, <2>1, <2>3, <2>4, <2>5 DEF openDatabase
<1>8. ASSUME NEW c \in Callers, close(c)
      PROVE  HandlesInv'
  <2>1. OnlyCaller(c) /\ caller'[c].at = "settled" /\ caller'[c].handle = caller[c].handle
    BY <1>1, <1>8, SettleStep DEF close
  <2> QED BY <1>8, <2>1, CloseKeeps DEF close
<1>9. ASSUME UNCHANGED handleVars
      PROVE  HandlesInv'
  <2>1. HandlesTypeOK' /\ HandlesExist' /\ ClosedWasReplaced' /\ RegisteredIsOpen'
    BY <1>9 DEF HandlesInv, HandlesTypeOK, HandlesExist, ClosedWasReplaced, RegisteredIsOpen, handleVars
  <2>2. OneOpenDatabase' /\ PoolsAreFirstUses'
    BY <1>9 DEF HandlesInv, OneOpenDatabase, Open, PoolsAreFirstUses, Creating, handleVars
  <2> QED BY <2>1, <2>2 DEF HandlesInv
<1> QED BY <1>2, <1>3, <1>4, <1>5, <1>6, <1>7, <1>8, <1>9 DEF HandlesNext

\* MysqlClient.getPool() and SqliteClient.getDatabase(): however many callers share a
\* client, one database is open at most (when no PRAGMA fails), a statement finds its
\* handle open unless it was replaced meanwhile, and racing first uses create no more
\* pools than there are callers.
THEOREM HandlesAreSoundHolds ==
    ASSUME HandlesAssumption
    PROVE  HandlesSpec => []HandlesAreSound
<1>1. HandlesInit => HandlesInv
  BY HandlesInitInv
<1>2. HandlesInv /\ [HandlesNext]_handleVars => HandlesInv'
  BY HandlesNextInv
<1>3. HandlesInv => HandlesAreSound
  <2> SUFFICES ASSUME HandlesInv
               PROVE  HandlesAreSound
    OBVIOUS
  <2>1. StatementsFindTheirHandle
    BY DEF HandlesInv, HandlesExist, ClosedWasReplaced, StatementsFindTheirHandle, Open, At
  <2>2. PoolsAreFew
    <3> SUFFICES ASSUME client = "mysql"
                 PROVE  Cardinality(Open) <= Cardinality(Callers)
      BY DEF PoolsAreFew
    <3>1. Len(handles) \in Nat /\ DOMAIN handles = 1..Len(handles)
      BY DEF HandlesInv, HandlesTypeOK
    <3>2. IsFiniteSet(1..Len(handles)) /\ Cardinality(1..Len(handles)) = Len(handles)
      <4>1. PICK n \in Nat : n = Len(handles)
        BY <3>1
      <4>2. /\ IsFiniteSet(1..n)
            /\ Cardinality(1..n) = IF 1 > n THEN 0 ELSE n - 1 + 1
        BY FS_Interval
      <4> QED BY <4>1, <4>2
    <3>3. Open \subseteq 1..Len(handles)
      BY <3>1 DEF Open
    <3>4. Cardinality(Open) \in Nat /\ Cardinality(Open) <= Len(handles)
      BY <3>2, <3>3, FS_Subset, FS_CardinalityType
    <3>5. Len(handles) + Cardinality(Creating) <= Cardinality(Callers)
      BY DEF HandlesInv, PoolsAreFirstUses
    <3> QED BY <3>1, <3>4, <3>5, CreatingIsFinite
  <2> QED BY <2>1, <2>2 DEF HandlesInv, HandlesAreSound
<1> QED BY <1>1, <1>2, <1>3, PTL DEF HandlesSpec

-----------------------------------------------------------------------------
\* An application that migrates its databases while callers share its clients keeps the
\* promises of both, for any processes, migrations and callers.
THEOREM DatabasesAreSoundHolds ==
    ASSUME MigrationsAssumption, HandlesAssumption
    PROVE  MigrationsSpec /\ HandlesSpec => []DatabasesAreSound
<1>1. MigrationsAreSound /\ HandlesAreSound => DatabasesAreSound
  BY DEF DatabasesAreSound
<1> QED BY <1>1, MigrationsAreSoundHolds, HandlesAreSoundHolds, PTL

(***************************************************************************)
(* ObservabilityStore                                                      *)
(***************************************************************************)

\* What a candidate for deletion is, what a sweep knows and where a process can be.
Candidates == [of : Processes, file : (Kinds \X (Generations \ {0})) \cup ({"traces"} \X Nat), size : Nat, mtime : Nat]
Sweeps == [survivors : SUBSET Processes, order : SUBSET (Processes \X Processes), total : Int, candidates : SUBSET Candidates]

Places == {"idle", "log", "trace", "sweep", "abandon", "trim", "register", "summary"}

StoreTypeOK ==
    /\ partitions \subseteq Processes /\ newer \subseteq Processes \X Processes
    /\ pid \subseteq Processes /\ alive \subseteq Processes /\ alone \subseteq Processes
    /\ files \in [Processes -> [Kinds -> [Generations -> Seq(Nat)]]]
    /\ traces \in [Processes -> SUBSET Nat] /\ retained \in [Processes -> SUBSET Nat]
    /\ readers \in BOOLEAN
    /\ pc \in [Processes -> Places] /\ after \in [Processes -> {"idle", "log", "trace", "register"}]
    /\ item \in [Processes -> Nat] /\ written \in Nat
    /\ ensured \in [Processes -> SUBSET Stores]
    /\ size \in [Processes -> [Kinds -> Nat \cup {Unset}]]
    /\ pendingBytes \in [Processes -> Nat]
    /\ sweep \in [Processes -> Sweeps]
    /\ tailer \in [of : Processes \cup {Unset}, offset : Nat] /\ emitted \in Nat

\* The process is between the trace and its summary / between the trace and its registration.
Unregistered(p) == pc[p] = "register" \/ (pc[p] \in SweepLabels /\ after[p] = "register")
Unsummarised(p) == pc[p] = "summary" \/ Unregistered(p)

\* The partition of a process that runs is claimed, and exists.
Claimed ==
    \A p \in Processes :
        /\ p \in alive /\ ensured[p] # {} => p \in pid /\ p \in partitions
        /\ pc[p] # "idle" => p \in alive /\ ensured[p] # {}

\* The lines of a file and of its generations are in the order they were written in.
InOrder(f) ==
    /\ \A g \in Generations : Increasing(f[g])
    /\ \A g, h \in Generations : g < h => \A i \in DOMAIN f[h], j \in DOMAIN f[g] : f[h][i] < f[g][j]
Below(f, n) == \A g \in Generations : \A i \in DOMAIN f[g] : f[g][i] < n

LinesInOrder ==
    \A p \in Processes :
        /\ \A k \in Kinds : InOrder(files[p][k]) /\ Below(files[p][k], written + 1)
        /\ Unsummarised(p) => Below(files[p]["requests"], item[p])

TailInv == TailFollowsInOrder /\ emitted <= written

\* The numbers a partition keeps are numbers that were given.
Numbered ==
    \A p \in Processes :
        /\ traces[p] = NoDirectory \/ traces[p] \subseteq 1..written
        /\ retained[p] = Unlisted \/ retained[p] \subseteq 1..written
        /\ Unsummarised(p) => item[p] \in 1..written

\* The files and the traces of a partition that keeps to its limits.
Registered(p) == IF Unregistered(p) THEN tracesOf(p) \ {item[p]} ELSE tracesOf(p)
FileBounded(p, k) ==
    /\ \A g \in Generations : Len(files[p][k][g]) <= MaxLogFileSize
    /\ size[p][k] # Unset => ensured[p] # {} /\ size[p][k] = Len(files[p][k][0])
TracesBounded(p) ==
    /\ retained[p] # Unlisted => Cardinality(retained[p]) <= MaxTraceFiles /\ Registered(p) \subseteq retained[p]
    /\ Cardinality(Registered(p)) <= MaxTraceFiles
FilesInv == ~readers => \A p \in alive, k \in Kinds : FileBounded(p, k)
TracesInv == ~readers => \A p \in alive : TracesBounded(p)

\* Which directory was modified after which is an order.
Ordered(R) ==
    /\ \A e \in R : e[1] # e[2]
    /\ \A p, q, r \in Processes : <<p, q>> \in R /\ <<q, r>> \in R => <<p, r>> \in R

OrderInv == Ordered(newer) /\ newer \subseteq partitions \X partitions /\ \A p \in Processes : Ordered(sweep[p].order)

\* What a sweep that nobody disturbed knows is still so.
AloneInv ==
    \A p \in alone :
        /\ pc[p] \in {"abandon", "trim"} => sweep[p].total = sizeOf(partitions)
        /\ pc[p] = "abandon" => sweep[p].survivors = partitions
        /\ pc[p] = "trim" =>
             /\ \A q \in partitions : isLive(p, q)
             /\ sweep[p].candidates = UNION {reclaimableFiles(q) : q \in partitions}

-----------------------------------------------------------------------------
(* Types.                                                                  *)

LEMMA StoreConstants ==
    /\ MaxLogFiles \in Nat \ {0} /\ MaxLogFileSize \in Nat \ {0} /\ MaxTraceFiles \in Nat \ {0}
    /\ MaxStoreSize \in Nat /\ Unset \notin Nat /\ Unset \notin Processes /\ IsFiniteSet(Processes)
    /\ 0 \in Generations /\ Generations \subseteq Nat
<1>1. {MaxLogFileSize, MaxLogFiles, MaxTraceFiles, RetainedInstances, SweepInterval} \subseteq Nat \ {0}
  BY StoreAssumption
<1>2. MaxLogFiles \in Nat \ {0} /\ MaxLogFileSize \in Nat \ {0} /\ MaxTraceFiles \in Nat \ {0}
  BY <1>1
<1>3. 0 \in Generations /\ Generations \subseteq Nat
  BY <1>2 DEF Generations
<1> QED BY <1>2, <1>3, StoreAssumption

\* Generations of one file.
FileType == [Generations -> Seq(Nat)]

LEMMA NoFilesType ==
    /\ NoFiles \in [Kinds -> FileType] /\ NoSweep \in Sweeps
    /\ \A k \in Kinds, g \in Generations : NoFiles[k][g] = <<>>
  BY DEF NoFiles, Missing, FileType, NoSweep, Sweeps

LEMMA RotateType ==
    ASSUME NEW f \in FileType, NEW F PROVE rotate(f, F) \in FileType
<1> SUFFICES ASSUME NEW g \in Generations
             PROVE  (IF g > 0 /\ g - 1 \notin F /\ f[g - 1] # Missing THEN f[g - 1]
                     ELSE IF g \in F THEN f[g] ELSE Missing) \in Seq(Nat)
  BY DEF rotate, FileType
<1>1. f[g] \in Seq(Nat) /\ Missing \in Seq(Nat)
  BY DEF FileType, Missing
<1>2. ASSUME g > 0 PROVE f[g - 1] \in Seq(Nat)
  <2>1. g - 1 \in Generations
    BY <1>2, StoreConstants DEF Generations
  <2> QED BY <2>1 DEF FileType
<1> QED BY <1>1, <1>2

\* What append() makes of the generations of a file, and what it does to the rest.
Appended(now, n) == [now EXCEPT ![0] = Append(now[0], n)]
Known(p, k) == IF size[p][k] = Unset THEN Len(files[p][k][0]) ELSE size[p][k]
Full(p, k) == Known(p, k) > 0 /\ Known(p, k) + 1 > MaxLogFileSize

LEMMA KnownType ==
    ASSUME StoreTypeOK, NEW p \in Processes, NEW k \in Kinds
    PROVE  /\ files[p] \in [Kinds -> FileType] /\ files[p][k] \in FileType /\ files[p][k][0] \in Seq(Nat)
           /\ Known(p, k) \in Nat /\ size[p] \in [Kinds -> Nat \cup {Unset}]
<1>1. files[p] \in [Kinds -> FileType] /\ files[p][k] \in FileType /\ size[p] \in [Kinds -> Nat \cup {Unset}]
  BY DEF StoreTypeOK, FileType
<1>2. files[p][k][0] \in Seq(Nat)
  BY <1>1, StoreConstants DEF FileType
<1>3. size[p][k] \in Nat \cup {Unset}
  BY <1>1
<1> QED BY <1>1, <1>2, <1>3 DEF Known

\* append() to a partition that exists: the generations it leaves are those it found or
\* those of a rotation, with the line at the end of the live file.
AppendedWith(p, kind, n, F, now) ==
    /\ F \in SUBSET Generations /\ ((Full(p, kind) /\ readers) \/ F = {})
    /\ now = IF Full(p, kind) THEN rotate(files[p][kind], F) ELSE files[p][kind]
    /\ now \in FileType /\ Appended(now, n) \in FileType
    /\ files' = [files EXCEPT ![p] = [files[p] EXCEPT ![kind] = Appended(now, n)]]
    /\ size' = [size EXCEPT ![p] = [size[p] EXCEPT ![kind] = (IF Full(p, kind) THEN 0 ELSE Known(p, kind)) + 1]]
    /\ newer' = Touched({p}) \/ newer' = newer
    /\ recordBytes(p, Full(p, kind), "idle") /\ Disturb(p)

LEMMA AppendLineFacts ==
    ASSUME StoreTypeOK, NEW p \in Processes, NEW kind \in Kinds, NEW n \in Nat, AppendLine(p, kind, n), Exists(p)
    PROVE  \E F, now : AppendedWith(p, kind, n, F, now)
<1>1. PICK file : file = files[p][kind]
  OBVIOUS
<1>2. PICK F \in IF Full(p, kind) /\ readers THEN SUBSET Generations ELSE {{}} :
        LET now == IF Full(p, kind) THEN rotate(file, F) ELSE file IN
        /\ files' = [files EXCEPT ![p][kind] = [now EXCEPT ![0] = Append(@, n)]]
        /\ size' = [size EXCEPT ![p][kind] = (IF Full(p, kind) THEN 0 ELSE Known(p, kind)) + 1]
        /\ newer' = IF Full(p, kind) \/ now[0] = Missing THEN Touched({p}) ELSE newer
        /\ recordBytes(p, Full(p, kind), "idle") /\ Disturb(p)
  BY <1>1 DEF AppendLine, Full, Known
<1>3. PICK now : now = IF Full(p, kind) THEN rotate(file, F) ELSE file
  OBVIOUS
<1>4. F \in SUBSET Generations /\ ((Full(p, kind) /\ readers) \/ F = {})
  <2>1. CASE Full(p, kind) /\ readers
    BY <2>1
  <2>2. CASE ~(Full(p, kind) /\ readers)
    BY <2>2
  <2> QED BY <2>1, <2>2
<1>5. now \in FileType
  BY <1>1, <1>3, KnownType, RotateType
<1>6. Append(now[0], n) \in Seq(Nat)
  BY <1>5, StoreConstants DEF FileType
<1>7. Appended(now, n) \in FileType
  BY <1>5, <1>6 DEF Appended, FileType
<1>8. files' = [files EXCEPT ![p] = [files[p] EXCEPT ![kind] = Appended(now, n)]]
  BY <1>2, <1>3 DEF Appended
<1>9. size' = [size EXCEPT ![p] = [size[p] EXCEPT ![kind] = (IF Full(p, kind) THEN 0 ELSE Known(p, kind)) + 1]]
  BY <1>2
<1>10. newer' = Touched({p}) \/ newer' = newer
  BY <1>2, <1>3
<1> QED BY <1>1, <1>2, <1>3, <1>4, <1>5, <1>7, <1>8, <1>9, <1>10 DEF AppendedWith

LEMMA TouchedType ==
    ASSUME StoreTypeOK, NEW T \in SUBSET Processes PROVE Touched(T) \subseteq Processes \X Processes
  BY DEF StoreTypeOK, Touched

LEMMA RecordBytesType ==
    ASSUME StoreTypeOK, NEW p \in Processes, NEW rotated, NEW next \in {"idle", "register"}, recordBytes(p, rotated, next)
    PROVE  /\ pendingBytes' \in [Processes -> Nat] /\ pc' \in [Processes -> Places]
           /\ after' \in [Processes -> {"idle", "log", "trace", "register"}]
           /\ \/ pc' = [pc EXCEPT ![p] = "sweep"] /\ after' = [after EXCEPT ![p] = next]
              \/ pc' = [pc EXCEPT ![p] = next] /\ after' = after
<1>1. pendingBytes' \in [Processes -> Nat]
  BY DEF StoreTypeOK, recordBytes
<1>2. \/ pc' = [pc EXCEPT ![p] = "sweep"] /\ after' = [after EXCEPT ![p] = next]
      \/ pc' = [pc EXCEPT ![p] = next] /\ after' = after
  BY DEF recordBytes, GoesTo
<1> QED BY <1>1, <1>2 DEF StoreTypeOK, Places

LEMMA AppendLineType ==
    ASSUME StoreTypeOK, NEW p \in Processes, NEW kind \in Kinds, NEW n \in Nat, AppendLine(p, kind, n), written' \in Nat
    PROVE  StoreTypeOK'
<1>1. /\ partitions' = partitions /\ pid' = pid /\ traces' = traces /\ readers' = readers /\ alive' = alive
      /\ ensured' = ensured /\ retained' = retained /\ sweep' = sweep /\ tailer' = tailer /\ emitted' = emitted
      /\ item' \in [Processes -> Nat]
  BY DEF AppendLine, StoreTypeOK, tailVars
<1>2. CASE Exists(p)
  <2>1. PICK F, now : AppendedWith(p, kind, n, F, now)
    BY <1>2, AppendLineFacts
  <2>2. PICK new \in FileType : files' = [files EXCEPT ![p] = [files[p] EXCEPT ![kind] = new]]
    BY <2>1 DEF AppendedWith
  <2>0. (IF Full(p, kind) THEN 0 ELSE Known(p, kind)) + 1 \in Nat
    BY KnownType
  <2>3. PICK s \in Nat : size' = [size EXCEPT ![p] = [size[p] EXCEPT ![kind] = s]]
    BY <2>0, <2>1 DEF AppendedWith
  <2>4. files' \in [Processes -> [Kinds -> FileType]]
    BY <2>2, KnownType DEF StoreTypeOK, FileType
  <2>5. size' \in [Processes -> [Kinds -> Nat \cup {Unset}]]
    BY <2>3, KnownType DEF StoreTypeOK
  <2>6. newer' \subseteq Processes \X Processes /\ alone' \subseteq Processes
    BY <2>1, TouchedType DEF StoreTypeOK, Disturb, AppendedWith
  <2>7. /\ pendingBytes' \in [Processes -> Nat] /\ pc' \in [Processes -> Places]
        /\ after' \in [Processes -> {"idle", "log", "trace", "register"}]
    BY <2>1, RecordBytesType DEF AppendedWith
  <2> QED BY <1>1, <2>4, <2>5, <2>6, <2>7 DEF StoreTypeOK, FileType
<1>3. CASE ~Exists(p)
  <2>1. /\ size' = [size EXCEPT ![p][kind] = IF Full(p, kind) THEN 0 ELSE Known(p, kind)]
        /\ pc' = [pc EXCEPT ![p] = "idle"]
        /\ UNCHANGED <<files, newer, pendingBytes, after, alone>>
    BY <1>3 DEF AppendLine, GoesTo, Full, Known
  <2>0. size' = [size EXCEPT ![p] = [size[p] EXCEPT ![kind] = IF Full(p, kind) THEN 0 ELSE Known(p, kind)]]
    BY <2>1
  <2>2. PICK s \in Nat : size' = [size EXCEPT ![p] = [size[p] EXCEPT ![kind] = s]]
    BY <2>0, KnownType
  <2>3. size' \in [Processes -> [Kinds -> Nat \cup {Unset}]]
    BY <2>2, KnownType DEF StoreTypeOK
  <2> QED BY <1>1, <2>1, <2>3 DEF StoreTypeOK, Places
<1> QED BY <1>2, <1>3

LEMMA RemoveType ==
    ASSUME StoreTypeOK, NEW Q \in SUBSET Processes, remove(Q)
    PROVE  /\ partitions' \subseteq Processes /\ newer' \subseteq Processes \X Processes /\ pid' \subseteq Processes
           /\ files' \in [Processes -> [Kinds -> [Generations -> Seq(Nat)]]] /\ traces' \in [Processes -> SUBSET Nat]
<1>1. NoFiles \in [Kinds -> [Generations -> Seq(Nat)]] /\ NoDirectory \in SUBSET Nat
  BY NoFilesType DEF FileType, NoDirectory
<1> QED BY <1>1 DEF remove, StoreTypeOK

LEMMA FinishType ==
    ASSUME StoreTypeOK, NEW p \in Processes, Finish(p)
    PROVE  /\ pc' \in [Processes -> Places] /\ after' \in [Processes -> {"idle", "log", "trace", "register"}]
           /\ sweep' \in [Processes -> Sweeps]
  BY NoFilesType DEF Finish, GoesTo, StoreTypeOK, Places

LEMMA ReclaimableType ==
    ASSUME StoreTypeOK, NEW q \in Processes PROVE reclaimableFiles(q) \subseteq Candidates
<1>1. ASSUME NEW f \in Rotated(q)
      PROVE  [of |-> q, file |-> f, size |-> Len(files[q][f[1]][f[2]]),
              mtime |-> files[q][f[1]][f[2]][Len(files[q][f[1]][f[2]])]] \in Candidates
  <2>1. f \in Kinds \X (Generations \ {0}) /\ files[q][f[1]][f[2]] # <<>>
    BY <1>1 DEF Rotated, Missing
  <2>2. PICK file : file = files[q][f[1]][f[2]]
    OBVIOUS
  <2>3. file \in Seq(Nat) /\ file # <<>>
    BY <2>1, <2>2 DEF StoreTypeOK
  <2>4. Len(file) \in Nat /\ file[Len(file)] \in Nat
    BY <2>3
  <2> QED BY <2>1, <2>2, <2>4 DEF Candidates
<1>2. ASSUME NEW n \in tracesOf(q)
      PROVE  [of |-> q, file |-> <<"traces", n>>, size |-> 1, mtime |-> n] \in Candidates
  <2>1. n \in Nat
    BY <1>2 DEF tracesOf, StoreTypeOK
  <2> QED BY <2>1 DEF Candidates
<1> QED BY <1>1, <1>2 DEF reclaimableFiles

-----------------------------------------------------------------------------
(* Every step preserves the types.                                         *)

LEMMA StoreTypeInit == Init => StoreTypeOK
  BY NoFilesType DEF Init, StoreTypeOK, FileType, Places, NoDirectory, Unlisted

LEMMA EnsureType ==
    ASSUME StoreTypeOK, NEW p \in Processes, NEW store \in Stores, ensurePartitionDirectory(p, store)
    PROVE  StoreTypeOK'
<1>1. newer' \subseteq Processes \X Processes /\ partitions' \subseteq Processes /\ pid' \subseteq Processes /\ alone' \subseteq Processes
  BY TouchedType DEF ensurePartitionDirectory, StoreTypeOK, claim, Disturb
<1>2. traces' \in [Processes -> SUBSET Nat] /\ ensured' \in [Processes -> SUBSET Stores]
  BY DEF ensurePartitionDirectory, StoreTypeOK
<1>3. pc' \in [Processes -> Places] /\ after' \in [Processes -> {"idle", "log", "trace", "register"}]
  BY DEF ensurePartitionDirectory, StoreTypeOK, GoesTo, Places, Stores
<1> QED BY <1>1, <1>2, <1>3 DEF ensurePartitionDirectory, StoreTypeOK, tailVars

LEMMA AppendTraceType ==
    ASSUME StoreTypeOK, NEW p \in Processes, appendTrace(p) PROVE StoreTypeOK'
<1>1. written' \in Nat /\ item' \in [Processes -> Nat]
  BY DEF appendTrace, StoreTypeOK
<1>2. CASE traces[p] # NoDirectory
  <2>1. traces' = [traces EXCEPT ![p] = @ \cup {written + 1}] /\ recordBytes(p, FALSE, "register") /\ Disturb(p)
    BY <1>2 DEF appendTrace
  <2>2. traces' \in [Processes -> SUBSET Nat] /\ alone' \subseteq Processes
    BY <2>1 DEF StoreTypeOK, Disturb
  <2>3. /\ pendingBytes' \in [Processes -> Nat] /\ pc' \in [Processes -> Places]
        /\ after' \in [Processes -> {"idle", "log", "trace", "register"}]
    BY <2>1, RecordBytesType
  <2> QED BY <1>1, <2>2, <2>3 DEF appendTrace, StoreTypeOK, tailVars
<1>3. CASE traces[p] = NoDirectory
  BY <1>1, <1>3 DEF appendTrace, StoreTypeOK, tailVars, GoesTo, Places
<1> QED BY <1>2, <1>3

LEMMA RegisterType ==
    ASSUME StoreTypeOK, NEW p \in Processes, register(p) PROVE StoreTypeOK'
<1>1. PICK all, stale : /\ all = Listing(p) \cup {item[p]} /\ retained' = [retained EXCEPT ![p] = all \ stale]
                        /\ \E kept : traces' = IF traces[p] = NoDirectory THEN traces
                                        ELSE [traces EXCEPT ![p] = @ \ (stale \ kept)]
  BY DEF register
<1>2. all \subseteq Nat
  BY <1>1 DEF Listing, tracesOf, StoreTypeOK
<1>3. retained' \in [Processes -> SUBSET Nat] /\ traces' \in [Processes -> SUBSET Nat]
  BY <1>1, <1>2 DEF StoreTypeOK
<1>4. pc' \in [Processes -> Places] /\ alone' \subseteq Processes
  BY DEF register, GoesTo, Disturb, StoreTypeOK, Places
<1> QED BY <1>3, <1>4 DEF register, StoreTypeOK, tailVars

\* The parts of a sweep, with names.
Expired(p, spared) == {q \in partitions : newestFirst(q) >= spared /\ ~isLive(p, q)}
Abandoned(p) == {q \in sweep[p].survivors : ~isLive(p, q)}
Older(p, q) == {r \in Abandoned(p) : <<q, r>> \in sweep[p].order}
GoneOf(p) == {q \in Abandoned(p) : sweep[p].total - sizeOf(Older(p, q)) > MaxStoreSize}
Files(Q) == UNION {reclaimableFiles(q) : q \in Q}
Earlier(free, c) == {d \in free : Before(d, c)}
TrimmedOf(p, free) == {c \in free : sweep[p].total - Freed(Earlier(free, c)) > MaxStoreSize}

LEMMA ExpiredFacts ==
    ASSUME StoreTypeOK, NEW p \in Processes, dropExpiredPartitions(p)
    PROVE  \E spared \in 0..RetainedInstances :
             LET expired == Expired(p, spared)
                 total == sizeOf(partitions \ expired) IN
             /\ remove(expired)
             /\ \/ /\ MaxStoreSize = 0 \/ total <= MaxStoreSize
                   /\ Finish(p) /\ alone' = IF expired = {} THEN alone ELSE {}
                \/ /\ ~(MaxStoreSize = 0 \/ total <= MaxStoreSize)
                   /\ sweep' = [sweep EXCEPT ![p] = [survivors |-> partitions \ expired, order |-> newer',
                                                     total |-> total, candidates |-> {}]]
                   /\ pc' = [pc EXCEPT ![p] = "abandon"]
                   /\ alone' = IF expired = {} THEN alone \cup {p} ELSE {p}
                   /\ after' = after
  BY DEF dropExpiredPartitions, Expired, NoSweep, GoesTo

LEMMA AbandonedFacts ==
    ASSUME StoreTypeOK, NEW p \in Processes, dropAbandonedPartitions(p)
    PROVE  LET total == sweep[p].total - sizeOf(GoneOf(p)) IN
           /\ remove(GoneOf(p))
           /\ \/ total <= MaxStoreSize /\ Finish(p) /\ alone' = {}
              \/ /\ ~(total <= MaxStoreSize)
                 /\ sweep' = [sweep EXCEPT ![p] = [survivors |-> {}, order |-> {}, total |-> total,
                                                   candidates |-> Files(sweep[p].survivors \ GoneOf(p))]]
                 /\ pc' = [pc EXCEPT ![p] = "trim"] /\ Disturb(p) /\ after' = after
  BY DEF dropAbandonedPartitions, Abandoned, Older, GoneOf, Files, NoSweep, GoesTo

DeletesOf(p, gone) ==
    /\ traces' = [q \in Processes |-> IF traces[q] = NoDirectory THEN NoDirectory
                    ELSE {n \in traces[q] : ~\E c \in gone : c.of = q /\ c.file = <<"traces", n>>}]
    /\ files' = [q \in Processes |-> [k \in Kinds |-> [g \in Generations |->
                    IF \E c \in gone : c.of = q /\ c.file = <<k, g>> THEN Missing ELSE files[q][k][g]]]]
    /\ newer' = Touched({q \in partitions : files'[q] # files[q]})
    /\ retained' = IF \E c \in gone : c.of = p THEN [retained EXCEPT ![p] = Unlisted] ELSE retained

LEMMA TrimFacts ==
    ASSUME StoreTypeOK, NEW p \in Processes, trimFiles(p)
    PROVE  \E gone : /\ DeletesOf(p, gone) /\ gone \subseteq sweep[p].candidates
                     /\ ~readers => gone = TrimmedOf(p, sweep[p].candidates)
<1>1. PICK held \in IF readers THEN SUBSET sweep[p].candidates ELSE {{}} : DeletesOf(p, TrimmedOf(p, sweep[p].candidates \ held))
  BY DEF trimFiles, TrimmedOf, Earlier, DeletesOf
<1>2. ~readers => sweep[p].candidates \ held = sweep[p].candidates
  BY <1>1
<1>3. TrimmedOf(p, sweep[p].candidates \ held) \subseteq sweep[p].candidates
  BY DEF TrimmedOf
<1> QED BY <1>1, <1>2, <1>3

\* The image of a finite set under a function.
LEMMA ImageIsFinite ==
    ASSUME NEW S, IsFiniteSet(S), NEW f, f = [x \in S |-> f[x]] PROVE IsFiniteSet({f[x] : x \in S})
<1> DEFINE T == {f[x] : x \in S}
<1>1. f \in [S -> T] /\ \A t \in T : \E x \in S : f[x] = t
  OBVIOUS
<1>2. f \in Surjection(S, T)
  BY <1>1 DEF Surjection
<1> QED BY <1>2, FS_Surjection

\* What partitions hold is finite, so that it has a size.
LEMMA EntriesAreFinite ==
    ASSUME StoreTypeOK, Numbered, NEW q \in Processes PROVE IsFiniteSet(EntriesOf(q))
<1>1. IsFiniteSet(tracesOf(q))
  <2>1. tracesOf(q) \subseteq 1..written /\ written \in Nat
    BY DEF tracesOf, Numbered, StoreTypeOK
  <2>2. IsFiniteSet(1..written)
    BY <2>1, FS_Interval
  <2> QED BY <2>1, <2>2, FS_Subset
<1>2. IsFiniteSet({<<q, "traces", n, 1>> : n \in tracesOf(q)})
  <2> DEFINE EntryAt == [n \in tracesOf(q) |-> <<q, "traces", n, 1>>]
  <2>1. IsFiniteSet({EntryAt[n] : n \in tracesOf(q)})
    BY <1>1, ImageIsFinite
  <2>2. {EntryAt[n] : n \in tracesOf(q)} = {<<q, "traces", n, 1>> : n \in tracesOf(q)}
    OBVIOUS
  <2> QED BY <2>1, <2>2
<1>3. ASSUME NEW f \in Kinds \X Generations
      PROVE  IsFiniteSet({<<q, f[1], f[2], i>> : i \in DOMAIN files[q][f[1]][f[2]]})
  <2> DEFINE D == DOMAIN files[q][f[1]][f[2]]
             EntryAt == [i \in D |-> <<q, f[1], f[2], i>>]
  <2>1. files[q][f[1]][f[2]] \in Seq(Nat)
    BY DEF StoreTypeOK
  <2>2. IsFiniteSet(D)
    BY <2>1, FS_Interval
  <2> HIDE DEF D
  <2>3. IsFiniteSet({EntryAt[i] : i \in D})
    BY <2>2, ImageIsFinite
  <2>4. {EntryAt[i] : i \in D} = {<<q, f[1], f[2], i>> : i \in D}
    OBVIOUS
  <2> QED BY <2>3, <2>4 DEF D
<1>4. IsFiniteSet(Kinds \X Generations)
  <2>1. IsFiniteSet(Generations)
    BY StoreConstants, FS_Interval DEF Generations
  <2>2. Kinds = {"logs"} \cup {"requests"}
    BY DEF Kinds
  <2>3. IsFiniteSet(Kinds)
    BY <2>2, FS_Singleton, FS_AddElement
  <2> QED BY <2>1, <2>3, FS_Product
<1>5. IsFiniteSet({{<<q, f[1], f[2], i>> : i \in DOMAIN files[q][f[1]][f[2]]} : f \in Kinds \X Generations})
  <2> DEFINE S == Kinds \X Generations
             Of == [f \in S |-> {<<q, f[1], f[2], i>> : i \in DOMAIN files[q][f[1]][f[2]]}]
  <2> HIDE DEF S
  <2>1. IsFiniteSet({Of[f] : f \in S})
    <3>1. IsFiniteSet(S)
      BY <1>4 DEF S
    <3> QED BY <3>1, ImageIsFinite
  <2>2. {Of[f] : f \in S} = {{<<q, f[1], f[2], i>> : i \in DOMAIN files[q][f[1]][f[2]]} : f \in S}
    OBVIOUS
  <2> QED BY <2>1, <2>2 DEF S
<1>6. IsFiniteSet(UNION {{<<q, f[1], f[2], i>> : i \in DOMAIN files[q][f[1]][f[2]]} : f \in Kinds \X Generations})
  BY ZenonT(40), <1>3, <1>5, FS_UNION
<1> QED BY <1>2, <1>6, FS_Union DEF EntriesOf

Held(Q) == UNION {EntriesOf(q) : q \in Q}

LEMMA SizeIsNatural ==
    ASSUME StoreTypeOK, Numbered, NEW Q \in SUBSET Processes
    PROVE  IsFiniteSet(Held(Q)) /\ sizeOf(Q) = Cardinality(Held(Q)) /\ sizeOf(Q) \in Nat
<1>1. IsFiniteSet(Q)
  BY StoreConstants, FS_Subset
<1>2. IsFiniteSet({EntriesOf(q) : q \in Q})
  <2> DEFINE Of == [q \in Q |-> EntriesOf(q)]
  <2>1. IsFiniteSet({Of[q] : q \in Q})
    BY <1>1, ImageIsFinite
  <2>2. {Of[q] : q \in Q} = {EntriesOf(q) : q \in Q}
    OBVIOUS
  <2> QED BY <2>1, <2>2
<1>3. IsFiniteSet(UNION {EntriesOf(q) : q \in Q})
  BY <1>2, EntriesAreFinite, FS_UNION
<1>4. IsFiniteSet(Held(Q)) /\ sizeOf(Q) = Cardinality(Held(Q))
  BY <1>3 DEF Held, sizeOf
<1> QED BY <1>4, FS_CardinalityType

LEMMA SweepType ==
    ASSUME StoreTypeOK, Numbered, NEW p \in Processes, Enforce(p) PROVE StoreTypeOK'
<1>0. sweep[p] \in Sweeps /\ sweep[p].survivors \subseteq Processes /\ sweep[p].total \in Int
  BY DEF StoreTypeOK, Sweeps
<1>a. /\ readers' = readers /\ alive' = alive /\ item' = item /\ written' = written /\ ensured' = ensured
      /\ size' = size /\ tailer' = tailer /\ emitted' = emitted
  BY DEF Enforce, dropExpiredPartitions, dropAbandonedPartitions, trimFiles, SweepStep, tailVars
<1>1. CASE dropExpiredPartitions(p)
  <2>1. PICK expired :
          /\ expired \subseteq partitions /\ remove(expired)
          /\ \/ Finish(p) /\ alone' = IF expired = {} THEN alone ELSE {}
             \/ /\ sweep' = [sweep EXCEPT ![p] = [survivors |-> partitions \ expired, order |-> newer',
                                                  total |-> sizeOf(partitions \ expired), candidates |-> {}]]
                /\ pc' = [pc EXCEPT ![p] = "abandon"] /\ alone' \subseteq alone \cup {p} /\ after' = after
    BY <1>1, ExpiredFacts DEF Expired
  <2>2. expired \in SUBSET Processes /\ partitions \ expired \in SUBSET Processes
    BY <2>1 DEF StoreTypeOK
  <2>3. /\ partitions' \subseteq Processes /\ newer' \subseteq Processes \X Processes /\ pid' \subseteq Processes
        /\ files' \in [Processes -> [Kinds -> [Generations -> Seq(Nat)]]] /\ traces' \in [Processes -> SUBSET Nat]
    BY <2>1, <2>2, RemoveType
  <2>4. [survivors |-> partitions \ expired, order |-> newer',
         total |-> sizeOf(partitions \ expired), candidates |-> {}] \in Sweeps
    BY <2>2, <2>3, SizeIsNatural DEF Sweeps
  <2>5. /\ pc' \in [Processes -> Places] /\ after' \in [Processes -> {"idle", "log", "trace", "register"}]
        /\ sweep' \in [Processes -> Sweeps]
    <3>1. CASE Finish(p)
      BY <3>1, FinishType
    <3>2. CASE ~Finish(p)
      <4>1. PICK label \in Places, s \in Sweeps : sweep' = [sweep EXCEPT ![p] = s] /\ pc' = [pc EXCEPT ![p] = label] /\ after' = after
        BY <2>1, <2>4, <3>2 DEF Places
      <4> QED BY <4>1 DEF StoreTypeOK
    <3> QED BY <3>1, <3>2
  <2>6. alone' \subseteq Processes
    BY <2>1 DEF StoreTypeOK
  <2>7. retained' = retained /\ pendingBytes' \in [Processes -> Nat]
    BY <1>1 DEF dropExpiredPartitions, StoreTypeOK
  <2> QED BY <1>a, <2>3, <2>5, <2>6, <2>7 DEF StoreTypeOK
<1>2. CASE dropAbandonedPartitions(p)
  <2>1. PICK gone, total :
          /\ gone = GoneOf(p) /\ remove(gone) /\ total = sweep[p].total - sizeOf(gone)
          /\ \/ Finish(p) /\ alone' = {}
             \/ /\ sweep' = [sweep EXCEPT ![p] = [survivors |-> {}, order |-> {}, total |-> total,
                                                  candidates |-> Files(sweep[p].survivors \ gone)]]
                /\ pc' = [pc EXCEPT ![p] = "trim"] /\ Disturb(p) /\ after' = after
    BY <1>2, AbandonedFacts
  <2>2. gone \in SUBSET Processes
    BY <1>0, <2>1 DEF GoneOf, Abandoned
  <2>3. /\ partitions' \subseteq Processes /\ newer' \subseteq Processes \X Processes /\ pid' \subseteq Processes
        /\ files' \in [Processes -> [Kinds -> [Generations -> Seq(Nat)]]] /\ traces' \in [Processes -> SUBSET Nat]
    BY <2>1, <2>2, RemoveType
  <2>4. [survivors |-> {}, order |-> {}, total |-> total, candidates |-> Files(sweep[p].survivors \ gone)] \in Sweeps
    <3>1. total \in Int
      BY <1>0, <2>1, <2>2, SizeIsNatural
    <3>2. Files(sweep[p].survivors \ gone) \subseteq Candidates
      BY <1>0, ReclaimableType DEF Files
    <3> QED BY <3>1, <3>2 DEF Sweeps
  <2>5. /\ pc' \in [Processes -> Places] /\ after' \in [Processes -> {"idle", "log", "trace", "register"}]
        /\ sweep' \in [Processes -> Sweeps]
    <3>1. CASE Finish(p)
      BY <3>1, FinishType
    <3>2. CASE ~Finish(p)
      <4>1. PICK label \in Places, s \in Sweeps : sweep' = [sweep EXCEPT ![p] = s] /\ pc' = [pc EXCEPT ![p] = label] /\ after' = after
        BY <2>1, <2>4, <3>2 DEF Places
      <4> QED BY <4>1 DEF StoreTypeOK
    <3> QED BY <3>1, <3>2
  <2>6. alone' \subseteq Processes
    BY <2>1 DEF StoreTypeOK, Disturb
  <2>7. retained' = retained /\ pendingBytes' = pendingBytes
    BY <1>2 DEF dropAbandonedPartitions
  <2> QED BY <1>a, <2>3, <2>5, <2>6, <2>7 DEF StoreTypeOK
<1>3. CASE trimFiles(p)
  <2>1. PICK gone : DeletesOf(p, gone)
    BY <1>3, TrimFacts
  <2>2. traces' \in [Processes -> SUBSET Nat]
    BY <2>1 DEF StoreTypeOK, DeletesOf
  <2>3. files' \in [Processes -> [Kinds -> [Generations -> Seq(Nat)]]]
    BY <2>1 DEF StoreTypeOK, Missing, DeletesOf
  <2>4. newer' \subseteq Processes \X Processes
    <3>1. {q \in partitions : files'[q] # files[q]} \in SUBSET Processes
      BY DEF StoreTypeOK
    <3> QED BY <2>1, <3>1, TouchedType DEF DeletesOf
  <2>5. retained' \in [Processes -> SUBSET Nat]
    BY <2>1 DEF StoreTypeOK, Unlisted, DeletesOf
  <2>6. /\ pc' \in [Processes -> Places] /\ after' \in [Processes -> {"idle", "log", "trace", "register"}]
        /\ sweep' \in [Processes -> Sweeps] /\ alone' \subseteq Processes
        /\ partitions' = partitions /\ pid' = pid /\ pendingBytes' = pendingBytes
    BY <1>3, FinishType DEF trimFiles
  <2> QED BY <1>a, <2>2, <2>3, <2>4, <2>5, <2>6 DEF StoreTypeOK
<1> QED BY <1>1, <1>2, <1>3 DEF Enforce

LEMMA OthersType ==
    ASSUME StoreTypeOK, (\E p \in Processes : Die(p)) \/ tail \/ drain \/ UNCHANGED vars
    PROVE  StoreTypeOK'
<1>1. ASSUME NEW p \in Processes, Die(p) PROVE StoreTypeOK'
  <2>1. /\ partitions' = partitions /\ newer' = newer /\ pid' = pid /\ files' = files /\ traces' = traces
        /\ readers' = readers /\ written' = written /\ tailer' = tailer /\ emitted' = emitted
    BY <1>1 DEF Die, storeVars, tailVars
  <2>2. /\ alive' \subseteq Processes /\ alone' \subseteq Processes /\ pc' \in [Processes -> Places]
        /\ item' \in [Processes -> Nat] /\ ensured' \in [Processes -> SUBSET Stores]
        /\ pendingBytes' \in [Processes -> Nat] /\ after' \in [Processes -> {"idle", "log", "trace", "register"}]
    BY <1>1 DEF Die, GoesTo, Places, StoreTypeOK
  <2>3. size' \in [Processes -> [Kinds -> Nat \cup {Unset}]] /\ retained' \in [Processes -> SUBSET Nat]
    BY <1>1 DEF Die, StoreTypeOK, Unlisted
  <2>4. sweep' \in [Processes -> Sweeps]
    BY <1>1, NoFilesType DEF Die, StoreTypeOK
  <2> QED BY <2>1, <2>2, <2>3, <2>4 DEF StoreTypeOK
<1>2. CASE tail
  <2>1. PICK p \in partitions : tailer' = [of |-> p, offset |-> Len(files[p]["logs"][0])]
    BY <1>2 DEF tail
  <2>2. Len(files[p]["logs"][0]) \in Nat
    <3>1. p \in Processes /\ "logs" \in Kinds
      BY DEF StoreTypeOK, Kinds
    <3> QED BY <3>1, KnownType
  <2> QED BY <1>2, <2>1, <2>2 DEF tail, StoreTypeOK, storeVars, ownVars
<1>3. CASE drain
  <2>1. tailer \in [of : Processes \cup {Unset}, offset : Nat] /\ tailer.of \in Processes
    BY <1>3 DEF drain, StoreTypeOK
  <2>2. PICK file : file = files[tailer.of]["logs"][0]
    OBVIOUS
  <2>3. file \in Seq(Nat)
    BY <2>1, <2>2, KnownType DEF Kinds
  <2>4. tailer' = [tailer EXCEPT !.offset = Len(file)] /\ emitted' = IF Len(file) <= tailer.offset THEN emitted ELSE file[Len(file)]
    BY <1>3, <2>2 DEF drain, ResetTo
  <2>5. Len(file) \in Nat /\ (Len(file) > tailer.offset => file[Len(file)] \in Nat)
    BY <2>1, <2>3
  <2>a. tailer.offset \in Nat
    BY <2>1
  <2>b. PICK n \in Nat : n = Len(file)
    BY <2>5
  <2>c. emitted' \in Nat
    <3>1. CASE n <= tailer.offset
      BY <2>4, <2>b, <3>1 DEF StoreTypeOK
    <3>2. CASE ~(n <= tailer.offset)
      BY <2>4, <2>5, <2>a, <2>b, <3>2
    <3> QED BY <3>1, <3>2
  <2>d. tailer' = [tailer EXCEPT !.offset = n]
    BY <2>4, <2>b
  <2>6. tailer' \in [of : Processes \cup {Unset}, offset : Nat] /\ emitted' \in Nat
    BY <2>1, <2>c, <2>d
  <2> QED BY <1>3, <2>6 DEF drain, StoreTypeOK, storeVars, ownVars
<1>4. CASE UNCHANGED vars
  BY <1>4 DEF vars, StoreTypeOK
<1> QED BY <1>1, <1>2, <1>3, <1>4

LEMMA StoreTypeStep ==
    ASSUME StoreTypeOK, Numbered, [Next]_vars PROVE StoreTypeOK'
<1>1. ASSUME NEW p \in Processes, appendLog(p) PROVE StoreTypeOK'
  <2>1. written + 1 \in Nat /\ written' \in Nat /\ "logs" \in Kinds /\ AppendLine(p, "logs", written + 1)
    BY <1>1 DEF appendLog, StoreTypeOK, Kinds
  <2> QED BY <2>1, AppendLineType
<1>2. ASSUME NEW p \in Processes, omitTrace(p) PROVE StoreTypeOK'
  <2>1. written + 1 \in Nat /\ written' \in Nat /\ "requests" \in Kinds /\ AppendLine(p, "requests", written + 1)
    BY <1>2 DEF omitTrace, StoreTypeOK, Kinds
  <2> QED BY <2>1, AppendLineType
<1>3. ASSUME NEW p \in Processes, appendSummary(p) PROVE StoreTypeOK'
  BY <1>3, AppendLineType DEF appendSummary, StoreTypeOK, Kinds
<1> QED BY <1>1, <1>2, <1>3, EnsureType, AppendTraceType, RegisterType, SweepType, OthersType DEF Next

-----------------------------------------------------------------------------
(* Who is between a trace and its summary, and the numbers.                *)

\* append() to a file is the last that a process does about an entry.
LEMMA AppendLineEnds ==
    ASSUME StoreTypeOK, NEW p \in Processes, NEW kind \in Kinds, NEW n \in Nat, AppendLine(p, kind, n), NEW q \in Processes
    PROVE  (q # p => item'[q] = item[q] /\ pc'[q] = pc[q] /\ after'[q] = after[q]) /\ (q = p => ~Unsummarised(q)')
<1>1. item' = [item EXCEPT ![p] = 0]
  BY DEF AppendLine
<1>2. CASE Exists(p)
  <2>1. recordBytes(p, Full(p, kind), "idle")
    BY <1>2, AppendLineFacts DEF AppendedWith
  <2>2. \/ pc' = [pc EXCEPT ![p] = "sweep"] /\ after' = [after EXCEPT ![p] = "idle"]
        \/ pc' = [pc EXCEPT ![p] = "idle"] /\ after' = after
    BY <2>1, RecordBytesType
  <2> QED BY <1>1, <2>2 DEF Unsummarised, Unregistered, StoreTypeOK, SweepLabels
<1>3. CASE ~Exists(p)
  <2>1. pc' = [pc EXCEPT ![p] = "idle"] /\ after' = after
    BY <1>3 DEF AppendLine, GoesTo
  <2> QED BY <1>1, <2>1 DEF Unsummarised, Unregistered, StoreTypeOK, SweepLabels
<1> QED BY <1>2, <1>3

\* A process is between a trace and its registration, or its summary, after it wrote the
\* trace and until it comes to that: its sweeps change nothing about it.
LEMMA BetweenStep ==
    ASSUME StoreTypeOK, [Next]_vars, NEW q \in Processes
    PROVE  /\ Unregistered(q)' => \/ Unregistered(q) /\ item'[q] = item[q]
                                  \/ appendTrace(q) /\ traces[q] # NoDirectory /\ item'[q] = written + 1
           /\ Unsummarised(q)' => \/ Unsummarised(q) /\ item'[q] = item[q]
                                  \/ appendTrace(q) /\ traces[q] # NoDirectory /\ item'[q] = written + 1
<1>0. ASSUME pc'[q] = pc[q], after'[q] = after[q]
      PROVE  (Unregistered(q)' <=> Unregistered(q)) /\ (Unsummarised(q)' <=> Unsummarised(q))
  BY <1>0 DEF Unregistered, Unsummarised
<1>1. ASSUME NEW p \in Processes, NEW store \in Stores, ensurePartitionDirectory(p, store)
      PROVE  item' = item /\ (q # p => pc'[q] = pc[q] /\ after'[q] = after[q]) /\ (q = p => ~Unsummarised(q)')
  BY <1>1 DEF ensurePartitionDirectory, GoesTo, Unsummarised, Unregistered, Stores, StoreTypeOK
<1>3. ASSUME NEW p \in Processes, appendTrace(p)
      PROVE  /\ q # p => item'[q] = item[q] /\ pc'[q] = pc[q] /\ after'[q] = after[q]
             /\ q = p /\ Unsummarised(q)' => traces[p] # NoDirectory /\ item'[q] = written + 1
  <2>1. CASE traces[p] # NoDirectory
    <3>1. recordBytes(p, FALSE, "register") /\ item' = [item EXCEPT ![p] = written + 1]
      BY <1>3, <2>1 DEF appendTrace
    <3>2. \/ pc' = [pc EXCEPT ![p] = "sweep"] /\ after' = [after EXCEPT ![p] = "register"]
          \/ pc' = [pc EXCEPT ![p] = "register"] /\ after' = after
      BY <3>1, RecordBytesType
    <3> QED BY <2>1, <3>1, <3>2 DEF StoreTypeOK
  <2>2. CASE traces[p] = NoDirectory
    <3>1. pc' = [pc EXCEPT ![p] = "idle"] /\ after' = after /\ item' = [item EXCEPT ![p] = 0]
      BY <1>3, <2>2 DEF appendTrace, GoesTo
    <3> QED BY <3>1 DEF StoreTypeOK, Unsummarised, Unregistered, SweepLabels
  <2> QED BY <2>1, <2>2
<1>4. ASSUME NEW p \in Processes, register(p)
      PROVE  /\ item' = item /\ after' = after /\ (q # p => pc'[q] = pc[q])
             /\ q = p => ~Unregistered(q)' /\ Unsummarised(q)
  BY <1>4 DEF register, GoesTo, StoreTypeOK, Unsummarised, Unregistered, SweepLabels
<1>5. ASSUME NEW p \in Processes, Enforce(p)
      PROVE  /\ item' = item /\ (q # p => pc'[q] = pc[q] /\ after'[q] = after[q])
             /\ q = p => (Unsummarised(q)' => Unregistered(q))
  <2>1. item' = item /\ pc[p] \in SweepLabels
    BY <1>5 DEF Enforce, dropExpiredPartitions, dropAbandonedPartitions, trimFiles, SweepStep, SweepLabels
  <2>2. \/ Finish(p)
        \/ \E label \in SweepLabels : pc' = [pc EXCEPT ![p] = label] /\ after' = after
    BY <1>5 DEF Enforce, dropExpiredPartitions, dropAbandonedPartitions, trimFiles, GoesTo, SweepLabels
  <2>3. CASE Finish(p)
    BY <2>1, <2>3 DEF Finish, GoesTo, StoreTypeOK, Unsummarised, Unregistered, SweepLabels
  <2>4. CASE \E label \in SweepLabels : pc' = [pc EXCEPT ![p] = label] /\ after' = after
    BY <2>1, <2>4 DEF StoreTypeOK, Unsummarised, Unregistered, SweepLabels
  <2> QED BY <2>2, <2>3, <2>4
<1>6. ASSUME NEW p \in Processes, Die(p)
      PROVE  /\ q # p => item'[q] = item[q] /\ pc'[q] = pc[q] /\ after'[q] = after[q]
             /\ q = p => ~Unsummarised(q)'
  BY <1>6 DEF Die, GoesTo, StoreTypeOK, Unsummarised, Unregistered, SweepLabels
<1>7. ASSUME tail \/ drain \/ UNCHANGED vars PROVE item' = item /\ pc' = pc /\ after' = after
  BY <1>7 DEF tail, drain, vars, ownVars
<1>8. Unregistered(q)' => Unsummarised(q)'
  BY DEF Unsummarised
<1>9. Unregistered(q) => Unsummarised(q)
  BY DEF Unsummarised
<1>a. ASSUME NEW p \in Processes, appendLog(p) \/ omitTrace(p) \/ appendSummary(p)
      PROVE  (q # p => item'[q] = item[q] /\ pc'[q] = pc[q] /\ after'[q] = after[q]) /\ (q = p => ~Unsummarised(q)')
  <2>1. PICK kind \in Kinds, n \in Nat : AppendLine(p, kind, n)
    BY <1>a DEF appendLog, omitTrace, appendSummary, StoreTypeOK, Kinds
  <2> QED BY <2>1, AppendLineEnds
<1>b. CASE \E p \in Processes : \E store \in Stores : ensurePartitionDirectory(p, store)
  BY <1>0, <1>1, <1>8, <1>b
<1>c. CASE \E p \in Processes : appendLog(p) \/ omitTrace(p) \/ appendSummary(p)
  BY <1>0, <1>8, <1>a, <1>c
<1>d. CASE \E p \in Processes : appendTrace(p)
  BY <1>0, <1>3, <1>8, <1>d
<1>e. CASE \E p \in Processes : register(p)
  BY <1>0, <1>4, <1>e
<1>f. CASE \E p \in Processes : Enforce(p)
  BY <1>0, <1>5, <1>8, <1>9, <1>f
<1>g. CASE \E p \in Processes : Die(p)
  BY <1>0, <1>6, <1>8, <1>g
<1>h. CASE tail \/ drain \/ UNCHANGED vars
  BY <1>0, <1>7, <1>h
<1> QED BY <1>b, <1>c, <1>d, <1>e, <1>f, <1>g, <1>h DEF Next

LEMMA NumberedInit == Init => Numbered
  BY DEF Init, Numbered, Unsummarised, Unregistered, SweepLabels

\* A step gives one number at most, and what it stores has a number.
LEMMA NumberedStep ==
    ASSUME StoreTypeOK, Numbered, [Next]_vars PROVE Numbered' /\ written' \in {written, written + 1}
<1>1. written' \in {written, written + 1} /\ written \in Nat
  BY DEF Next, ensurePartitionDirectory, appendLog, appendTrace, omitTrace, register, appendSummary, Enforce,
     dropExpiredPartitions, dropAbandonedPartitions, trimFiles, SweepStep, Die, tail, drain, vars, ownVars, StoreTypeOK
<1>2. 1..written \subseteq 1..written'
  BY <1>1
<1>3. ASSUME NEW q \in Processes, Unsummarised(q)' PROVE item'[q] \in 1..written'
  <2>1. CASE Unsummarised(q) /\ item'[q] = item[q]
    BY <1>2, <2>1 DEF Numbered
  <2>2. CASE appendTrace(q) /\ item'[q] = written + 1
    BY <1>1, <2>2 DEF appendTrace
  <2> QED BY <1>3, <2>1, <2>2, BetweenStep
<1>4. ASSUME NEW q \in Processes
      PROVE  (traces'[q] = NoDirectory \/ traces'[q] \subseteq 1..written') /\ (retained'[q] = Unlisted \/ retained'[q] \subseteq 1..written')
  <2>0. /\ traces[q] = NoDirectory \/ traces[q] \subseteq 1..written'
        /\ retained[q] = Unlisted \/ retained[q] \subseteq 1..written'
    BY <1>2 DEF Numbered
  <2>1. ASSUME NEW p \in Processes, NEW store \in Stores, ensurePartitionDirectory(p, store)
        PROVE  traces'[q] \in {traces[q], {}} /\ retained' = retained
    BY <2>1 DEF ensurePartitionDirectory, StoreTypeOK
  <2>2. ASSUME NEW p \in Processes, appendLog(p) \/ omitTrace(p) \/ appendSummary(p)
        PROVE  traces' = traces /\ retained' = retained
    BY <2>2 DEF appendLog, omitTrace, appendSummary, AppendLine
  <2>3. ASSUME NEW p \in Processes, appendTrace(p)
        PROVE  (traces'[q] = traces[q] \/ (traces[q] # NoDirectory /\ traces'[q] = traces[q] \cup {written'})) /\ retained' = retained
    BY <2>3 DEF appendTrace, StoreTypeOK
  <2>4. ASSUME NEW p \in Processes, register(p)
        PROVE  (traces'[q] = traces[q] \/ (traces[q] # NoDirectory /\ traces'[q] \subseteq traces[q]))
               /\ (retained'[q] = retained[q] \/ retained'[q] \subseteq 1..written')
    <3>1. PICK all, stale, kept : /\ all = Listing(p) \cup {item[p]} /\ retained' = [retained EXCEPT ![p] = all \ stale]
                                  /\ traces' = IF traces[p] = NoDirectory THEN traces
                                                 ELSE [traces EXCEPT ![p] = @ \ (stale \ kept)]
      BY <2>4 DEF register
    <3>2. all \subseteq 1..written
      <4>1. Unsummarised(p)
        BY <2>4 DEF register, Unsummarised, Unregistered
      <4>2. Listing(p) \subseteq 1..written
        BY DEF Listing, tracesOf, Numbered
      <4> QED BY <3>1, <4>1, <4>2 DEF Numbered
    <3> QED BY <1>2, <3>1, <3>2 DEF StoreTypeOK
  <2>5. ASSUME NEW Q, remove(Q) PROVE traces'[q] \in {traces[q], NoDirectory}
    BY <2>5 DEF remove
  <2>6. ASSUME NEW p \in Processes, Enforce(p)
        PROVE  (traces'[q] \in {traces[q], NoDirectory} \/ (traces[q] # NoDirectory /\ traces'[q] \subseteq traces[q]))
               /\ retained'[q] \in {retained[q], Unlisted}
    <3>1. CASE dropExpiredPartitions(p)
      <4>1. retained' = retained /\ \E Q : remove(Q)
        BY <3>1 DEF dropExpiredPartitions
      <4> QED BY <2>5, <4>1
    <3>2. CASE dropAbandonedPartitions(p)
      <4>1. retained' = retained /\ \E Q : remove(Q)
        BY <3>2 DEF dropAbandonedPartitions
      <4> QED BY <2>5, <4>1
    <3>3. CASE trimFiles(p)
      <4>1. PICK gone : DeletesOf(p, gone)
        BY <3>3, TrimFacts
      <4> QED BY <4>1 DEF StoreTypeOK, DeletesOf
    <3> QED BY <2>6, <3>1, <3>2, <3>3 DEF Enforce
  <2>7. ASSUME NEW p \in Processes, Die(p) PROVE traces' = traces /\ retained'[q] \in {retained[q], Unlisted}
    BY <2>7 DEF Die, storeVars, StoreTypeOK
  <2>8. ASSUME tail \/ drain \/ UNCHANGED vars PROVE traces' = traces /\ retained' = retained
    BY <2>8 DEF tail, drain, vars, storeVars, ownVars
  <2>9. traces'[q] \in {traces[q], {}, NoDirectory} \/ (traces[q] # NoDirectory /\ traces'[q] \subseteq traces[q])
            \/ (traces[q] # NoDirectory /\ traces'[q] = traces[q] \cup {written'} /\ \E p \in Processes : appendTrace(p))
    BY <2>1, <2>2, <2>3, <2>4, <2>6, <2>7, <2>8 DEF Next
  <2>10. retained'[q] \in {retained[q], Unlisted} \/ retained'[q] \subseteq 1..written'
    BY <2>1, <2>2, <2>3, <2>4, <2>6, <2>7, <2>8 DEF Next
  <2>11. ASSUME NEW p \in Processes, appendTrace(p) PROVE written' \in 1..written'
    BY <1>1, <2>11 DEF appendTrace
  <2> QED BY <2>0, <2>9, <2>10, <2>11
<1> QED BY <1>1, <1>3, <1>4 DEF Numbered

-----------------------------------------------------------------------------
(* The partition of a process that runs.                                   *)

LEMMA ClaimedInit == Init => Claimed
  BY DEF Init, Claimed

\* A sweep takes no partition that its process has claimed.
LEMMA RemovedIsNotLive ==
    ASSUME StoreTypeOK, Claimed, NEW p \in Processes, dropExpiredPartitions(p) \/ dropAbandonedPartitions(p)
    PROVE  \E Q \in SUBSET Processes : remove(Q) /\ \A q \in Q : q # p /\ (q \in alive => ensured[q] = {}) /\ ~isLive(p, q)
<1>1. \A q : ~isLive(p, q) /\ q \in alive => q # p /\ ensured[q] = {}
  BY DEF isLive, Claimed, StoreTypeOK
<1>2. \A q : ~isLive(p, q) => q # p
  BY DEF isLive
<1>3. CASE dropExpiredPartitions(p)
  <2>1. PICK spared : remove(Expired(p, spared))
    BY <1>3, ExpiredFacts
  <2>2. PICK Q : Q = Expired(p, spared)
    OBVIOUS
  <2>3. Q \in SUBSET Processes /\ \A q \in Q : ~isLive(p, q)
    BY <2>2 DEF Expired, StoreTypeOK
  <2> QED BY <1>1, <1>2, <2>1, <2>2, <2>3
<1>4. CASE dropAbandonedPartitions(p)
  <2>1. remove(GoneOf(p)) /\ sweep[p].survivors \subseteq Processes
    BY <1>4, AbandonedFacts DEF StoreTypeOK, Sweeps
  <2> QED BY <1>1, <1>2, <2>1 DEF GoneOf, Abandoned
<1> QED BY <1>3, <1>4

LEMMA ClaimedStep ==
    ASSUME StoreTypeOK, Claimed, [Next]_vars PROVE Claimed'
<1>1. ASSUME NEW p \in Processes, NEW store \in Stores, ensurePartitionDirectory(p, store) PROVE Claimed'
  BY <1>1 DEF ensurePartitionDirectory, claim, GoesTo, Claimed, StoreTypeOK
<1>2. ASSUME NEW p \in Processes, p \in alive, ensured[p] # {}, alive' = alive, ensured' = ensured,
             pid' = pid, partitions' = partitions, \A q \in Processes : q # p => pc'[q] = pc[q]
      PROVE  Claimed'
  BY <1>2 DEF Claimed
<1>3. ASSUME NEW p \in Processes, NEW kind \in Kinds, NEW n \in Nat, AppendLine(p, kind, n), p \in alive, ensured[p] # {}
      PROVE  Claimed'
  <2>1. pc' = [pc EXCEPT ![p] = "sweep"] \/ pc' = [pc EXCEPT ![p] = "idle"]
    BY <1>3 DEF AppendLine, recordBytes, GoesTo
  <2>2. alive' = alive /\ ensured' = ensured /\ pid' = pid /\ partitions' = partitions
    BY <1>3 DEF AppendLine
  <2> QED BY <1>2, <1>3, <2>1, <2>2 DEF StoreTypeOK
<1>4. ASSUME NEW p \in Processes, appendLog(p) \/ omitTrace(p) \/ appendSummary(p) PROVE Claimed'
  <2>1. PICK kind \in Kinds, n \in Nat : AppendLine(p, kind, n)
    BY <1>4 DEF appendLog, omitTrace, appendSummary, StoreTypeOK, Kinds
  <2>2. p \in alive /\ ensured[p] # {}
    BY <1>4 DEF appendLog, omitTrace, appendSummary, Appending, Claimed
  <2> QED BY <1>3, <2>1, <2>2
<1>5. ASSUME NEW p \in Processes, appendTrace(p) PROVE Claimed'
  <2>1. p \in alive /\ ensured[p] # {}
    BY <1>5 DEF appendTrace, Appending, Claimed
  <2>2. \E label : pc' = [pc EXCEPT ![p] = label]
    BY <1>5 DEF appendTrace, recordBytes, GoesTo
  <2>3. alive' = alive /\ ensured' = ensured /\ pid' = pid /\ partitions' = partitions
    BY <1>5 DEF appendTrace
  <2> QED BY <1>2, <2>1, <2>2, <2>3 DEF StoreTypeOK
<1>6. ASSUME NEW p \in Processes, register(p) PROVE Claimed'
  <2>1. p \in alive /\ ensured[p] # {}
    BY <1>6 DEF register, Claimed
  <2>2. /\ pc' = [pc EXCEPT ![p] = "summary"]
        /\ alive' = alive /\ ensured' = ensured /\ pid' = pid /\ partitions' = partitions
    BY <1>6 DEF register, GoesTo
  <2> QED BY <1>2, <2>1, <2>2 DEF StoreTypeOK
<1>7. ASSUME NEW p \in Processes, Enforce(p) PROVE Claimed'
  <2>1. p \in alive /\ ensured[p] # {} /\ alive' = alive /\ ensured' = ensured
    BY <1>7 DEF Enforce, dropExpiredPartitions, dropAbandonedPartitions, trimFiles, SweepStep, Claimed
  <2>2. \E label : pc' = [pc EXCEPT ![p] = label]
    BY <1>7 DEF Enforce, dropExpiredPartitions, dropAbandonedPartitions, trimFiles, Finish, GoesTo
  <2>3. CASE trimFiles(p)
    <3>1. pid' = pid /\ partitions' = partitions
      BY <2>3 DEF trimFiles
    <3> QED BY <1>2, <2>1, <2>2, <3>1 DEF StoreTypeOK
  <2>4. CASE dropExpiredPartitions(p) \/ dropAbandonedPartitions(p)
    <3>1. PICK Q : remove(Q) /\ \A q \in Q : q # p /\ (q \in alive => ensured[q] = {})
      BY <2>4, RemovedIsNotLive
    <3>2. partitions' = partitions \ Q /\ pid' = pid \ Q
      BY <3>1 DEF remove
    <3> QED BY <2>1, <2>2, <3>1, <3>2 DEF Claimed, StoreTypeOK
  <2> QED BY <1>7, <2>3, <2>4 DEF Enforce
<1>8. ASSUME NEW p \in Processes, Die(p) PROVE Claimed'
  BY <1>8 DEF Die, GoesTo, storeVars, Claimed, StoreTypeOK
<1>9. CASE tail \/ drain \/ UNCHANGED vars
  BY <1>9 DEF tail, drain, vars, storeVars, ownVars, Claimed
<1> QED BY <1>1, <1>4, <1>5, <1>6, <1>7, <1>8, <1>9 DEF Next

-----------------------------------------------------------------------------
(* The lines of a file.                                                    *)

\* Lines that are deleted leave the others in order.
LEMMA FewerLines ==
    ASSUME NEW f \in FileType, NEW e \in FileType, \A g \in Generations : e[g] = f[g] \/ e[g] = <<>>
    PROVE  (InOrder(f) => InOrder(e)) /\ \A n : Below(f, n) => Below(e, n)
<1>1. \A g \in Generations : e[g] # f[g] => DOMAIN e[g] = {}
  OBVIOUS
<1>2. ASSUME InOrder(f) PROVE InOrder(e)
  <2>1. ASSUME NEW g \in Generations PROVE Increasing(e[g])
    BY <1>1, <1>2 DEF InOrder, Increasing
  <2>2. ASSUME NEW g \in Generations, NEW h \in Generations, g < h, NEW i \in DOMAIN e[h], NEW j \in DOMAIN e[g]
        PROVE  e[h][i] < e[g][j]
    <3>1. e[h] = f[h] /\ e[g] = f[g]
      BY <1>1, <2>2
    <3> QED BY <1>2, <2>2, <3>1 DEF InOrder
  <2> QED BY <2>1, <2>2 DEF InOrder
<1>3. ASSUME NEW n, Below(f, n) PROVE Below(e, n)
  BY <1>1, <1>3 DEF Below
<1> QED BY <1>2, <1>3

\* Renaming the generations, with some renames failing, keeps them in order.
LEMMA RotateInOrder ==
    ASSUME NEW f \in FileType, NEW F, InOrder(f)
    PROVE  InOrder(rotate(f, F)) /\ \A n : Below(f, n) => Below(rotate(f, F), n)
<1> DEFINE e == rotate(f, F)
           From(g) == IF g > 0 /\ g - 1 \notin F /\ f[g - 1] # Missing THEN g - 1 ELSE g
<1>1. ASSUME NEW g \in Generations
      PROVE  From(g) \in Generations /\ From(g) \in {g - 1, g} /\ (e[g] = f[From(g)] \/ DOMAIN e[g] = {})
  <2>1. e[g] = IF g > 0 /\ g - 1 \notin F /\ f[g - 1] # Missing THEN f[g - 1] ELSE IF g \in F THEN f[g] ELSE Missing
    BY DEF rotate
  <2>2. DOMAIN Missing = {}
    BY DEF Missing
  <2>3. g > 0 => g - 1 \in Generations
    BY StoreConstants DEF Generations
  <2> HIDE DEF e
  <2> QED BY <2>1, <2>2, <2>3
<1>2. ASSUME NEW g \in Generations, NEW h \in Generations, g < h, DOMAIN e[g] # {}, DOMAIN e[h] # {}
      PROVE  From(g) < From(h)
  <2>1. g \in Nat /\ h \in Nat
    BY StoreConstants
  <2>2. CASE From(g) < g
    BY <1>1, <1>2, <2>1, <2>2
  <2>3. CASE ~(From(g) < g)
    <3>1. From(g) = g /\ e[g] = IF g \in F THEN f[g] ELSE Missing
      <4>1. ~(g > 0 /\ g - 1 \notin F /\ f[g - 1] # Missing)
        BY <2>1, <2>3
      <4>2. e[g] = IF g > 0 /\ g - 1 \notin F /\ f[g - 1] # Missing THEN f[g - 1] ELSE IF g \in F THEN f[g] ELSE Missing
        BY DEF rotate
      <4> HIDE DEF e
      <4> QED BY <4>1, <4>2
    <3>2. g \in F
      BY <1>2, <3>1 DEF Missing
    <3>3. From(h) = h \/ h - 1 # g
      BY <3>2
    <3> HIDE DEF From
    <3> QED BY <1>1, <1>2, <2>1, <3>1, <3>3
  <2> QED BY <2>2, <2>3
<1> HIDE DEF e, From
<1>3. ASSUME NEW g \in Generations PROVE Increasing(e[g])
  BY <1>1 DEF InOrder, Increasing
<1>4. ASSUME NEW g \in Generations, NEW h \in Generations, g < h, NEW i \in DOMAIN e[h], NEW j \in DOMAIN e[g]
      PROVE  e[h][i] < e[g][j]
  <2>1. From(g) < From(h)
    BY <1>2, <1>4
  <2>2. e[h] = f[From(h)] /\ e[g] = f[From(g)]
    BY <1>1, <1>4
  <2> QED BY <1>1, <1>4, <2>1, <2>2 DEF InOrder
<1>5. ASSUME NEW n, Below(f, n) PROVE Below(e, n)
  BY <1>1, <1>5 DEF Below
<1> QED BY <1>3, <1>4, <1>5 DEF InOrder, e

\* A line that is newer than all others goes to the end of the live file.
LEMMA AppendInOrder ==
    ASSUME NEW f \in FileType, NEW n \in Nat, InOrder(f), Below(f, n)
    PROVE  InOrder(Appended(f, n)) /\ \A m \in Nat : n < m => Below(Appended(f, n), m)
<1> DEFINE e == Appended(f, n)
<1>1. /\ 0 \in Generations /\ f[0] \in Seq(Nat) /\ e[0] = Append(f[0], n)
      /\ \A g \in Generations : g # 0 => e[g] = f[g]
  BY StoreConstants DEF Appended, FileType
<1>2. /\ DOMAIN e[0] = 1..(Len(f[0]) + 1) /\ DOMAIN f[0] = 1..Len(f[0]) /\ Len(f[0]) \in Nat
      /\ \A i \in 1..Len(f[0]) : e[0][i] = f[0][i]
      /\ e[0][Len(f[0]) + 1] = n
  <2> HIDE DEF e
  <2> QED BY <1>1
<1> HIDE DEF e
<1>3. ASSUME NEW g \in Generations, NEW i \in DOMAIN e[g]
      PROVE  (i \in DOMAIN f[g] /\ e[g][i] = f[g][i] /\ e[g][i] < n) \/ (g = 0 /\ i = Len(f[0]) + 1 /\ e[g][i] = n)
  <2>1. CASE g # 0
    BY <1>1, <2>1 DEF Below
  <2>2. CASE g = 0
    <3>1. i \in 1..Len(f[0]) \/ i = Len(f[0]) + 1
      BY <1>2, <2>2
    <3> QED BY <1>2, <2>2, <3>1 DEF Below
  <2> QED BY <2>1, <2>2
<1>4. ASSUME NEW g \in Generations PROVE Increasing(e[g])
  <2> SUFFICES ASSUME NEW i \in DOMAIN e[g], NEW j \in DOMAIN e[g], i < j PROVE e[g][i] < e[g][j]
    BY DEF Increasing
  <2>1. CASE g = 0 /\ j = Len(f[0]) + 1
    <3>1. i # Len(f[0]) + 1
      BY <1>2, <2>1
    <3> QED BY <1>2, <1>3, <2>1, <3>1
  <2>2. CASE ~(g = 0 /\ j = Len(f[0]) + 1)
    <3>1. j \in DOMAIN f[g] /\ e[g][j] = f[g][j]
      BY <1>3, <2>2
    <3>2. i \in DOMAIN f[g] /\ e[g][i] = f[g][i]
      BY <1>2, <1>3, <3>1
    <3> QED BY <3>1, <3>2 DEF InOrder, Increasing
  <2> QED BY <2>1, <2>2
<1>5. ASSUME NEW g \in Generations, NEW h \in Generations, g < h, NEW i \in DOMAIN e[h], NEW j \in DOMAIN e[g]
      PROVE  e[h][i] < e[g][j]
  <2>1. h # 0
    BY <1>5, StoreConstants
  <2>2. i \in DOMAIN f[h] /\ e[h][i] = f[h][i] /\ f[h][i] < n
    BY <1>3, <2>1
  <2>3. CASE j \in DOMAIN f[g] /\ e[g][j] = f[g][j]
    BY <1>5, <2>2, <2>3 DEF InOrder
  <2>4. CASE e[g][j] = n
    BY <2>2, <2>4
  <2> QED BY <1>3, <2>3, <2>4
<1>6. ASSUME NEW m \in Nat, n < m, NEW g \in Generations, NEW i \in DOMAIN e[g] PROVE e[g][i] < m
  <2>1. e[g][i] = n \/ (i \in DOMAIN f[g] /\ e[g][i] = f[g][i] /\ e[g][i] < n)
    BY <1>3
  <2>2. i \in DOMAIN f[g] => f[g][i] \in Nat
    BY DEF FileType
  <2> QED BY <1>6, <2>1, <2>2
<1> QED BY <1>4, <1>5, <1>6 DEF InOrder, Below, e

\* What a step does to the lines of a file: it takes some away, or it adds a newer one.
AppendedBy(q, k, n) ==
    \E F, now : /\ (Full(q, k) /\ readers) \/ F = {}
                /\ now = IF Full(q, k) THEN rotate(files[q][k], F) ELSE files[q][k]
                /\ now \in FileType /\ files'[q][k] = Appended(now, n)

LEMMA LinesStep ==
    ASSUME StoreTypeOK, Numbered, Claimed, [Next]_vars, NEW q \in Processes, NEW k \in Kinds
    PROVE  \/ \A g \in Generations : files'[q][k][g] \in {files[q][k][g], <<>>}
           \/ ~Unsummarised(q)' /\ written' = written + 1 /\ AppendedBy(q, k, written + 1)
           \/ k = "requests" /\ Unsummarised(q) /\ ~Unsummarised(q)' /\ written' = written /\ AppendedBy(q, k, item[q])
<1> DEFINE Same == \A g \in Generations : files'[q][k][g] \in {files[q][k][g], <<>>}
<1> HIDE DEF Same
<1>1. ASSUME files' = files PROVE Same
  BY <1>1 DEF Same
<1>2. ASSUME NEW p \in Processes, NEW kind \in Kinds, NEW n \in Nat, AppendLine(p, kind, n)
      PROVE  Same \/ (q = p /\ k = kind /\ ~Unsummarised(q)' /\ AppendedBy(q, k, n))
  <2>1. CASE Exists(p)
    <3>1. PICK F, now : AppendedWith(p, kind, n, F, now)
      BY <1>2, <2>1, AppendLineFacts
    <3>3. files' = [files EXCEPT ![p] = [files[p] EXCEPT ![kind] = Appended(now, n)]] /\ now \in FileType
      BY <3>1 DEF AppendedWith
    <3>4. files[p] \in [Kinds -> FileType] /\ files \in [Processes -> [Kinds -> FileType]]
      BY KnownType DEF StoreTypeOK, FileType
    <3>5. CASE q = p /\ k = kind
      <4>1. files'[q][k] = Appended(now, n)
        BY <3>3, <3>4, <3>5
      <4>2. ~Unsummarised(q)'
        BY <1>2, <3>5, AppendLineEnds
      <4> QED BY <3>1, <3>3, <3>5, <4>1, <4>2 DEF AppendedBy, AppendedWith
    <3>6. CASE ~(q = p /\ k = kind)
      <4>1. files'[q][k] = files[q][k]
        BY <3>3, <3>4, <3>6
      <4> QED BY <4>1 DEF Same
    <3> QED BY <3>5, <3>6
  <2>2. CASE ~Exists(p)
    BY <1>1, <1>2, <2>2 DEF AppendLine
  <2> QED BY <2>1, <2>2
<1>3. ASSUME NEW p \in Processes, appendLog(p) \/ omitTrace(p)
      PROVE  Same \/ (~Unsummarised(q)' /\ written' = written + 1 /\ AppendedBy(q, k, written + 1))
  <2>1. PICK kind \in Kinds : AppendLine(p, kind, written + 1) /\ written' = written + 1
    BY <1>3 DEF appendLog, omitTrace, Kinds
  <2>2. written + 1 \in Nat
    BY DEF StoreTypeOK
  <2> QED BY <1>2, <2>1, <2>2
<1>4. ASSUME NEW p \in Processes, appendSummary(p)
      PROVE  Same \/ (k = "requests" /\ Unsummarised(q) /\ ~Unsummarised(q)' /\ written' = written /\ AppendedBy(q, k, item[q]))
  <2>1. AppendLine(p, "requests", item[p]) /\ written' = written /\ Unsummarised(p)
    BY <1>4 DEF appendSummary, Unsummarised
  <2>2. item[p] \in Nat /\ "requests" \in Kinds
    BY DEF StoreTypeOK, Kinds
  <2> QED BY <1>2, <2>1, <2>2
<1>5. ASSUME NEW Q, remove(Q) PROVE Same
  <2>1. files'[q] = files[q] \/ files'[q] = NoFiles
    BY <1>5 DEF remove
  <2> QED BY <2>1, NoFilesType DEF Same
<1>6. ASSUME NEW p \in Processes, Enforce(p) PROVE Same
  <2>1. CASE dropExpiredPartitions(p) \/ dropAbandonedPartitions(p)
    <3>1. \E Q : remove(Q)
      BY <2>1 DEF dropExpiredPartitions, dropAbandonedPartitions
    <3> QED BY <1>5, <3>1
  <2>2. CASE trimFiles(p)
    <3>1. PICK gone : DeletesOf(p, gone)
      BY <2>2, TrimFacts
    <3> QED BY <3>1 DEF DeletesOf, Missing, Same
  <2> QED BY <1>6, <2>1, <2>2 DEF Enforce
<1>7. ASSUME NEW p \in Processes, (\E store \in Stores : ensurePartitionDirectory(p, store)) \/ appendTrace(p) \/ register(p) \/ Die(p)
      PROVE  Same
  <2>1. files' = files
    BY <1>7 DEF ensurePartitionDirectory, appendTrace, register, Die, storeVars
  <2> QED BY <1>1, <2>1
<1>9. ASSUME tail \/ drain \/ UNCHANGED vars PROVE Same
  <2>1. files' = files
    BY <1>9 DEF tail, drain, vars, storeVars
  <2> QED BY <1>1, <2>1
<1>8. \/ Same
      \/ ~Unsummarised(q)' /\ written' = written + 1 /\ AppendedBy(q, k, written + 1)
      \/ k = "requests" /\ Unsummarised(q) /\ ~Unsummarised(q)' /\ written' = written /\ AppendedBy(q, k, item[q])
  <2>1. CASE \E p \in Processes : appendLog(p) \/ omitTrace(p)
    BY <1>3, <2>1
  <2>2. CASE \E p \in Processes : appendSummary(p)
    BY <1>4, <2>2
  <2>3. CASE \E p \in Processes : Enforce(p)
    BY <1>6, <2>3
  <2>4. CASE \E p \in Processes : (\E store \in Stores : ensurePartitionDirectory(p, store)) \/ appendTrace(p) \/ register(p) \/ Die(p)
    BY <1>7, <2>4
  <2>5. CASE tail \/ drain \/ UNCHANGED vars
    BY <1>9, <2>5
  <2> QED BY <2>1, <2>2, <2>3, <2>4, <2>5 DEF Next
<1> QED BY <1>8 DEF Same

LEMMA LinesInit == Init => LinesInOrder /\ TailInv
<1> SUFFICES ASSUME Init PROVE LinesInOrder /\ TailInv
  OBVIOUS
<1>1. \A p \in Processes, k \in Kinds, g \in Generations : files[p][k][g] = <<>>
  BY NoFilesType DEF Init
<1>2. \A p \in Processes, k \in Kinds : InOrder(files[p][k]) /\ \A n : Below(files[p][k], n)
  BY <1>1 DEF InOrder, Below, Increasing
<1>3. "requests" \in Kinds
  BY DEF Kinds
<1> QED BY SMTT(20), <1>2, <1>3 DEF LinesInOrder, TailInv, TailFollowsInOrder, Init

\* Where n is newer than the lines of a file, it is so after any step that adds no other.
LEMMA LinesInOrderStep ==
    ASSUME StoreTypeOK, Numbered, Claimed, LinesInOrder, [Next]_vars, StoreTypeOK' PROVE LinesInOrder'
<1>1. written \in Nat /\ written' \in {written, written + 1}
  BY NumberedStep DEF StoreTypeOK
<1>2. ASSUME NEW q \in Processes, NEW k \in Kinds
      PROVE  /\ files[q][k] \in FileType /\ files'[q][k] \in FileType
             /\ InOrder(files[q][k]) /\ Below(files[q][k], written + 1)
  BY SMTT(20) DEF StoreTypeOK, FileType, LinesInOrder
<1>3. ASSUME NEW q \in Processes, NEW k \in Kinds, NEW n \in Nat, AppendedBy(q, k, n), Below(files[q][k], n)
      PROVE  InOrder(files'[q][k]) /\ \A m \in Nat : n < m => Below(files'[q][k], m)
  <2>1. PICK F, now : /\ now = IF Full(q, k) THEN rotate(files[q][k], F) ELSE files[q][k]
                      /\ now \in FileType /\ files'[q][k] = Appended(now, n)
    BY <1>3 DEF AppendedBy
  <2>2. InOrder(now) /\ Below(now, n)
    <3>1. CASE Full(q, k)
      BY <1>2, <1>3, <2>1, <3>1, RotateInOrder
    <3>2. CASE ~Full(q, k)
      BY <1>2, <1>3, <2>1, <3>2
    <3> QED BY <3>1, <3>2
  <2> QED BY <2>1, <2>2, AppendInOrder
<1>4. ASSUME NEW q \in Processes, NEW k \in Kinds, \A g \in Generations : files'[q][k][g] \in {files[q][k][g], <<>>}
      PROVE  InOrder(files'[q][k]) /\ \A n : Below(files[q][k], n) => Below(files'[q][k], n)
  <2>1. \A g \in Generations : files'[q][k][g] = files[q][k][g] \/ files'[q][k][g] = <<>>
    BY <1>4
  <2> QED BY <1>2, <2>1, FewerLines
<1>5. ASSUME NEW q \in Processes, NEW k \in Kinds PROVE InOrder(files'[q][k]) /\ Below(files'[q][k], written' + 1)
  <2>1. CASE \A g \in Generations : files'[q][k][g] \in {files[q][k][g], <<>>}
    <3>1. Below(files'[q][k], written + 1) /\ InOrder(files'[q][k])
      BY <1>2, <1>4, <2>1
    <3>2. \A g \in Generations : \A i \in DOMAIN files'[q][k][g] : files'[q][k][g][i] \in Nat
      BY <1>2 DEF FileType
    <3> QED BY <1>1, <3>1, <3>2 DEF Below
  <2>2. CASE written' = written + 1 /\ AppendedBy(q, k, written + 1)
    BY <1>1, <1>2, <1>3, <2>2
  <2>3. CASE k = "requests" /\ Unsummarised(q) /\ written' = written /\ AppendedBy(q, k, item[q])
    <3>1. item[q] \in 1..written /\ Below(files[q][k], item[q])
      BY <2>3 DEF Numbered, LinesInOrder
    <3> QED BY <1>1, <1>3, <2>3, <3>1
  <2> QED BY <2>1, <2>2, <2>3, LinesStep
<1>6. ASSUME NEW q \in Processes, Unsummarised(q)' PROVE Below(files'[q]["requests"], item'[q])
  <2>0. "requests" \in Kinds
    BY DEF Kinds
  <2>1. CASE Unsummarised(q) /\ item'[q] = item[q]
    <3>1. Below(files[q]["requests"], item[q])
      BY <2>1 DEF LinesInOrder
    <3>2. \A g \in Generations : files'[q]["requests"][g] \in {files[q]["requests"][g], <<>>}
      BY <1>6, <2>0, LinesStep
    <3> QED BY <1>4, <2>0, <2>1, <3>1, <3>2
  <2>2. CASE appendTrace(q) /\ item'[q] = written + 1
    BY <1>2, <2>0, <2>2 DEF appendTrace
  <2> QED BY <1>6, <2>1, <2>2, BetweenStep
<1> QED BY <1>5, <1>6 DEF LinesInOrder

-----------------------------------------------------------------------------
(* The tailer.                                                             *)

LEMMA TailStep ==
    ASSUME StoreTypeOK, Numbered, Claimed, LinesInOrder, TailInv, [Next]_vars PROVE TailInv'
<1>0. written \in Nat /\ emitted \in Nat /\ emitted <= written /\ written' \in {written, written + 1} /\ "logs" \in Kinds
  BY NumberedStep DEF StoreTypeOK, TailInv, Kinds
<1>1. CASE tail
  <2>1. PICK p \in partitions : tailer' = [of |-> p, offset |-> Len(files[p]["logs"][0])]
    BY <1>1 DEF tail
  <2>2. files' = files /\ emitted' = emitted /\ written' = written
    BY <1>1 DEF tail, storeVars, ownVars
  <2>3. PICK file : file = files[p]["logs"][0]
    OBVIOUS
  <2>4. file \in Seq(Nat)
    BY <1>0, <2>3, KnownType DEF StoreTypeOK
  <2>5. \A i \in DOMAIN file : ~(i > Len(file))
    BY <2>4
  <2> QED BY <1>0, <2>1, <2>2, <2>3, <2>5 DEF TailInv, TailFollowsInOrder
<1>2. CASE drain
  <2>1. tailer.of \in Processes /\ tailer.offset \in Nat
    BY <1>2 DEF drain, StoreTypeOK
  <2>2. PICK file : file = files[tailer.of]["logs"][0]
    OBVIOUS
  <2>3. file \in Seq(Nat) /\ file # <<>>
    BY <1>0, <1>2, <2>1, <2>2, KnownType DEF drain, Missing
  <2>4. /\ tailer' = [tailer EXCEPT !.offset = Len(file)] /\ files' = files /\ written' = written
        /\ emitted' \in {emitted, file[Len(file)]}
    BY <1>2, <2>2 DEF drain, ResetTo, storeVars, ownVars
  <2>5. tailer'.of = tailer.of /\ tailer'.offset = Len(file)
    BY <2>4 DEF StoreTypeOK
  <2>6. \A i \in DOMAIN file : ~(i > Len(file))
    BY <2>3
  <2>7. file[Len(file)] < written + 1 /\ file[Len(file)] \in Nat
    <3>1. Below(files[tailer.of]["logs"], written + 1)
      BY <1>0, <2>1 DEF LinesInOrder
    <3>2. Len(file) \in DOMAIN file
      BY <2>3
    <3> QED BY <2>2, <2>3, <3>1, <3>2, StoreConstants DEF Below
  <2>8. emitted' <= written'
    BY <1>0, <2>4, <2>7
  <2> QED BY <2>2, <2>4, <2>5, <2>6, <2>8 DEF TailInv, TailFollowsInOrder
<1>3. ASSUME ~tail, ~drain PROVE TailInv'
  <2>1. tailer' = tailer /\ emitted' = emitted
    <3>1. ASSUME NEW p \in Processes, NEW store \in Stores, ensurePartitionDirectory(p, store) PROVE UNCHANGED tailVars
      BY <3>1 DEF ensurePartitionDirectory
    <3>2. ASSUME NEW p \in Processes, appendLog(p) PROVE UNCHANGED tailVars
      BY <3>2 DEF appendLog, AppendLine
    <3>3. ASSUME NEW p \in Processes, appendTrace(p) PROVE UNCHANGED tailVars
      BY <3>3 DEF appendTrace
    <3>4. ASSUME NEW p \in Processes, omitTrace(p) PROVE UNCHANGED tailVars
      BY <3>4 DEF omitTrace, AppendLine
    <3>5. ASSUME NEW p \in Processes, register(p) PROVE UNCHANGED tailVars
      BY <3>5 DEF register
    <3>6. ASSUME NEW p \in Processes, appendSummary(p) PROVE UNCHANGED tailVars
      BY <3>6 DEF appendSummary, AppendLine
    <3>7. ASSUME NEW p \in Processes, dropExpiredPartitions(p) PROVE UNCHANGED tailVars
      BY <3>7 DEF dropExpiredPartitions, SweepStep
    <3>8. ASSUME NEW p \in Processes, dropAbandonedPartitions(p) PROVE UNCHANGED tailVars
      BY <3>8 DEF dropAbandonedPartitions, SweepStep
    <3>9. ASSUME NEW p \in Processes, trimFiles(p) PROVE UNCHANGED tailVars
      BY <3>9 DEF trimFiles, SweepStep
    <3>10. ASSUME NEW p \in Processes, Die(p) PROVE UNCHANGED tailVars
      BY <3>10 DEF Die
    <3>11. UNCHANGED vars => UNCHANGED tailVars
      BY DEF vars, tailVars
    <3>12. UNCHANGED tailVars
      BY <1>3, <3>1, <3>2, <3>3, <3>4, <3>5, <3>6, <3>7, <3>8, <3>9, <3>10, <3>11 DEF Next, Enforce
    <3> QED BY <3>12 DEF tailVars
  <2>2. ASSUME tailer.of # Unset, NEW i \in DOMAIN files'[tailer.of]["logs"][0], i > tailer.offset
        PROVE  files'[tailer.of]["logs"][0][i] > emitted
    <3>1. PICK q \in Processes : q = tailer.of
      BY <2>2 DEF StoreTypeOK
    <3>2. PICK old, new : old = files[q]["logs"][0] /\ new = files'[q]["logs"][0]
      OBVIOUS
    <3>3. old \in Seq(Nat) /\ \A j \in DOMAIN old : j > tailer.offset => old[j] > emitted
      BY <1>0, <2>2, <3>1, <3>2, KnownType DEF TailInv, TailFollowsInOrder
    <3>4. new \in {old, <<>>} \/ \E now \in {old, <<>>} : new = Append(now, written + 1)
      <4>1. CASE \A g \in Generations : files'[q]["logs"][g] \in {files[q]["logs"][g], <<>>}
        BY <3>2, <4>1, StoreConstants
      <4>2. CASE AppendedBy(q, "logs", written + 1)
        <5>1. PICK F, now : /\ now = IF Full(q, "logs") THEN rotate(files[q]["logs"], F) ELSE files[q]["logs"]
                            /\ now \in FileType /\ files'[q]["logs"] = Appended(now, written + 1)
          BY <4>2 DEF AppendedBy
        <5>2. now[0] \in {old, <<>>}
          <6>1. CASE Full(q, "logs")
            <7>1. now[0] = IF 0 \in F THEN old ELSE Missing
              BY <3>2, <5>1, <6>1, StoreConstants DEF rotate
            <7> QED BY <7>1 DEF Missing
          <6>2. CASE ~Full(q, "logs")
            BY <3>2, <5>1, <6>2
          <6> QED BY <6>1, <6>2
        <5>3. new = Append(now[0], written + 1)
          BY <3>2, <5>1, StoreConstants DEF Appended, FileType
        <5> QED BY <5>2, <5>3
      <4> QED BY <1>0, <4>1, <4>2, LinesStep
    <3>5. i \in DOMAIN new => (i \in DOMAIN old /\ new[i] = old[i]) \/ new[i] = written + 1
      BY SMTT(20), <3>3, <3>4
    <3> QED BY <1>0, <2>2, <3>1, <3>2, <3>3, <3>5
  <2> QED BY <1>0, <2>1, <2>2 DEF TailInv, TailFollowsInOrder
<1> QED BY <1>1, <1>2, <1>3

-----------------------------------------------------------------------------
(* Reading.                                                                *)

\* A set of numbers that is not empty has a least one.
LEMMA LeastNumber ==
    ASSUME NEW T, T \subseteq Nat, T # {}
    PROVE  \E n \in T : \A q \in T : n <= q
<1> DEFINE R == OpToRel(<, Nat)
<1>1. IsWellFoundedOn(R, Nat)
  BY NatLessThanWellFounded
<1> HIDE DEF R
<1>2. PICK n \in T : \A q \in T : ~(<<q, n>> \in R)
  BY <1>1, WFMin
<1>3. ASSUME NEW q \in T PROVE n <= q
  <2>1. <<q, n>> \in Nat \X Nat /\ <<q, n>> \notin R
    BY <1>2
  <2>2. ~(q < n)
    BY <2>1 DEF R, OpToRel
  <2> QED BY <2>1, <2>2
<1> QED BY <1>3

\* The lines of the generations below g, as a function of g, and what read() collects of them.
StoredBy(f, L, n) == L = [g \in 0..n |-> IF g = 0 THEN <<>> ELSE f[g - 1] \o L[g - 1]]
ReadBy(f, limit, L, n) ==
    L = [g \in 0..n |-> IF g = 0 THEN <<>> ELSE LastLines(f[g - 1], limit - Len(L[g - 1])) \o L[g - 1]]

LEMMA StoredExists ==
    ASSUME NEW f PROVE \A n \in Nat : \E L : StoredBy(f, L, n)
<1> DEFINE T == {n \in Nat : ~\E L : StoredBy(f, L, n)}
<1> SUFFICES ASSUME T # {} PROVE FALSE
  OBVIOUS
<1>1. PICK n \in T : \A m \in T : n <= m
  BY LeastNumber
<1>2. CASE n = 0
  <2> DEFINE L == [g \in 0..0 |-> <<>>]
  <2>1. StoredBy(f, L, 0)
    BY DEF StoredBy
  <2> QED BY <1>1, <1>2, <2>1
<1>3. CASE n # 0
  <2>1. n - 1 \in Nat /\ n - 1 \notin T
    BY <1>1, <1>3
  <2>2. PICK L : StoredBy(f, L, n - 1)
    BY <2>1
  <2> DEFINE M == [g \in 0..n |-> IF g = n THEN f[n - 1] \o L[n - 1] ELSE L[g]]
  <2>3. \A g \in 0..(n - 1) : M[g] = L[g] /\ L[g] = IF g = 0 THEN <<>> ELSE f[g - 1] \o L[g - 1]
    BY <2>1, <2>2 DEF StoredBy
  <2>4. \A g \in 0..n : M[g] = IF g = 0 THEN <<>> ELSE f[g - 1] \o M[g - 1]
    <3> TAKE g \in 0..n
    <3>1. CASE g = n
      <4>1. M[n] = f[n - 1] \o L[n - 1] /\ M[n - 1] = L[n - 1]
        <5>1. n \in 0..n /\ n - 1 \in 0..n /\ n - 1 \in 0..(n - 1) /\ n - 1 # n
          BY <1>3, <2>1
        <5> QED BY <5>1
      <4> HIDE DEF M
      <4> QED BY <1>3, <3>1, <4>1
    <3>2. CASE g # n
      <4>1. g \in 0..(n - 1) /\ (g # 0 => g - 1 \in 0..(n - 1))
        BY <2>1, <3>2
      <4> HIDE DEF M
      <4> QED BY <2>3, <4>1
    <3> QED BY <3>1, <3>2
  <2>5. StoredBy(f, M, n)
    BY <2>4 DEF StoredBy
  <2> QED BY <1>1, <2>5
<1> QED BY <1>2, <1>3

LEMMA ExistingFiles ==
    ASSUME NEW f PROVE \E L : StoredBy(f, L, MaxLogFiles) /\ existingFiles(f) = L[MaxLogFiles]
<1>1. \E L : StoredBy(f, L, MaxLogFiles)
  BY StoredExists, StoreConstants
<1> DEFINE K == CHOOSE L : L = [g \in 0..MaxLogFiles |-> IF g = 0 THEN <<>> ELSE f[g - 1] \o L[g - 1]]
<1>2. existingFiles(f) = K[MaxLogFiles]
  BY DEF existingFiles
<1>3. StoredBy(f, K, MaxLogFiles)
  BY <1>1 DEF StoredBy
<1> QED BY <1>2, <1>3

LEMMA ReadExists ==
    ASSUME NEW f, NEW limit PROVE \A n \in Nat : \E L : ReadBy(f, limit, L, n)
<1> DEFINE T == {n \in Nat : ~\E L : ReadBy(f, limit, L, n)}
           Step(g, lines) == LastLines(f[g - 1], limit - Len(lines)) \o lines
<1> SUFFICES ASSUME T # {} PROVE FALSE
  OBVIOUS
<1>1. PICK n \in T : \A m \in T : n <= m
  BY LeastNumber
<1>2. CASE n = 0
  <2> DEFINE L == [g \in 0..0 |-> <<>>]
  <2>1. ReadBy(f, limit, L, 0)
    BY DEF ReadBy
  <2> QED BY <1>1, <1>2, <2>1
<1>3. CASE n # 0
  <2>1. n - 1 \in Nat /\ n - 1 \notin T
    BY <1>1, <1>3
  <2>2. PICK L : ReadBy(f, limit, L, n - 1)
    BY <2>1
  <2> DEFINE M == [g \in 0..n |-> IF g = n THEN Step(n, L[n - 1]) ELSE L[g]]
  <2>a. L = [g \in 0..(n - 1) |-> IF g = 0 THEN <<>> ELSE Step(g, L[g - 1])]
    BY <2>2 DEF ReadBy
  <2> HIDE DEF Step
  <2>3. \A g \in 0..(n - 1) : M[g] = L[g] /\ L[g] = IF g = 0 THEN <<>> ELSE Step(g, L[g - 1])
    BY <2>1, <2>a
  <2>4. \A g \in 0..n : M[g] = IF g = 0 THEN <<>> ELSE Step(g, M[g - 1])
    <3> TAKE g \in 0..n
    <3>1. CASE g = n
      <4>1. M[n] = Step(n, L[n - 1]) /\ M[n - 1] = L[n - 1]
        <5>1. n \in 0..n /\ n - 1 \in 0..n /\ n - 1 \in 0..(n - 1) /\ n - 1 # n
          BY <1>3, <2>1
        <5> QED BY <5>1
      <4> HIDE DEF M
      <4> QED BY <1>3, <3>1, <4>1
    <3>2. CASE g # n
      <4>1. g \in 0..(n - 1) /\ (g # 0 => g - 1 \in 0..(n - 1))
        BY <2>1, <3>2
      <4> HIDE DEF M
      <4> QED BY <2>3, <4>1
    <3> QED BY <3>1, <3>2
  <2>5. M = [g \in 0..n |-> IF g = 0 THEN <<>> ELSE Step(g, M[g - 1])]
    BY <2>4
  <2> HIDE DEF M
  <2>6. ReadBy(f, limit, M, n)
    BY <2>5 DEF ReadBy, Step
  <2> QED BY <1>1, <2>6
<1> QED BY <1>2, <1>3

LEMMA ReadLines ==
    ASSUME NEW f, NEW limit PROVE \E L : ReadBy(f, limit, L, MaxLogFiles) /\ read(f, limit) = L[MaxLogFiles]
<1>1. \E L : ReadBy(f, limit, L, MaxLogFiles)
  BY ReadExists, StoreConstants
<1> DEFINE K == CHOOSE L : L = [g \in 0..MaxLogFiles |-> IF g = 0 THEN <<>> ELSE
                                 LastLines(f[g - 1], limit - Len(L[g - 1])) \o L[g - 1]]
<1>2. read(f, limit) = K[MaxLogFiles]
  BY DEF read
<1>3. ReadBy(f, limit, K, MaxLogFiles)
  BY <1>1 DEF ReadBy
<1> QED BY <1>2, <1>3

\* The last n lines, one by one.
IsLast(y, s, n, k) ==
    /\ y \in Seq(Nat) /\ Len(y) = k /\ \A i \in 1..k : y[i] = s[(Len(s) - k) + i]
    /\ k <= n /\ k <= Len(s) /\ (k = n \/ k = Len(s))

LEMMA LastLinesFacts ==
    ASSUME NEW s \in Seq(Nat), NEW n \in Nat
    PROVE  \E k \in Nat : IsLast(LastLines(s, n), s, n, k)
<1>1. PICK m \in Nat : m = Len(s)
  OBVIOUS
<1>2. PICK k \in Nat, first \in Nat : /\ k <= n /\ k <= m /\ (k = n \/ k = m) /\ first = m - k + 1
                                      /\ LastLines(s, n) = SubSeq(s, first, m)
  <2>1. CASE m > n
    <3>1. LastLines(s, n) = SubSeq(s, m - n + 1, m)
      BY <1>1, <2>1 DEF LastLines
    <3>2. PICK first \in Nat : first = m - n + 1
      BY <2>1
    <3>3. LastLines(s, n) = SubSeq(s, first, m) /\ n <= m
      BY <2>1, <3>1, <3>2
    <3>4. n <= n /\ n <= m /\ (n = n \/ n = m) /\ first = m - n + 1 /\ LastLines(s, n) = SubSeq(s, first, m)
      BY <3>2, <3>3
    <3> WITNESS n \in Nat, first \in Nat
    <3> QED BY <3>4
  <2>2. CASE ~(m > n)
    <3>1. LastLines(s, n) = SubSeq(s, 1, m)
      BY <1>1, <2>2 DEF LastLines
    <3>2. 1 = m - m + 1
      OBVIOUS
    <3> QED BY <2>2, <3>1, <3>2
  <2> QED BY <2>1, <2>2
<1>3. PICK y : y = SubSeq(s, first, m)
  OBVIOUS
<1>4. \A i \in first..m : s[i] \in Nat
  BY <1>1, <1>2
<1>5. y \in Seq(Nat)
  BY <1>2, <1>3, <1>4, SubSeqProperties
<1>6. Len(y) = k /\ DOMAIN y = 1..k
  <2>1. Len(y) = IF first <= m THEN m - first + 1 ELSE 0
    BY <1>1, <1>2, <1>3, <1>4, SubSeqProperties
  <2> QED BY <1>2, <1>5, <2>1
<1>7. ASSUME NEW i \in 1..k PROVE y[i] = s[(m - k) + i]
  <2>1. i \in 1..(m - first + 1) /\ first + i - 1 = (m - k) + i
    BY <1>2
  <2>2. y[i] = s[first + i - 1]
    BY <1>1, <1>2, <1>3, <1>4, <2>1, SubSeqProperties
  <2> QED BY <2>1, <2>2
<1>8. IsLast(y, s, n, k)
  BY <1>1, <1>2, <1>5, <1>6, <1>7 DEF IsLast
<1> QED BY <1>2, <1>3, <1>8

\* There is one such sequence.
LEMMA LastLinesAre ==
    ASSUME NEW s \in Seq(Nat), NEW n \in Nat, NEW k \in Nat, NEW y, IsLast(y, s, n, k)
    PROVE  y = LastLines(s, n)
<1>1. PICK j, z : j \in Nat /\ z = LastLines(s, n) /\ IsLast(z, s, n, j)
  BY LastLinesFacts
<1>2. PICK m \in Nat : m = Len(s)
  OBVIOUS
<1>3. j = k
  BY <1>1, <1>2 DEF IsLast
<1>4. y \in Seq(Nat) /\ z \in Seq(Nat) /\ Len(y) = k /\ Len(z) = k /\ \A i \in 1..k : y[i] = z[i]
  BY <1>1, <1>3 DEF IsLast
<1>5. y = z
  BY <1>4, SeqEqual
<1> QED BY <1>1, <1>5

\* Collecting from the end, one piece after the other, is collecting from the end of both.
LEMMA LastOfBoth ==
    ASSUME NEW s \in Seq(Nat), NEW t \in Seq(Nat), NEW limit \in Nat
    PROVE  LastLines(s, limit - Len(LastLines(t, limit))) \o LastLines(t, limit) = LastLines(s \o t, limit)
<1>1. PICK a \in Nat, b \in Nat : a = Len(s) /\ b = Len(t)
  OBVIOUS
<1>a. PICK k \in Nat : IsLast(LastLines(t, limit), t, limit, k)
  BY LastLinesFacts
<1>2. PICK y : y = LastLines(t, limit) /\ IsLast(y, t, limit, k)
  BY <1>a
<1>3. /\ y \in Seq(Nat) /\ Len(y) = k /\ \A i \in 1..k : y[i] = t[(b - k) + i]
      /\ k <= limit /\ k <= b /\ (k = limit \/ k = b)
  BY <1>1, <1>2 DEF IsLast
<1>4. PICK rest \in Nat : rest = limit - k
  BY <1>3
<1>b. PICK j \in Nat : IsLast(LastLines(s, rest), s, rest, j)
  BY LastLinesFacts
<1>5. PICK x : x = LastLines(s, rest) /\ IsLast(x, s, rest, j)
  BY <1>b
<1>6. /\ x \in Seq(Nat) /\ Len(x) = j /\ \A i \in 1..j : x[i] = s[(a - j) + i]
      /\ j <= rest /\ j <= a /\ (j = rest \/ j = a)
  BY <1>1, <1>5 DEF IsLast
<1>7. PICK u : u = s \o t
  OBVIOUS
<1>8. u \in Seq(Nat) /\ Len(u) = a + b /\ (\A i \in 1..a : u[i] = s[i]) /\ \A i \in 1..b : u[a + i] = t[i]
  <2>1. /\ u \in Seq(Nat) /\ Len(u) = a + b
        /\ \A i \in 1..Len(u) : u[i] = IF i <= a THEN s[i] ELSE t[i - a]
    BY <1>1, <1>7, ConcatProperties
  <2>2. \A i \in 1..a : i \in 1..Len(u) /\ i <= a
    BY <2>1
  <2>3. \A i \in 1..b : a + i \in 1..Len(u) /\ ~(a + i <= a) /\ (a + i) - a = i
    BY <2>1
  <2>4. \A i \in 1..b : u[a + i] = t[(a + i) - a]
    BY <2>1, <2>3
  <2> QED BY <2>1, <2>2, <2>3, <2>4
<1>9. PICK z : z = x \o y
  OBVIOUS
<1>10. z \in Seq(Nat) /\ Len(z) = j + k /\ (\A i \in 1..j : z[i] = x[i]) /\ \A i \in 1..k : z[j + i] = y[i]
  <2>1. /\ z \in Seq(Nat) /\ Len(z) = j + k
        /\ \A i \in 1..Len(z) : z[i] = IF i <= j THEN x[i] ELSE y[i - j]
    BY <1>3, <1>6, <1>9, ConcatProperties
  <2>2. \A i \in 1..j : i \in 1..Len(z) /\ i <= j
    BY <2>1
  <2>3. \A i \in 1..k : j + i \in 1..Len(z) /\ ~(j + i <= j) /\ (j + i) - j = i
    BY <2>1
  <2>4. \A i \in 1..k : z[j + i] = y[(j + i) - j]
    BY <2>1, <2>3
  <2> QED BY <2>1, <2>2, <2>3, <2>4
<1>11. PICK l \in Nat, m \in Nat : l = j + k /\ m = a + b
  OBVIOUS
<1>12. l <= limit /\ l <= m /\ (l = limit \/ l = m) /\ (j = 0 \/ k = b)
  BY <1>3, <1>4, <1>6, <1>11
<1>13. ASSUME NEW i \in 1..l PROVE z[i] = u[(m - l) + i]
  <2>1. CASE i <= j
    <3>1. i \in 1..j /\ k = b /\ (a - j) + i \in 1..a /\ (m - l) + i = (a - j) + i
      BY <1>6, <1>11, <1>12, <2>1
    <3>2. z[i] = s[(a - j) + i] /\ u[(a - j) + i] = s[(a - j) + i]
      BY <1>6, <1>8, <1>10, <3>1
    <3> QED BY <3>1, <3>2
  <2>2. CASE ~(i <= j)
    <3>1. PICK h \in 1..k : i = j + h
      <4>1. i - j \in 1..k /\ i = j + (i - j)
        BY <1>11, <2>2
      <4> QED BY <4>1
    <3>2. PICK e \in 1..b : e = (b - k) + h
      BY <1>3, <3>1
    <3>3. (m - l) + i = a + e
      BY <1>11, <3>1, <3>2
    <3>4. z[i] = y[h] /\ y[h] = t[e] /\ u[a + e] = t[e]
      BY <1>3, <1>8, <1>10, <3>1, <3>2
    <3> QED BY <3>3, <3>4
  <2> QED BY <2>1, <2>2
<1>14. IsLast(z, u, limit, l)
  BY <1>8, <1>10, <1>11, <1>12, <1>13 DEF IsLast
<1>15. z = LastLines(u, limit)
  BY <1>8, <1>14, LastLinesAre
<1> QED BY <1>2, <1>3, <1>4, <1>5, <1>7, <1>9, <1>15

\* Reading with a limit yields the last of the stored lines, however the generations share them.
LEMMA ReadIsLast ==
    ASSUME NEW f \in FileType, NEW limit \in Nat, NEW L, NEW R,
           StoredBy(f, L, MaxLogFiles), ReadBy(f, limit, R, MaxLogFiles)
    PROVE  \A g \in 0..MaxLogFiles : L[g] \in Seq(Nat) /\ R[g] = LastLines(L[g], limit)
<1> DEFINE T == {g \in 0..MaxLogFiles : ~(L[g] \in Seq(Nat) /\ R[g] = LastLines(L[g], limit))}
<1> SUFFICES ASSUME T # {} PROVE FALSE
  OBVIOUS
<1>1. T \subseteq Nat
  BY StoreConstants
<1>2. PICK g \in T : \A h \in T : g <= h
  BY <1>1, LeastNumber
<1>3. g \in 0..MaxLogFiles /\ g \in Nat /\ MaxLogFiles \in Nat /\ 0 \in 0..MaxLogFiles
  BY <1>2, StoreConstants
<1>4. g # 0
  <2>1. L[0] = <<>> /\ R[0] = <<>>
    BY <1>3 DEF StoredBy, ReadBy
  <2>2. IsLast(<<>>, <<>>, limit, 0) /\ <<>> \in Seq(Nat)
    BY DEF IsLast
  <2>3. <<>> = LastLines(<<>>, limit)
    BY <2>2, LastLinesAre
  <2> QED BY <1>2, <2>1, <2>2, <2>3
<1>5. PICK b \in 0..MaxLogFiles : b = g - 1 /\ b \in Generations
  BY <1>3, <1>4, StoreConstants DEF Generations
<1>6. L[b] \in Seq(Nat) /\ R[b] = LastLines(L[b], limit) /\ f[b] \in Seq(Nat)
  <2>1. b \notin T
    BY <1>2, <1>3, <1>5
  <2> QED BY <1>5, <2>1 DEF FileType
<1>7. L[g] = f[b] \o L[b]
  BY <1>3, <1>4, <1>5 DEF StoredBy
<1>8. R[g] = LastLines(f[b], limit - Len(R[b])) \o R[b]
  BY <1>3, <1>4, <1>5 DEF ReadBy
<1>9. L[g] \in Seq(Nat)
  BY <1>6, <1>7, ConcatProperties
<1>10. R[g] = LastLines(L[g], limit)
  BY <1>6, <1>7, <1>8, LastOfBoth
<1> QED BY <1>2, <1>9, <1>10

\* Lines that are in order within and across the generations are in order when they are read.
LEMMA StoredInOrder ==
    ASSUME NEW f \in FileType, InOrder(f), NEW L, StoredBy(f, L, MaxLogFiles)
    PROVE  \A g \in 0..MaxLogFiles :
             /\ L[g] \in Seq(Nat) /\ Increasing(L[g])
             /\ \A i \in DOMAIN L[g] : \E h \in Generations : h < g /\ \E j \in DOMAIN f[h] : L[g][i] = f[h][j]
<1> DEFINE P(g) == /\ L[g] \in Seq(Nat) /\ Increasing(L[g])
                   /\ \A i \in DOMAIN L[g] : \E h \in Generations : h < g /\ \E j \in DOMAIN f[h] : L[g][i] = f[h][j]
           T == {g \in 0..MaxLogFiles : ~P(g)}
<1> SUFFICES ASSUME T # {} PROVE FALSE
  OBVIOUS
<1>1. T \subseteq Nat
  BY StoreConstants
<1>2. PICK g \in T : \A h \in T : g <= h
  BY <1>1, LeastNumber
<1>3. g \in 0..MaxLogFiles /\ g \in Nat /\ MaxLogFiles \in Nat /\ 0 \in 0..MaxLogFiles /\ ~P(g)
  BY <1>2, StoreConstants
<1>4. g # 0
  <2>1. L[0] = <<>>
    BY <1>3 DEF StoredBy
  <2>2. P(0)
    BY <2>1 DEF Increasing
  <2> QED BY <1>3, <2>2
<1>5. PICK b \in 0..MaxLogFiles : b = g - 1 /\ b \in Generations
  BY <1>3, <1>4, StoreConstants DEF Generations
<1>6. P(b)
  <2>1. b \notin T
    BY SMTT(20), <1>2, <1>3, <1>5
  <2> QED BY <1>5, <2>1
<1>7. PICK s, t, u : s = f[b] /\ t = L[b] /\ u = s \o t /\ u = L[g]
  BY <1>3, <1>4, <1>5 DEF StoredBy
<1>8. s \in Seq(Nat) /\ Increasing(s) /\ t \in Seq(Nat) /\ Increasing(t)
  BY <1>5, <1>6, <1>7 DEF FileType, InOrder
<1>9. PICK a \in Nat, c \in Nat : a = Len(s) /\ c = Len(t)
  BY <1>8
<1>10. u \in Seq(Nat) /\ Len(u) = a + c /\ \A i \in 1..Len(u) : u[i] = IF i <= a THEN s[i] ELSE t[i - a]
  <2>1. s \o t \in Seq(Nat) /\ Len(s \o t) = Len(s) + Len(t)
    BY <1>8, ConcatProperties
  <2>2. \A i \in 1..(Len(s) + Len(t)) : (s \o t)[i] = IF i <= Len(s) THEN s[i] ELSE t[i - Len(s)]
    BY <1>8, ConcatProperties
  <2> QED BY <1>7, <1>9, <2>1, <2>2
<1>11. \A i \in DOMAIN u : (i \in DOMAIN s /\ i <= a /\ u[i] = s[i]) \/ (i > a /\ i - a \in DOMAIN t /\ u[i] = t[i - a])
  <2> TAKE i \in DOMAIN u
  <2>1. i \in 1..(a + c)
    BY <1>10
  <2>2. CASE i <= a
    BY <1>8, <1>9, <1>10, <2>1, <2>2
  <2>3. CASE ~(i <= a)
    <3>1. u[i] = t[i - a] /\ i - a \in 1..c /\ i > a
      BY <1>10, <2>1, <2>3
    <3> QED BY <1>8, <1>9, <3>1
  <2> QED BY <2>2, <2>3
<1>12. ASSUME NEW i \in DOMAIN s, NEW j \in DOMAIN t PROVE s[i] < t[j]
  <2>1. PICK h \in Generations : h < b /\ \E e \in DOMAIN f[h] : t[j] = f[h][e]
    BY <1>6, <1>7, <1>12
  <2>2. PICK e \in DOMAIN f[h] : t[j] = f[h][e]
    BY <2>1
  <2> QED BY <1>5, <1>7, <1>12, <2>1, <2>2 DEF InOrder
<1>13. Increasing(u)
  <2>1. ASSUME NEW i \in DOMAIN u, NEW j \in DOMAIN u, i < j PROVE u[i] < u[j]
    <3>1. i \in Nat /\ j \in Nat
      BY <1>10
    <3>2. CASE j <= a
      <4>1. i \in DOMAIN s /\ j \in DOMAIN s /\ u[i] = s[i] /\ u[j] = s[j]
        BY <1>11, <2>1, <3>1, <3>2
      <4> QED BY <1>8, <2>1, <4>1 DEF Increasing
    <3>3. CASE i <= a /\ ~(j <= a)
      <4>1. i \in DOMAIN s /\ j - a \in DOMAIN t /\ u[i] = s[i] /\ u[j] = t[j - a]
        BY <1>11, <2>1, <3>1, <3>3
      <4> QED BY <1>12, <4>1
    <3>4. CASE ~(i <= a) /\ ~(j <= a)
      <4>1. i - a \in DOMAIN t /\ j - a \in DOMAIN t /\ u[i] = t[i - a] /\ u[j] = t[j - a] /\ i - a < j - a
        BY <1>11, <2>1, <3>1, <3>4
      <4> QED BY <1>8, <4>1 DEF Increasing
    <3>5. j <= a \/ (i <= a /\ ~(j <= a)) \/ (~(i <= a) /\ ~(j <= a))
      OBVIOUS
    <3> QED BY <3>2, <3>3, <3>4, <3>5
  <2> QED BY <2>1 DEF Increasing
<1>14. ASSUME NEW i \in DOMAIN u PROVE \E h \in Generations : h < g /\ \E j \in DOMAIN f[h] : u[i] = f[h][j]
  <2>1. CASE i \in DOMAIN s /\ u[i] = s[i]
    <3>1. b < g
      BY <1>3, <1>5
    <3> QED BY <1>5, <1>7, <2>1, <3>1
  <2>2. CASE i - a \in DOMAIN t /\ u[i] = t[i - a]
    <3>1. PICK h \in Generations : h < b /\ \E e \in DOMAIN f[h] : t[i - a] = f[h][e]
      BY <1>6, <1>7, <2>2
    <3>2. h < g
      BY <1>3, <1>5, <3>1, StoreConstants
    <3> QED BY <2>2, <3>1, <3>2
  <2> QED BY <1>11, <2>1, <2>2
<1>15. P(g)
  BY <1>7, <1>10, <1>13, <1>14
<1> QED BY <1>3, <1>15

\* Readers see what is stored in the order it was written, and with a limit the end of it.
LEMMA ReadsInOrder ==
    ASSUME StoreTypeOK, LinesInOrder PROVE ReadInWriteOrder
<1> SUFFICES ASSUME NEW p \in Processes, NEW k \in Kinds
             PROVE  /\ Increasing(existingFiles(files[p][k]))
                    /\ \A limit \in 0..MaxWrites : read(files[p][k], limit) = LastLines(existingFiles(files[p][k]), limit)
  BY DEF ReadInWriteOrder
<1>1. PICK f : f = files[p][k]
  OBVIOUS
<1>2. f \in FileType /\ InOrder(f)
  BY <1>1 DEF StoreTypeOK, FileType, LinesInOrder
<1>3. PICK L : StoredBy(f, L, MaxLogFiles) /\ existingFiles(f) = L[MaxLogFiles]
  BY ExistingFiles
<1>4. MaxLogFiles \in 0..MaxLogFiles /\ MaxWrites \in Nat
  BY StoreConstants, StoreAssumption
<1>5. Increasing(existingFiles(f))
  BY <1>2, <1>3, <1>4, StoredInOrder
<1>6. ASSUME NEW limit \in 0..MaxWrites PROVE read(f, limit) = LastLines(existingFiles(f), limit)
  <2>1. limit \in Nat
    BY <1>4
  <2>2. PICK R : ReadBy(f, limit, R, MaxLogFiles) /\ read(f, limit) = R[MaxLogFiles]
    BY ReadLines
  <2> QED BY <1>2, <1>3, <1>4, <2>1, <2>2, ReadIsLast
<1> QED BY <1>1, <1>5, <1>6

-----------------------------------------------------------------------------
StoreInv == StoreTypeOK /\ Numbered /\ Claimed /\ LinesInOrder /\ TailInv

LEMMA StoreInvariant == Spec => []StoreInv
<1>1. Init => StoreInv
  BY StoreTypeInit, NumberedInit, ClaimedInit, LinesInit DEF StoreInv
<1>2. StoreInv /\ [Next]_vars => StoreInv'
  BY StoreTypeStep, NumberedStep, ClaimedStep, LinesInOrderStep, TailStep DEF StoreInv
<1> QED BY <1>1, <1>2, PTL DEF Spec

\* No sweep of any process removes the partition of a running one; across rotations whose
\* renames fail and sweeps that take generations out of the middle, readers see what is stored
\* in the order it was written and with a limit the newest of it, and a tailer repeats nothing.
THEOREM LogsAreKeptHolds == Spec => []LogsAreKept
<1>1. StoreInv => LogsAreKept
  <2> SUFFICES ASSUME StoreInv PROVE LogsAreKept
    OBVIOUS
  <2>1. WriterKeepsItsFile
    BY DEF StoreInv, Claimed, WriterKeepsItsFile, Exists, StoreTypeOK
  <2>2. ReadInWriteOrder /\ TailFollowsInOrder
    BY ReadsInOrder DEF StoreInv, TailInv
  <2> QED BY <2>1, <2>2 DEF LogsAreKept
<1> QED BY <1>1, StoreInvariant, PTL

-----------------------------------------------------------------------------
(* A partition keeps to its limits.                                        *)

LEMMA ReadersStay ==
    ASSUME StoreTypeOK, [Next]_vars PROVE readers' = readers /\ alive' \subseteq alive
  BY ZenonT(40) DEF Next, ensurePartitionDirectory, appendLog, appendTrace, omitTrace, register, appendSummary, AppendLine, Enforce,
     dropExpiredPartitions, dropAbandonedPartitions, trimFiles, SweepStep, Die, tail, drain, vars

\* A file that is full is rotated before a line is appended to it.
LEMMA AppendBounded ==
    ASSUME StoreTypeOK, NEW p \in Processes, NEW k \in Kinds, NEW n \in Nat, NEW F, NEW now,
           AppendedWith(p, k, n, F, now), ~readers, FileBounded(p, k), ensured[p] # {}, ensured' = ensured
    PROVE  FileBounded(p, k)'
<1>1. PICK f \in FileType : f = files[p][k]
  BY KnownType
<1>2. F = {} /\ now = (IF Full(p, k) THEN rotate(f, F) ELSE f) /\ now \in FileType
  BY <1>1 DEF AppendedWith
<1>3. PICK new \in FileType : new = Appended(now, n) /\ files'[p][k] = new
  BY KnownType DEF AppendedWith, StoreTypeOK
<1>4. \A g \in Generations : Len(f[g]) <= MaxLogFileSize /\ Len(f[g]) \in Nat
  BY <1>1 DEF FileBounded, FileType
<1>5. MaxLogFileSize \in Nat \ {0} /\ 0 \in Generations
  BY StoreConstants
<1>6. Known(p, k) = Len(f[0])
  BY <1>1 DEF Known, FileBounded
<1>7. \A g \in Generations : Len(now[g]) <= MaxLogFileSize
  <2>1. CASE Full(p, k)
    <3> TAKE g \in Generations
    <3>1. now[g] = IF g > 0 /\ g - 1 \notin F /\ f[g - 1] # Missing THEN f[g - 1] ELSE IF g \in F THEN f[g] ELSE Missing
      BY <1>2, <2>1 DEF rotate
    <3>2. now[g] = <<>> \/ (g > 0 /\ now[g] = f[g - 1])
      BY <1>2, <3>1 DEF Missing
    <3>3. g > 0 => g - 1 \in Generations
      BY StoreConstants DEF Generations
    <3>4. Len(<<>>) <= MaxLogFileSize
      BY <1>5
    <3> QED BY <1>4, <3>2, <3>3, <3>4
  <2>2. CASE ~Full(p, k)
    BY <1>2, <1>4, <2>2
  <2> QED BY <2>1, <2>2
<1>8. PICK m \in Nat : m = Len(now[0]) /\ m + 1 <= MaxLogFileSize /\ m = IF Full(p, k) THEN 0 ELSE Known(p, k)
  <2>1. CASE Full(p, k)
    <3>1. now[0] = <<>>
      BY <1>2, <1>5, <2>1, StoreConstants DEF rotate, Missing
    <3> QED BY <1>5, <2>1, <3>1
  <2>2. CASE ~Full(p, k)
    <3>1. now[0] = f[0] /\ Len(f[0]) \in Nat
      BY <1>2, <1>4, <1>5, <2>2
    <3>2. Len(f[0]) + 1 <= MaxLogFileSize
      BY <1>5, <1>6, <2>2, <3>1 DEF Full
    <3> QED BY <1>6, <2>2, <3>1, <3>2
  <2> QED BY <2>1, <2>2
<1>9. Len(new[0]) = m + 1 /\ \A g \in Generations : g # 0 => new[g] = now[g]
  <2>1. now[0] \in Seq(Nat)
    BY <1>2, <1>5 DEF FileType
  <2>2. new[0] = Append(now[0], n)
    BY <1>2, <1>3, <1>5 DEF Appended, FileType
  <2>3. \A g \in Generations : g # 0 => new[g] = now[g]
    BY <1>2, <1>3 DEF Appended, FileType
  <2>4. PICK live \in Seq(Nat) : live = now[0]
    BY <2>1
  <2>5. Len(Append(live, n)) = Len(live) + 1
    BY AppendProperties
  <2> QED BY <1>8, <2>2, <2>3, <2>4, <2>5
<1>10. size'[p][k] = m + 1
  BY <1>8, KnownType DEF AppendedWith, StoreTypeOK
<1>11. \A g \in Generations : Len(new[g]) <= MaxLogFileSize
  BY <1>7, <1>8, <1>9
<1> QED BY <1>3, <1>9, <1>10, <1>11 DEF FileBounded

\* Who appends has a partition.
LEMMA AppenderExists ==
    ASSUME StoreTypeOK, Claimed, NEW p \in Processes, appendLog(p) \/ omitTrace(p) \/ appendSummary(p) \/ appendTrace(p)
    PROVE  p \in alive /\ Exists(p) /\ ensured[p] # {} /\ ~Unregistered(p)
<1>1. p \in alive /\ ensured[p] # {} /\ pc[p] \in {"idle", "log", "trace", "summary"}
  BY DEF appendLog, omitTrace, appendSummary, appendTrace, Appending, Claimed
<1> QED BY <1>1 DEF Claimed, Exists, Unregistered, SweepLabels

LEMMA FilesInvStep ==
    ASSUME StoreTypeOK, Numbered, Claimed, FilesInv, [Next]_vars PROVE FilesInv'
<1> SUFFICES ASSUME ~readers, NEW q \in alive', NEW k \in Kinds PROVE FileBounded(q, k)'
  BY ReadersStay DEF FilesInv
<1>1. q \in Processes /\ q \in alive /\ FileBounded(q, k)
  BY ReadersStay DEF StoreTypeOK, FilesInv
<1>2. MaxLogFileSize \in Nat /\ 0 \in Generations
  BY StoreConstants
<1>3. ASSUME \A g \in Generations : files'[q][k][g] \in {files[q][k][g], <<>>},
             size'[q][k] = size[q][k], ensured[q] # {} => ensured'[q] # {},
             files'[q][k][0] = files[q][k][0] \/ size[q][k] = Unset
      PROVE  FileBounded(q, k)'
  <2>1. Len(<<>>) <= MaxLogFileSize
    BY <1>2
  <2>2. \A g \in Generations : Len(files'[q][k][g]) <= MaxLogFileSize
    BY <1>1, <1>3, <2>1 DEF FileBounded
  <2> QED BY <1>1, <1>3, <2>2 DEF FileBounded
<1>4. ASSUME NEW p \in Processes, appendLog(p) \/ omitTrace(p) \/ appendSummary(p) PROVE FileBounded(q, k)'
  <2>1. PICK kind \in Kinds, n \in Nat : AppendLine(p, kind, n)
    BY <1>4 DEF appendLog, omitTrace, appendSummary, StoreTypeOK, Kinds
  <2>2. Exists(p) /\ ensured[p] # {}
    BY <1>4, AppenderExists
  <2>3. PICK F, now : AppendedWith(p, kind, n, F, now)
    BY <2>1, <2>2, AppendLineFacts
  <2>4. ensured' = ensured
    BY <2>1 DEF AppendLine
  <2>5. CASE q = p /\ k = kind
    BY <1>1, <2>2, <2>3, <2>4, <2>5, AppendBounded
  <2>6. CASE ~(q = p /\ k = kind)
    <3>1. files'[q][k] = files[q][k] /\ size'[q][k] = size[q][k]
      BY <1>1, <2>3, <2>6, KnownType DEF AppendedWith, StoreTypeOK
    <3> QED BY <1>3, <2>4, <3>1
  <2> QED BY <2>5, <2>6
<1>5. ASSUME NEW p \in Processes, Enforce(p) PROVE FileBounded(q, k)'
  <2>1. size' = size /\ ensured' = ensured
    BY <1>5 DEF Enforce, dropExpiredPartitions, dropAbandonedPartitions, trimFiles, SweepStep
  <2>2. CASE dropExpiredPartitions(p) \/ dropAbandonedPartitions(p)
    <3>1. PICK Q : remove(Q) /\ \A r \in Q : r \in alive => ensured[r] = {}
      BY <2>2, RemovedIsNotLive
    <3>2. CASE q \in Q
      <4>1. size[q][k] = Unset
        BY <1>1, <3>1, <3>2 DEF FileBounded
      <4>2. \A g \in Generations : files'[q][k][g] = <<>>
        BY <1>1, <3>1, <3>2, NoFilesType DEF remove
      <4> QED BY <1>3, <2>1, <4>1, <4>2
    <3>3. CASE q \notin Q
      <4>1. files'[q] = files[q]
        BY <1>1, <3>1, <3>3 DEF remove
      <4> QED BY <1>3, <2>1, <4>1
    <3> QED BY <3>2, <3>3
  <2>3. CASE trimFiles(p)
    <3>1. PICK gone : DeletesOf(p, gone) /\ gone \subseteq sweep[p].candidates
      BY <2>3, TrimFacts
    <3>2. gone \subseteq Candidates
      BY <3>1 DEF StoreTypeOK, Sweeps
    <3>3. \A c \in gone : c.file # <<k, 0>>
      <4>1. k # "traces"
        BY DEF Kinds
      <4> QED BY <3>2, <4>1 DEF Candidates
    <3>4. files'[q][k][0] = files[q][k][0] /\ \A g \in Generations : files'[q][k][g] \in {files[q][k][g], <<>>}
      BY <1>1, <1>2, <3>1, <3>3 DEF DeletesOf, Missing
    <3> QED BY <1>3, <2>1, <3>4
  <2> QED BY <1>5, <2>2, <2>3 DEF Enforce
<1>6. ASSUME NEW p \in Processes, \E store \in Stores : ensurePartitionDirectory(p, store) PROVE FileBounded(q, k)'
  <2>1. files' = files /\ size' = size /\ (ensured[q] # {} => ensured'[q] # {})
    BY <1>1, <1>6 DEF ensurePartitionDirectory, StoreTypeOK
  <2> QED BY <1>3, <2>1
<1>7. ASSUME NEW p \in Processes, appendTrace(p) \/ register(p) PROVE FileBounded(q, k)'
  <2>1. files' = files /\ size' = size /\ ensured' = ensured
    BY <1>7 DEF appendTrace, register
  <2> QED BY <1>3, <2>1
<1>8. ASSUME NEW p \in Processes, Die(p) PROVE FileBounded(q, k)'
  <2>1. q # p
    BY <1>8 DEF Die
  <2>2. files' = files /\ size'[q] = size[q] /\ ensured'[q] = ensured[q]
    BY <1>1, <1>8, <2>1 DEF Die, storeVars, StoreTypeOK
  <2> QED BY <1>3, <2>2
<1>9. ASSUME tail \/ drain \/ UNCHANGED vars PROVE FileBounded(q, k)'
  <2>1. files' = files /\ size' = size /\ ensured' = ensured
    BY <1>9 DEF tail, drain, vars, storeVars, ownVars
  <2> QED BY <1>3, <2>1
<1> QED BY <1>4, <1>5, <1>6, <1>7, <1>8, <1>9 DEF Next

\* Of the files register() knows it keeps as many as may be.
LEMMA NewestAreFew ==
    ASSUME NEW S \in SUBSET Nat, IsFiniteSet(S), NEW M \in Nat \ {0}
    PROVE  Cardinality(S \ {n \in S : Cardinality({m \in S : m > n}) >= M}) <= M
<1> DEFINE Later(n) == {m \in S : m > n}
           K == S \ {n \in S : Cardinality(Later(n)) >= M}
<1> SUFFICES Cardinality(K) <= M
  OBVIOUS
<1>0. K \subseteq S /\ K \subseteq Nat /\ \A n \in K : ~(Cardinality(Later(n)) >= M)
  OBVIOUS
<1> HIDE DEF K
<1>1. CASE K = {}
  <2>1. Cardinality({}) = 0
    BY FS_EmptySet
  <2> QED BY <1>1, <2>1
<1>2. CASE K # {}
  <2>1. PICK n \in K : \A m \in K : n <= m
    BY <1>0, <1>2, LeastNumber
  <2>2. IsFiniteSet(K) /\ IsFiniteSet(Later(n)) /\ IsFiniteSet(K \ {n})
    <3>1. IsFiniteSet(K) /\ IsFiniteSet(Later(n))
      BY <1>0, FS_Subset
    <3> QED BY <3>1, FS_RemoveElement
  <2>3. ASSUME NEW m \in K, m # n PROVE m \in Later(n)
    <3>1. m \in Nat /\ n \in Nat /\ n <= m /\ m # n
      BY <1>0, <2>1, <2>3
    <3>2. m > n
      BY <3>1
    <3> QED BY <1>0, <3>2
  <2>4. K \ {n} \subseteq Later(n)
    BY <2>3
  <2>5. ~(Cardinality(Later(n)) >= M)
    BY <1>0
  <2> HIDE DEF Later
  <2>6. Cardinality(Later(n)) \in Nat /\ Cardinality(K \ {n}) \in Nat /\ Cardinality(K) \in Nat
    BY <2>2, FS_CardinalityType
  <2>7. Cardinality(K \ {n}) <= Cardinality(Later(n))
    BY <2>2, <2>4, FS_Subset
  <2>8. Cardinality(K \ {n}) = Cardinality(K) - 1
    BY <2>2, FS_RemoveElement
  <2> QED BY <2>5, <2>6, <2>7, <2>8
<1> QED BY <1>1, <1>2

LEMMA NumbersAreFinite ==
    ASSUME StoreTypeOK, Numbered, NEW q \in Processes
    PROVE  /\ tracesOf(q) \subseteq 1..written /\ IsFiniteSet(tracesOf(q)) /\ IsFiniteSet(Registered(q))
           /\ Listing(q) \subseteq 1..written /\ IsFiniteSet(Listing(q)) /\ 1..written \subseteq Nat
<1>1. tracesOf(q) \subseteq 1..written /\ Listing(q) \subseteq 1..written /\ Registered(q) \subseteq 1..written /\ written \in Nat
  BY DEF tracesOf, Listing, Registered, Numbered, StoreTypeOK
<1>2. IsFiniteSet(1..written) /\ 1..written \subseteq Nat
  BY <1>1, FS_Interval
<1> QED BY <1>1, <1>2, FS_Subset

\* register() deletes what the limit leaves no room for, whatever it knew.
LEMMA RegisterBounded ==
    ASSUME StoreTypeOK, Numbered, NEW p \in Processes, register(p), ~readers, TracesBounded(p)
    PROVE  TracesBounded(p)'
<1>1. PICK all, stale : /\ all = Listing(p) \cup {item[p]}
                        /\ stale = {n \in all : Cardinality({m \in all : m > n}) >= MaxTraceFiles}
                        /\ retained' = [retained EXCEPT ![p] = all \ stale]
                        /\ traces' = IF traces[p] = NoDirectory THEN traces ELSE [traces EXCEPT ![p] = traces[p] \ stale]
  <2>1. PICK all : all = Listing(p) \cup {item[p]}
    OBVIOUS
  <2>2. PICK stale : stale = {n \in all : Cardinality({m \in all : m > n}) >= MaxTraceFiles}
    OBVIOUS
  <2>3. retained' = [retained EXCEPT ![p] = all \ stale]
    BY <2>1, <2>2 DEF register
  <2>4. \E kept \in {{}} : traces' = IF traces[p] = NoDirectory THEN traces
                                     ELSE [traces EXCEPT ![p] = @ \ (stale \ kept)]
    BY <2>1, <2>2 DEF register
  <2>5. stale \ {} = stale
    OBVIOUS
  <2>6. traces' = IF traces[p] = NoDirectory THEN traces ELSE [traces EXCEPT ![p] = traces[p] \ stale]
    BY <2>4, <2>5
  <2> QED BY <2>1, <2>2, <2>3, <2>6
<1>2. Unregistered(p) /\ ~Unregistered(p)' /\ item[p] \in 1..written
  BY DEF register, Unregistered, Unsummarised, GoesTo, StoreTypeOK, SweepLabels, Numbered
<1>3. tracesOf(p) \subseteq all
  <2>1. Registered(p) = tracesOf(p) \ {item[p]}
    BY <1>2 DEF Registered
  <2>2. CASE retained[p] # Unlisted
    BY <1>1, <2>1, <2>2 DEF TracesBounded, Listing
  <2>3. CASE retained[p] = Unlisted
    BY <1>1, <2>3 DEF Listing
  <2> QED BY <2>2, <2>3
<1>4. IsFiniteSet(all) /\ all \in SUBSET Nat
  BY <1>1, <1>2, NumbersAreFinite, FS_AddElement
<1>5. Cardinality(all \ stale) <= MaxTraceFiles /\ IsFiniteSet(all \ stale)
  <2>1. IsFiniteSet(all \ stale)
    BY <1>4, FS_Subset
  <2> QED BY <1>1, <1>4, <2>1, NewestAreFew, StoreConstants
<1>6. retained'[p] = all \ stale
  BY <1>1 DEF StoreTypeOK
<1>7. Registered(p)' \subseteq all \ stale
  <2>1. Registered(p)' = tracesOf(p)'
    BY <1>2 DEF Registered
  <2>2. CASE traces[p] = NoDirectory
    BY <1>1, <2>1, <2>2 DEF tracesOf
  <2>3. CASE traces[p] # NoDirectory
    <3>1. traces'[p] = traces[p] \ stale
      BY <1>1, <2>3 DEF StoreTypeOK
    <3>2. tracesOf(p)' \subseteq traces[p] \ stale /\ tracesOf(p) = traces[p]
      BY <2>3, <3>1 DEF tracesOf
    <3> QED BY <1>3, <2>1, <3>2
  <2> QED BY <2>2, <2>3
<1>8. Cardinality(Registered(p)') <= MaxTraceFiles
  <2>1. PICK R : R = Registered(p)'
    OBVIOUS
  <2>2. IsFiniteSet(R) /\ Cardinality(R) <= Cardinality(all \ stale)
    BY <1>5, <1>7, <2>1, FS_Subset
  <2>3. Cardinality(R) \in Nat /\ Cardinality(all \ stale) \in Nat /\ MaxTraceFiles \in Nat
    BY <1>5, <2>2, FS_CardinalityType, StoreConstants
  <2> QED BY <1>5, <2>1, <2>2, <2>3
<1> QED BY <1>5, <1>6, <1>7, <1>8 DEF TracesBounded

\* A process that is between a trace and its registration remains so during its sweeps.
LEMMA StillUnregistered ==
    ASSUME StoreTypeOK, NEW p \in Processes, Enforce(p), NEW q \in Processes
    PROVE  (Unregistered(q)' <=> Unregistered(q)) /\ item'[q] = item[q]
<1>1. item' = item /\ pc[p] \in SweepLabels
  BY DEF Enforce, dropExpiredPartitions, dropAbandonedPartitions, trimFiles, SweepStep, SweepLabels
<1>2. \/ Finish(p)
      \/ \E label \in SweepLabels : pc' = [pc EXCEPT ![p] = label] /\ after' = after
  BY DEF Enforce, dropExpiredPartitions, dropAbandonedPartitions, trimFiles, GoesTo, SweepLabels
<1>3. CASE Finish(p)
  BY <1>1, <1>3 DEF Finish, GoesTo, StoreTypeOK, Unregistered, SweepLabels
<1>4. CASE \E label \in SweepLabels : pc' = [pc EXCEPT ![p] = label] /\ after' = after
  BY <1>1, <1>4 DEF StoreTypeOK, Unregistered, SweepLabels
<1> QED BY <1>2, <1>3, <1>4

LEMMA TracesInvStep ==
    ASSUME StoreTypeOK, Numbered, Claimed, TracesInv, [Next]_vars PROVE TracesInv'
<1> SUFFICES ASSUME ~readers, NEW q \in alive' PROVE TracesBounded(q)'
  BY ReadersStay DEF TracesInv
<1>1. q \in Processes /\ q \in alive /\ TracesBounded(q)
  BY ReadersStay DEF StoreTypeOK, TracesInv
<1>2. ASSUME Registered(q)' \subseteq Registered(q), retained'[q] \in {retained[q], Unlisted}
      PROVE  TracesBounded(q)'
  <2>1. PICK old, new : old = Registered(q) /\ new = Registered(q)'
    OBVIOUS
  <2>2. IsFiniteSet(old) /\ IsFiniteSet(new) /\ Cardinality(new) <= Cardinality(old)
    BY <1>1, <1>2, <2>1, NumbersAreFinite, FS_Subset
  <2>3. Cardinality(new) \in Nat /\ Cardinality(old) \in Nat /\ MaxTraceFiles \in Nat /\ Cardinality(old) <= MaxTraceFiles
    BY <1>1, <2>1, <2>2, FS_CardinalityType, StoreConstants DEF TracesBounded
  <2>4. Cardinality(Registered(q)') <= MaxTraceFiles
    BY <2>1, <2>2, <2>3
  <2> QED BY <1>1, <1>2, <2>4 DEF TracesBounded
<1>3. ASSUME tracesOf(q)' \subseteq tracesOf(q), Unregistered(q) => Unregistered(q)' /\ item'[q] = item[q]
      PROVE  Registered(q)' \subseteq Registered(q)
  BY <1>3 DEF Registered
<1>4. ASSUME traces'[q] = traces[q] PROVE tracesOf(q)' = tracesOf(q)
  BY <1>4 DEF tracesOf
<1>5. ASSUME NEW p \in Processes, appendLog(p) \/ omitTrace(p) \/ appendSummary(p) PROVE TracesBounded(q)'
  <2>1. PICK kind \in Kinds, n \in Nat : AppendLine(p, kind, n)
    BY <1>5 DEF appendLog, omitTrace, appendSummary, StoreTypeOK, Kinds
  <2>2. traces' = traces /\ retained' = retained
    BY <2>1 DEF AppendLine
  <2>3. q # p => (Unregistered(q) => Unregistered(q)') /\ item'[q] = item[q]
    BY <1>1, <2>1, AppendLineEnds DEF Unregistered
  <2>4. q = p => ~Unregistered(q)
    BY <1>5, AppenderExists
  <2> QED BY <1>2, <1>3, <1>4, <2>2, <2>3, <2>4
<1>6. ASSUME NEW p \in Processes, appendTrace(p) PROVE TracesBounded(q)'
  <2>1. retained' = retained
    BY <1>6 DEF appendTrace
  <2>2. CASE q # p
    <3>1. traces'[q] = traces[q] /\ item'[q] = item[q] /\ pc'[q] = pc[q] /\ after'[q] = after[q]
      BY <1>1, <1>6, <2>2 DEF appendTrace, recordBytes, GoesTo, StoreTypeOK
    <3>2. Unregistered(q) => Unregistered(q)'
      BY <3>1 DEF Unregistered
    <3> QED BY <1>2, <1>3, <1>4, <2>1, <3>1, <3>2
  <2>3. CASE q = p /\ traces[p] = NoDirectory
    <3>1. traces' = traces /\ ~Unregistered(q)
      BY <1>6, <2>3, AppenderExists DEF appendTrace
    <3> QED BY <1>2, <1>3, <1>4, <2>1, <3>1
  <2>4. CASE q = p /\ traces[p] # NoDirectory
    <3>1. recordBytes(p, FALSE, "register") /\ item'[p] = written + 1 /\ traces'[p] = traces[p] \cup {written + 1}
      BY <1>6, <2>4 DEF appendTrace, StoreTypeOK
    <3>2. Unregistered(p)' /\ ~Unregistered(p)
      <4>1. \/ pc' = [pc EXCEPT ![p] = "sweep"] /\ after' = [after EXCEPT ![p] = "register"]
            \/ pc' = [pc EXCEPT ![p] = "register"] /\ after' = after
        BY <3>1, RecordBytesType
      <4> QED BY <1>6, <4>1, AppenderExists DEF StoreTypeOK, Unregistered, SweepLabels
    <3>3. Registered(p)' \subseteq Registered(p)
      BY <2>4, <3>1, <3>2 DEF Registered, tracesOf
    <3> QED BY <1>2, <2>1, <2>4, <3>3
  <2> QED BY <2>2, <2>3, <2>4
<1>7. ASSUME NEW p \in Processes, register(p) PROVE TracesBounded(q)'
  <2>1. CASE q = p
    BY <1>1, <1>7, <2>1, RegisterBounded
  <2>2. CASE q # p
    <3>1. traces'[q] = traces[q] /\ retained'[q] = retained[q] /\ item' = item /\ after' = after /\ pc'[q] = pc[q]
      BY <1>1, <1>7, <2>2 DEF register, GoesTo, StoreTypeOK
    <3>2. Unregistered(q) => Unregistered(q)'
      BY <3>1 DEF Unregistered
    <3> QED BY <1>2, <1>3, <1>4, <3>1, <3>2
  <2> QED BY <2>1, <2>2
<1>8. ASSUME NEW p \in Processes, Enforce(p) PROVE TracesBounded(q)'
  <2>1. tracesOf(q)' \subseteq tracesOf(q) /\ retained'[q] \in {retained[q], Unlisted}
    <3>1. CASE dropExpiredPartitions(p) \/ dropAbandonedPartitions(p)
      <4>1. retained' = retained /\ \E Q : remove(Q)
        BY <3>1 DEF dropExpiredPartitions, dropAbandonedPartitions
      <4>2. traces'[q] \in {traces[q], NoDirectory}
        BY <1>1, <4>1 DEF remove
      <4> QED BY <4>1, <4>2 DEF tracesOf
    <3>2. CASE trimFiles(p)
      <4>1. PICK gone : DeletesOf(p, gone)
        BY <3>2, TrimFacts
      <4>2. retained'[q] \in {retained[q], Unlisted}
        BY <1>1, <4>1 DEF DeletesOf, StoreTypeOK
      <4>3. (traces[q] = NoDirectory => traces'[q] = NoDirectory) /\ (traces[q] # NoDirectory => traces'[q] \subseteq traces[q])
        BY <1>1, <4>1 DEF DeletesOf
      <4> QED BY <4>2, <4>3 DEF tracesOf
    <3> QED BY <1>8, <3>1, <3>2 DEF Enforce
  <2> QED BY <1>1, <1>2, <1>3, <1>8, <2>1, StillUnregistered
<1>9. ASSUME NEW p \in Processes, \E store \in Stores : ensurePartitionDirectory(p, store) PROVE TracesBounded(q)'
  <2>1. retained' = retained /\ item' = item /\ traces'[q] \in {traces[q], {}}
    BY <1>1, <1>9 DEF ensurePartitionDirectory, StoreTypeOK
  <2>2. Unregistered(q) => Unregistered(q)'
    BY <1>1, <1>9 DEF ensurePartitionDirectory, GoesTo, Unregistered, SweepLabels, StoreTypeOK
  <2>3. tracesOf(q)' \subseteq tracesOf(q)
    BY <2>1 DEF tracesOf
  <2> QED BY <1>2, <1>3, <2>1, <2>2, <2>3
<1>10. ASSUME NEW p \in Processes, Die(p) PROVE TracesBounded(q)'
  <2>1. q # p
    BY <1>10 DEF Die
  <2>2. traces' = traces /\ retained'[q] = retained[q] /\ item'[q] = item[q] /\ pc'[q] = pc[q] /\ after'[q] = after[q]
    BY <1>1, <1>10, <2>1 DEF Die, GoesTo, storeVars, StoreTypeOK
  <2>3. Unregistered(q) => Unregistered(q)'
    BY <2>2 DEF Unregistered
  <2> QED BY <1>2, <1>3, <1>4, <2>2, <2>3
<1>11. ASSUME tail \/ drain \/ UNCHANGED vars PROVE TracesBounded(q)'
  <2>1. traces' = traces /\ retained' = retained /\ item' = item /\ pc' = pc /\ after' = after
    BY <1>11 DEF tail, drain, vars, storeVars, ownVars
  <2>2. Unregistered(q) => Unregistered(q)'
    BY <2>1 DEF Unregistered
  <2> QED BY <1>2, <1>3, <1>4, <2>1, <2>2
<1> QED BY <1>5, <1>6, <1>7, <1>8, <1>9, <1>10, <1>11 DEF Next

LEMMA BoundedInit == Init => FilesInv /\ TracesInv
<1> SUFFICES ASSUME Init PROVE FilesInv /\ TracesInv
  OBVIOUS
<1>1. \A p \in Processes, k \in Kinds : size[p][k] = Unset /\ \A g \in Generations : files[p][k][g] = <<>>
  BY NoFilesType DEF Init
<1>2. Len(<<>>) <= MaxLogFileSize /\ Cardinality({}) <= MaxTraceFiles
  BY StoreConstants, FS_EmptySet
<1>3. \A p \in Processes : Registered(p) = {} /\ retained[p] = Unlisted
  BY DEF Init, Registered, tracesOf, Unlisted
<1>4. alive = Processes
  BY DEF Init
<1> QED BY ZenonT(40), <1>1, <1>2, <1>3, <1>4 DEF FilesInv, TracesInv, FileBounded, TracesBounded

\* The limits of a partition, as the property states them.
LEMMA BoundedFromInv ==
    ASSUME StoreTypeOK, FilesInv, TracesInv PROVE PartitionIsBounded
<1> SUFFICES ASSUME ~readers, NEW p \in alive
             PROVE  /\ \A k \in Kinds, g \in Generations : Len(files[p][k][g]) <= MaxLogFileSize
                    /\ pc[p] = "idle" /\ traces[p] # NoDirectory => Cardinality(traces[p]) <= MaxTraceFiles
  BY DEF PartitionIsBounded
<1>1. ASSUME pc[p] = "idle", traces[p] # NoDirectory PROVE Cardinality(traces[p]) <= MaxTraceFiles
  <2>1. Registered(p) = traces[p]
    BY <1>1 DEF Registered, Unregistered, SweepLabels, tracesOf
  <2> QED BY <2>1 DEF TracesInv, TracesBounded
<1> QED BY <1>1 DEF FilesInv, FileBounded

-----------------------------------------------------------------------------
(* A sweep that nobody disturbs.                                           *)

LEMMA TouchedOrdered ==
    ASSUME NEW T, Ordered(newer), newer \subseteq partitions \X partitions, partitions \subseteq Processes
    PROVE  Ordered(Touched(T)) /\ Touched(T) \subseteq (partitions \cup T) \X (partitions \cup T)
<1>1. \A e \in Touched(T) : e[1] # e[2]
  BY DEF Ordered, Touched
<1>2. ASSUME NEW p \in Processes, NEW q \in Processes, NEW r \in Processes, <<p, q>> \in Touched(T), <<q, r>> \in Touched(T)
      PROVE  <<p, r>> \in Touched(T)
  <2>1. /\ (<<p, q>> \in newer /\ (p \in T <=> q \in T)) \/ (p \in T /\ q \in partitions \ T)
        /\ (<<q, r>> \in newer /\ (q \in T <=> r \in T)) \/ (q \in T /\ r \in partitions \ T)
    BY <1>2 DEF Touched
  <2>2. <<p, r>> \in newer /\ (p \in T <=> r \in T) => <<p, r>> \in Touched(T)
    BY DEF Touched
  <2>3. p \in T /\ r \in partitions \ T => <<p, r>> \in Touched(T)
    BY DEF Touched
  <2>4. <<q, r>> \in newer => r \in partitions
    OBVIOUS
  <2>5. <<p, q>> \in newer /\ <<q, r>> \in newer => <<p, r>> \in newer
    BY DEF Ordered
  <2> QED BY <2>1, <2>2, <2>3, <2>4, <2>5
<1>3. Touched(T) \subseteq (partitions \cup T) \X (partitions \cup T)
  BY DEF Touched
<1> QED BY <1>1, <1>2, <1>3 DEF Ordered

LEMMA RemoveOrdered ==
    ASSUME NEW Q, remove(Q), OrderInv
    PROVE  Ordered(newer)' /\ newer' \subseteq partitions' \X partitions'
<1>1. newer' = {e \in newer : e[1] \notin Q /\ e[2] \notin Q} /\ partitions' = partitions \ Q
  BY DEF remove
<1>2. newer' \subseteq partitions' \X partitions'
  BY <1>1 DEF OrderInv
<1>3. Ordered(newer')
  BY <1>1 DEF OrderInv, Ordered
<1> QED BY <1>2, <1>3 DEF Ordered

LEMMA EmptyOrdered == Ordered({}) /\ Ordered(NoSweep.order)
  BY DEF Ordered, NoSweep

LEMMA OrderInit == Init => OrderInv /\ AloneInv
  BY EmptyOrdered DEF Init, OrderInv, AloneInv

LEMMA OrderStep ==
    ASSUME StoreTypeOK, Claimed, OrderInv, [Next]_vars PROVE OrderInv'
<1>0. partitions \subseteq Processes /\ Ordered(newer) /\ newer \subseteq partitions \X partitions
  BY DEF OrderInv, StoreTypeOK
<1>1. ASSUME newer' = newer, partitions \subseteq partitions', NEW p \in Processes,
             sweep' = sweep \/ sweep' = [sweep EXCEPT ![p] = NoSweep]
      PROVE  OrderInv'
  <2>1. \A q \in Processes : Ordered(sweep'[q].order)
    BY <1>1, EmptyOrdered DEF OrderInv, StoreTypeOK
  <2>2. newer' \subseteq partitions' \X partitions'
    BY <1>0, <1>1
  <2>3. Ordered(newer')
    BY <1>0, <1>1
  <2> QED BY <2>1, <2>2, <2>3 DEF OrderInv, Ordered
<1>2. ASSUME NEW T, newer' = Touched(T), partitions \cup T \subseteq partitions', NEW p \in Processes,
             sweep' = sweep \/ sweep' = [sweep EXCEPT ![p] = NoSweep]
      PROVE  OrderInv'
  <2>1. \A q \in Processes : Ordered(sweep'[q].order)
    BY <1>2, EmptyOrdered DEF OrderInv, StoreTypeOK
  <2>2. Ordered(newer') /\ newer' \subseteq (partitions \cup T) \X (partitions \cup T)
    BY <1>0, <1>2, TouchedOrdered
  <2>3. newer' \subseteq partitions' \X partitions'
    BY <1>2, <2>2
  <2> QED BY <2>1, <2>2, <2>3 DEF OrderInv, Ordered
<1>3. ASSUME NEW p \in Processes, \E store \in Stores : ensurePartitionDirectory(p, store) PROVE OrderInv'
  <2>1. partitions' = partitions \cup {p} /\ sweep' = sweep /\ newer' \in {newer, Touched({p})}
    BY <1>3 DEF ensurePartitionDirectory
  <2> QED BY <1>1, <1>2, <2>1
<1>4. ASSUME NEW p \in Processes, appendLog(p) \/ omitTrace(p) \/ appendSummary(p) PROVE OrderInv'
  <2>1. PICK kind \in Kinds, n \in Nat : AppendLine(p, kind, n)
    BY <1>4 DEF appendLog, omitTrace, appendSummary, StoreTypeOK, Kinds
  <2>2. Exists(p)
    BY <1>4, AppenderExists
  <2>3. newer' \in {newer, Touched({p})}
    BY <2>1, <2>2, AppendLineFacts DEF AppendedWith
  <2>4. partitions' = partitions /\ sweep' = sweep /\ {p} \subseteq partitions
    BY <2>1, <2>2 DEF AppendLine, Exists
  <2> QED BY <1>1, <1>2, <2>3, <2>4
<1>5. ASSUME NEW p \in Processes, appendTrace(p) \/ register(p) PROVE OrderInv'
  BY <1>1, <1>5 DEF appendTrace, register
<1>6. ASSUME NEW p \in Processes, dropExpiredPartitions(p) \/ dropAbandonedPartitions(p) PROVE OrderInv'
  <2>1. Ordered(newer)' /\ newer' \subseteq partitions' \X partitions'
    BY <1>6, RemoveOrdered DEF dropExpiredPartitions, dropAbandonedPartitions
  <2>0. ASSUME Finish(p) PROVE \E s : sweep' = [sweep EXCEPT ![p] = s] /\ s.order = {}
    <3>1. sweep' = [sweep EXCEPT ![p] = NoSweep] /\ NoSweep.order = {}
      BY <2>0 DEF Finish, NoSweep
    <3> QED BY <3>1
  <2>2. \E s : sweep' = [sweep EXCEPT ![p] = s] /\ (s.order = newer' \/ s.order = {})
    <3>1. CASE dropExpiredPartitions(p)
      <4>1. Finish(p) \/ \E o, t : sweep' = [sweep EXCEPT ![p] = [survivors |-> o, order |-> newer', total |-> t, candidates |-> {}]]
        BY <3>1, ExpiredFacts
      <4>2. \A o, t : [survivors |-> o, order |-> newer', total |-> t, candidates |-> {}].order = newer'
        OBVIOUS
      <4> QED BY <2>0, <4>1, <4>2
    <3>2. CASE dropAbandonedPartitions(p)
      <4>1. Finish(p) \/ \E t, c : sweep' = [sweep EXCEPT ![p] = [survivors |-> {}, order |-> {}, total |-> t, candidates |-> c]]
        BY <3>2, AbandonedFacts
      <4>2. \A t, c : [survivors |-> {}, order |-> {}, total |-> t, candidates |-> c].order = {}
        OBVIOUS
      <4> QED BY <2>0, <4>1, <4>2
    <3> QED BY <1>6, <3>1, <3>2
  <2>3. Ordered(newer')
    BY <2>1 DEF Ordered
  <2>4. \A q \in Processes : Ordered(sweep'[q].order)
    BY <2>2, <2>3, EmptyOrdered DEF OrderInv, StoreTypeOK
  <2> QED BY <2>1, <2>3, <2>4 DEF OrderInv, Ordered
<1>7. ASSUME NEW p \in Processes, trimFiles(p) PROVE OrderInv'
  <2>1. PICK T : newer' = Touched(T) /\ T \subseteq partitions
    BY <1>7 DEF trimFiles
  <2>2. partitions' = partitions /\ sweep' = [sweep EXCEPT ![p] = NoSweep]
    BY <1>7 DEF trimFiles, Finish
  <2> QED BY <1>2, <2>1, <2>2
<1>8. ASSUME NEW p \in Processes, Die(p) PROVE OrderInv'
  BY <1>1, <1>8 DEF Die, storeVars
<1>9. ASSUME tail \/ drain \/ UNCHANGED vars PROVE OrderInv'
  BY <1>9 DEF tail, drain, vars, storeVars, OrderInv, Ordered
<1> QED BY <1>3, <1>4, <1>5, <1>6, <1>7, <1>8, <1>9 DEF Next, Enforce

\* Entries of different partitions are different, so that sizes add up.
LEMMA EntryOf ==
    ASSUME NEW q \in Processes, NEW e \in EntriesOf(q) PROVE e[1] = q
  BY DEF EntriesOf

LEMMA SizeOfRest ==
    ASSUME StoreTypeOK, Numbered, NEW P \in SUBSET Processes, NEW Q \in SUBSET P
    PROVE  sizeOf(P \ Q) = sizeOf(P) - sizeOf(Q) /\ sizeOf(Q) <= sizeOf(P)
<1>1. PICK A, B, C : A = Held(P) /\ B = Held(Q) /\ C = Held(P \ Q)
  OBVIOUS
<1>2. /\ IsFiniteSet(A) /\ sizeOf(P) = Cardinality(A) /\ IsFiniteSet(B) /\ sizeOf(Q) = Cardinality(B)
      /\ sizeOf(P \ Q) = Cardinality(C)
  BY <1>1, SizeIsNatural
<1>3. B \subseteq A
  BY <1>1 DEF Held
<1>4. C = A \ B
  <2>1. C \subseteq A
    BY <1>1 DEF Held
  <2>2. ASSUME NEW e \in A, e \notin B PROVE e \in C
    BY <1>1, <2>2 DEF Held
  <2>3. ASSUME NEW e \in C, e \in B PROVE FALSE
    <3>1. PICK q \in P \ Q : e \in EntriesOf(q)
      BY <1>1, <2>3 DEF Held
    <3>2. PICK r \in Q : e \in EntriesOf(r)
      BY <1>1, <2>3 DEF Held
    <3> QED BY <3>1, <3>2, EntryOf
  <2> QED BY <2>1, <2>2, <2>3
<1>5. A \cap B = B
  BY <1>3
<1>6. Cardinality(A \ B) = Cardinality(A) - Cardinality(B)
  <2>1. Cardinality(A \ B) = Cardinality(A) - Cardinality(A \cap B)
    BY <1>2, FS_Difference
  <2> QED BY <1>5, <2>1
<1>7. Cardinality(B) <= Cardinality(A)
  BY <1>2, <1>3, FS_Subset
<1> QED BY <1>2, <1>4, <1>6, <1>7

\* A partition that a step does not touch holds what it held.
LEMMA EntriesStay ==
    ASSUME NEW q, files'[q] = files[q], traces'[q] = traces[q]
    PROVE  EntriesOf(q)' = EntriesOf(q) /\ reclaimableFiles(q)' = reclaimableFiles(q)
  BY DEF EntriesOf, tracesOf, reclaimableFiles, Rotated

\* What is left when partitions are removed.
LEMMA RemoveSize ==
    ASSUME StoreTypeOK, NEW Q, remove(Q)
    PROVE  /\ sizeOf(partitions)' = sizeOf(partitions \ Q) /\ partitions' = partitions \ Q
           /\ UNION {reclaimableFiles(q)' : q \in partitions'} = Files(partitions \ Q)
<1>1. partitions' = partitions \ Q /\ partitions \subseteq Processes
  BY DEF remove, StoreTypeOK
<1>2. \A q \in partitions \ Q : EntriesOf(q)' = EntriesOf(q) /\ reclaimableFiles(q)' = reclaimableFiles(q)
  <2> TAKE q \in partitions \ Q
  <2>1. files'[q] = files[q] /\ traces'[q] = traces[q]
    BY <1>1 DEF remove
  <2> QED BY <2>1, EntriesStay
<1>3. {EntriesOf(q)' : q \in partitions'} = {EntriesOf(q) : q \in partitions \ Q}
  BY <1>1, <1>2
<1>4. sizeOf(partitions)' = Cardinality(UNION {EntriesOf(q)' : q \in partitions'})
  BY DEF sizeOf
<1>5. sizeOf(partitions)' = sizeOf(partitions \ Q)
  BY <1>3, <1>4 DEF sizeOf
<1>6. {reclaimableFiles(q)' : q \in partitions'} = {reclaimableFiles(q) : q \in partitions \ Q}
  BY <1>1, <1>2
<1> QED BY <1>1, <1>5, <1>6 DEF Files

\* The abandoned partitions go in their order: when the store still does not fit, all are gone.
LEMMA AllAbandonedGo ==
    ASSUME StoreTypeOK, Numbered, NEW p \in Processes, Ordered(sweep[p].order),
           sweep[p].total - sizeOf(GoneOf(p)) > MaxStoreSize
    PROVE  GoneOf(p) = Abandoned(p)
<1> DEFINE K == Abandoned(p) \ GoneOf(p)
           Count(q) == Cardinality(Older(p, q))
<1>0. GoneOf(p) \subseteq Abandoned(p) /\ Abandoned(p) \subseteq Processes /\ sweep[p].total \in Int /\ MaxStoreSize \in Int
  BY StoreConstants DEF GoneOf, Abandoned, StoreTypeOK, Sweeps
<1> SUFFICES ASSUME K # {} PROVE FALSE
  BY <1>0
<1>1. \A q : Older(p, q) \subseteq Processes /\ IsFiniteSet(Older(p, q)) /\ Count(q) \in Nat
  <2> TAKE q
  <2>1. Older(p, q) \subseteq Processes
    BY <1>0 DEF Older
  <2>2. IsFiniteSet(Older(p, q))
    BY <2>1, StoreConstants, FS_Subset
  <2> QED BY <2>1, <2>2, FS_CardinalityType
<1>2. PICK q \in K : \A r \in K : Count(q) <= Count(r)
  <2> DEFINE Counts == {Count(r) : r \in K}
  <2> HIDE DEF Count
  <2>1. Counts \subseteq Nat /\ Counts # {}
    BY <1>1
  <2>2. PICK n \in Counts : \A m \in Counts : n <= m
    BY <2>1, LeastNumber
  <2> QED BY <2>2
<1>3. ASSUME NEW r \in Older(p, q), r \in K PROVE FALSE
  <2>1. <<q, r>> \in sweep[p].order /\ r \in Processes /\ q \in Processes
    BY <1>0, <1>1, <1>3 DEF Older
  <2>2. Older(p, r) \subseteq Older(p, q) \ {r}
    <3>1. ASSUME NEW s \in Older(p, r) PROVE s \in Older(p, q) /\ s # r
      <4>1. s \in Abandoned(p) /\ s \in Processes /\ <<r, s>> \in sweep[p].order
        BY <1>0, <3>1 DEF Older
      <4>2. <<q, s>> \in sweep[p].order
        BY <2>1, <4>1 DEF Ordered
      <4>3. s # r
        BY <2>1, <4>1 DEF Ordered
      <4> QED BY <4>1, <4>2, <4>3 DEF Older
    <3> QED BY <3>1
  <2>3. PICK A, B : A = Older(p, q) /\ B = Older(p, r)
    OBVIOUS
  <2>4. IsFiniteSet(A) /\ IsFiniteSet(A \ {r}) /\ Cardinality(A \ {r}) = Cardinality(A) - 1
    BY <1>1, <1>3, <2>3, FS_RemoveElement
  <2>5. Cardinality(B) <= Cardinality(A \ {r})
    BY <2>2, <2>3, <2>4, FS_Subset
  <2>6. Cardinality(A) <= Cardinality(B)
    BY <1>2, <1>3, <2>3
  <2>7. Cardinality(A) \in Nat /\ Cardinality(B) \in Nat
    BY <1>1, <2>3
  <2> QED BY <2>4, <2>5, <2>6, <2>7
<1>4. Older(p, q) \subseteq GoneOf(p)
  BY <1>3 DEF Older
<1>5. sizeOf(Older(p, q)) <= sizeOf(GoneOf(p)) /\ sizeOf(Older(p, q)) \in Nat /\ sizeOf(GoneOf(p)) \in Nat
  BY <1>0, <1>1, <1>4, SizeOfRest, SizeIsNatural
<1>6. ~(sweep[p].total - sizeOf(Older(p, q)) > MaxStoreSize)
  BY <1>2 DEF GoneOf
<1> QED BY <1>0, <1>5, <1>6

\* The entries in the files that a trim deletes.
FreedOf(C) == UNION {{<<c.of, c.file[1], c.file[2], i>> : i \in 1..c.size} : c \in C}
DeletedFrom(gone, q, file) == \E c \in gone : c.of = q /\ c.file = file

\* A candidate is a file of a partition, and holds its entries.
LEMMA CandidateFacts ==
    ASSUME StoreTypeOK, Numbered, NEW q \in Processes, NEW c \in reclaimableFiles(q)
    PROVE  /\ c \in Candidates /\ c.of = q /\ c.file = <<c.file[1], c.file[2]>>
           /\ \A i \in 1..c.size : <<q, c.file[1], c.file[2], i>> \in EntriesOf(q)
<1>1. c \in Candidates
  BY ReclaimableType
<1>2. c.file = <<c.file[1], c.file[2]>>
  BY <1>1 DEF Candidates
<1>3. CASE \E n \in tracesOf(q) : c = [of |-> q, file |-> <<"traces", n>>, size |-> 1, mtime |-> n]
  <2>1. PICK n \in tracesOf(q) : c.of = q /\ c.file[1] = "traces" /\ c.file[2] = n /\ c.size = 1
    BY <1>3
  <2>2. <<q, "traces", n, 1>> \in EntriesOf(q)
    BY DEF EntriesOf
  <2> QED BY <1>1, <1>2, <2>1, <2>2
<1>4. CASE \E f \in Rotated(q) : c = [of |-> q, file |-> f, size |-> Len(files[q][f[1]][f[2]]),
                                      mtime |-> files[q][f[1]][f[2]][Len(files[q][f[1]][f[2]])]]
  <2>1. PICK f \in Rotated(q) : c.of = q /\ c.file = f /\ c.size = Len(files[q][f[1]][f[2]])
    BY <1>4
  <2>2. f \in Kinds \X Generations
    BY DEF Rotated
  <2>3. files[q][f[1]][f[2]] \in Seq(Nat)
    BY <2>2 DEF StoreTypeOK
  <2>4. 1..c.size = DOMAIN files[q][f[1]][f[2]]
    BY <2>1, <2>3
  <2>5. \A i \in DOMAIN files[q][f[1]][f[2]] : <<q, f[1], f[2], i>> \in EntriesOf(q)
    BY <2>2 DEF EntriesOf
  <2> QED BY <1>1, <1>2, <2>1, <2>4, <2>5
<1> QED BY <1>3, <1>4 DEF reclaimableFiles

\* Every rotated generation and every trace is the file of a candidate.
LEMMA FilesAreCandidates ==
    ASSUME StoreTypeOK, NEW q \in Processes
    PROVE  /\ \A f \in Rotated(q) : \E c \in reclaimableFiles(q) : c.of = q /\ c.file = f /\ c.size = Len(files[q][f[1]][f[2]])
           /\ \A n \in tracesOf(q) : \E c \in reclaimableFiles(q) : c.of = q /\ c.file = <<"traces", n>> /\ c.size = 1
<1>1. ASSUME NEW f \in Rotated(q)
      PROVE  \E c \in reclaimableFiles(q) : c.of = q /\ c.file = f /\ c.size = Len(files[q][f[1]][f[2]])
  <2> DEFINE c == [of |-> q, file |-> f, size |-> Len(files[q][f[1]][f[2]]),
                   mtime |-> files[q][f[1]][f[2]][Len(files[q][f[1]][f[2]])]]
  <2>1. c \in reclaimableFiles(q)
    BY DEF reclaimableFiles
  <2> QED BY <2>1
<1>2. ASSUME NEW n \in tracesOf(q)
      PROVE  \E c \in reclaimableFiles(q) : c.of = q /\ c.file = <<"traces", n>> /\ c.size = 1
  <2> DEFINE c == [of |-> q, file |-> <<"traces", n>>, size |-> 1, mtime |-> n]
  <2>1. c \in reclaimableFiles(q)
    BY DEF reclaimableFiles
  <2> QED BY <2>1
<1> QED BY <1>1, <1>2

\* An entry that a step leaves is in a file that it leaves.
LEMMA TrimEntries ==
    ASSUME StoreTypeOK, Numbered, NEW p \in Processes, NEW gone, DeletesOf(p, gone), NEW q \in Processes
    PROVE  /\ tracesOf(q)' = {n \in tracesOf(q) : ~DeletedFrom(gone, q, <<"traces", n>>)}
           /\ \A f \in Kinds \X Generations :
                files'[q][f[1]][f[2]] = IF DeletedFrom(gone, q, <<f[1], f[2]>>) THEN <<>> ELSE files[q][f[1]][f[2]]
<1>1. tracesOf(q)' = {n \in tracesOf(q) : ~DeletedFrom(gone, q, <<"traces", n>>)}
  <2>1. CASE traces[q] = NoDirectory
    <3>1. traces'[q] = NoDirectory
      BY <2>1 DEF DeletesOf
    <3> QED BY <2>1, <3>1 DEF tracesOf
  <2>2. CASE traces[q] # NoDirectory
    <3>1. traces'[q] = {n \in traces[q] : ~DeletedFrom(gone, q, <<"traces", n>>)}
      BY <2>2 DEF DeletesOf, DeletedFrom
    <3>2. 0 \notin traces[q]
      BY <2>2 DEF Numbered, StoreTypeOK
    <3>3. traces'[q] # NoDirectory
      BY <3>1, <3>2 DEF NoDirectory
    <3> QED BY <2>2, <3>1, <3>3 DEF tracesOf
  <2> QED BY <2>1, <2>2
<1>2. ASSUME NEW f \in Kinds \X Generations
      PROVE  files'[q][f[1]][f[2]] = IF DeletedFrom(gone, q, <<f[1], f[2]>>) THEN <<>> ELSE files[q][f[1]][f[2]]
  BY DEF DeletesOf, DeletedFrom, Missing
<1> QED BY <1>1, <1>2

\* A step that deletes files takes their entries and no others.
LEMMA TrimSize ==
    ASSUME StoreTypeOK, Numbered, NEW p \in Processes, NEW gone, DeletesOf(p, gone),
           gone \subseteq Files(partitions), partitions' = partitions
    PROVE  /\ FreedOf(gone) \subseteq Held(partitions)
           /\ sizeOf(partitions)' = sizeOf(partitions) - Freed(gone)
<1>0. partitions \subseteq Processes
  BY DEF StoreTypeOK
<1>1. \A c \in gone : c.of \in partitions /\ c \in reclaimableFiles(c.of) /\ c.file = <<c.file[1], c.file[2]>>
  <2> TAKE c \in gone
  <2>1. PICK q \in partitions : c \in reclaimableFiles(q)
    BY DEF Files
  <2> QED BY <1>0, <2>1, CandidateFacts
<1>2. FreedOf(gone) \subseteq Held(partitions)
  <2>1. ASSUME NEW c \in gone, NEW i \in 1..c.size PROVE <<c.of, c.file[1], c.file[2], i>> \in Held(partitions)
    <3>1. <<c.of, c.file[1], c.file[2], i>> \in EntriesOf(c.of)
      BY <1>0, <1>1, CandidateFacts
    <3> QED BY <1>1, <3>1 DEF Held
  <2> QED BY <2>1 DEF FreedOf
<1>3. \A e \in FreedOf(gone) : DeletedFrom(gone, e[1], <<e[2], e[3]>>)
  <2>1. ASSUME NEW c \in gone, NEW i \in 1..c.size, NEW e, e = <<c.of, c.file[1], c.file[2], i>>
        PROVE  DeletedFrom(gone, e[1], <<e[2], e[3]>>)
    <3>1. e[1] = c.of /\ <<e[2], e[3]>> = c.file
      BY <1>1, <2>1
    <3> QED BY <3>1 DEF DeletedFrom
  <2> QED BY <2>1 DEF FreedOf
<1>4. ASSUME NEW q \in partitions, NEW e \in EntriesOf(q)' PROVE e \in EntriesOf(q) /\ e \notin FreedOf(gone)
  <2>1. CASE \E n \in tracesOf(q)' : e = <<q, "traces", n, 1>>
    <3>1. PICK n \in tracesOf(q)' : e = <<q, "traces", n, 1>>
      BY <2>1
    <3>2. n \in tracesOf(q) /\ ~DeletedFrom(gone, q, <<"traces", n>>)
      BY <1>0, <3>1, TrimEntries
    <3>3. e \in EntriesOf(q)
      BY <3>1, <3>2 DEF EntriesOf
    <3> QED BY <1>3, <3>1, <3>2, <3>3
  <2>2. CASE \E f \in Kinds \X Generations : \E i \in DOMAIN files'[q][f[1]][f[2]] : e = <<q, f[1], f[2], i>>
    <3>1. PICK f, i : f \in Kinds \X Generations /\ i \in DOMAIN files'[q][f[1]][f[2]] /\ e = <<q, f[1], f[2], i>>
      BY <2>2
    <3>2. ~DeletedFrom(gone, q, <<f[1], f[2]>>) /\ i \in DOMAIN files[q][f[1]][f[2]]
      BY <1>0, <3>1, TrimEntries
    <3>3. e \in EntriesOf(q)
      BY <3>1, <3>2 DEF EntriesOf
    <3> QED BY <1>3, <3>1, <3>2, <3>3
  <2> QED BY <2>1, <2>2 DEF EntriesOf
<1>5. ASSUME NEW q \in partitions, NEW e \in EntriesOf(q), e \notin FreedOf(gone) PROVE e \in EntriesOf(q)'
  <2>1. CASE \E n \in tracesOf(q) : e = <<q, "traces", n, 1>>
    <3>1. PICK n \in tracesOf(q) : e = <<q, "traces", n, 1>>
      BY <2>1
    <3>2. ASSUME DeletedFrom(gone, q, <<"traces", n>>) PROVE FALSE
      <4>1. PICK c \in gone : c.of = q /\ c.file = <<"traces", n>>
        BY <3>2 DEF DeletedFrom
      <4>2. c \in reclaimableFiles(q)
        BY <1>1, <4>1
      <4>3. c.size = 1
        BY <4>1, <4>2 DEF reclaimableFiles, Rotated, Kinds
      <4>4. e = <<c.of, c.file[1], c.file[2], 1>> /\ 1 \in 1..c.size
        BY <3>1, <4>1, <4>3
      <4> QED BY <1>5, <4>4 DEF FreedOf
    <3>3. n \in tracesOf(q)'
      BY <1>0, <3>2, TrimEntries
    <3> QED BY <3>1, <3>3 DEF EntriesOf
  <2>2. CASE \E f \in Kinds \X Generations : \E i \in DOMAIN files[q][f[1]][f[2]] : e = <<q, f[1], f[2], i>>
    <3>1. PICK f, i : f \in Kinds \X Generations /\ i \in DOMAIN files[q][f[1]][f[2]] /\ e = <<q, f[1], f[2], i>>
      BY <2>2
    <3>2. ASSUME DeletedFrom(gone, q, <<f[1], f[2]>>) PROVE FALSE
      <4>1. PICK c \in gone : c.of = q /\ c.file = <<f[1], f[2]>>
        BY <3>2 DEF DeletedFrom
      <4>2. c \in reclaimableFiles(q) /\ f[1] # "traces"
        BY <1>1, <3>1, <4>1 DEF Kinds
      <4>3. c.size = Len(files[q][f[1]][f[2]])
        BY <4>1, <4>2 DEF reclaimableFiles
      <4>4. files[q][f[1]][f[2]] \in Seq(Nat)
        BY <1>0, <3>1 DEF StoreTypeOK
      <4>5. e = <<c.of, c.file[1], c.file[2], i>> /\ i \in 1..c.size
        BY <3>1, <4>1, <4>3, <4>4
      <4> QED BY <1>5, <4>5 DEF FreedOf
    <3>3. files'[q][f[1]][f[2]] = files[q][f[1]][f[2]]
      BY <1>0, <3>1, <3>2, TrimEntries
    <3> QED BY <3>1, <3>3 DEF EntriesOf
  <2> QED BY <2>1, <2>2 DEF EntriesOf
<1>6. UNION {EntriesOf(q)' : q \in partitions} = Held(partitions) \ FreedOf(gone)
  BY <1>4, <1>5 DEF Held
<1>7. sizeOf(partitions)' = Cardinality(UNION {EntriesOf(q)' : q \in partitions})
  BY DEF sizeOf
<1>8. PICK A, B : A = Held(partitions) /\ B = FreedOf(gone)
  OBVIOUS
<1>9. IsFiniteSet(A) /\ sizeOf(partitions) = Cardinality(A) /\ Freed(gone) = Cardinality(B) /\ A \cap B = B
  BY <1>0, <1>2, <1>8, SizeIsNatural DEF Freed, FreedOf
<1>10. Cardinality(A \ B) = Cardinality(A) - Cardinality(A \cap B)
  BY <1>9, FS_Difference
<1> QED BY <1>2, <1>6, <1>7, <1>8, <1>9, <1>10

\* Who is not disturbed sees nothing change, but what its own sweep does.
LEMMA AloneStep ==
    ASSUME StoreTypeOK, Claimed, [Next]_vars, NEW p \in Processes, p \in alone', pc'[p] \in {"abandon", "trim"}
    PROVE  \/ /\ p \in alone /\ UNCHANGED <<partitions, pid, files, traces, alive>>
              /\ pc'[p] = pc[p] /\ sweep'[p] = sweep[p]
           \/ dropExpiredPartitions(p) \/ dropAbandonedPartitions(p)
<1> DEFINE Same == /\ p \in alone /\ UNCHANGED <<partitions, pid, files, traces, alive>>
                   /\ pc'[p] = pc[p] /\ sweep'[p] = sweep[p]
           Own == dropExpiredPartitions(p) \/ dropAbandonedPartitions(p)
<1> SUFFICES Same \/ Own
  OBVIOUS
<1>0. ASSUME NEW r \in Processes, Disturb(r), pc'[r] \notin {"abandon", "trim"} PROVE FALSE
  BY <1>0 DEF Disturb
<1>1. ASSUME NEW r \in Processes, \E store \in Stores : ensurePartitionDirectory(r, store) PROVE FALSE
  <2>1. Disturb(r) /\ pc'[r] = "sweep"
    BY <1>1 DEF ensurePartitionDirectory, GoesTo, StoreTypeOK
  <2> QED BY <1>0, <2>1
<1>2. ASSUME NEW r \in Processes, appendLog(r) \/ omitTrace(r) \/ appendSummary(r) PROVE FALSE
  <2>1. PICK kind \in Kinds, n \in Nat : AppendLine(r, kind, n)
    BY <1>2 DEF appendLog, omitTrace, appendSummary, StoreTypeOK, Kinds
  <2>2. Exists(r)
    BY <1>2, AppenderExists
  <2>3. Disturb(r) /\ recordBytes(r, Full(r, kind), "idle")
    BY <2>1, <2>2, AppendLineFacts DEF AppendedWith
  <2>4. pc'[r] \in {"sweep", "idle"}
    BY <2>3, RecordBytesType DEF StoreTypeOK
  <2> QED BY <1>0, <2>3, <2>4
<1>3. ASSUME NEW r \in Processes, appendTrace(r) PROVE Same
  <2>1. CASE traces[r] # NoDirectory
    <3>1. Disturb(r) /\ recordBytes(r, FALSE, "register")
      BY <1>3, <2>1 DEF appendTrace
    <3>2. pc' = [pc EXCEPT ![r] = "sweep"] \/ pc' = [pc EXCEPT ![r] = "register"]
      BY <3>1 DEF recordBytes, GoesTo
    <3>3. pc'[r] \in {"sweep", "register"}
      BY <3>2 DEF StoreTypeOK
    <3> QED BY <1>0, <3>1, <3>3
  <2>2. CASE traces[r] = NoDirectory
    BY <1>3, <2>2 DEF appendTrace, GoesTo, StoreTypeOK
  <2> QED BY <2>1, <2>2
<1>4. ASSUME NEW r \in Processes, register(r) PROVE FALSE
  <2>1. Disturb(r) /\ pc'[r] = "summary"
    BY <1>4 DEF register, GoesTo, StoreTypeOK
  <2> QED BY <1>0, <2>1
<1>5. ASSUME NEW r \in Processes, dropExpiredPartitions(r) PROVE Same \/ Own
  <2>1. CASE r = p
    BY <1>5, <2>1
  <2>2. CASE r # p
    <3>1. PICK expired : /\ remove(expired) /\ ((expired = {} /\ alone' \subseteq alone \cup {r}) \/ alone' \subseteq {r})
                         /\ pc'[p] = pc[p] /\ sweep'[p] = sweep[p] /\ alive' = alive
      BY ZenonT(40), <1>5, <2>2, ExpiredFacts DEF Finish, GoesTo, StoreTypeOK, dropExpiredPartitions, SweepStep
    <3>2. expired = {} /\ p \in alone
      BY <2>2, <3>1
    <3>3. partitions' = partitions /\ pid' = pid /\ files' = files /\ traces' = traces
      BY <3>1, <3>2 DEF remove, StoreTypeOK
    <3> QED BY <3>1, <3>2, <3>3
  <2> QED BY <2>1, <2>2
<1>6. ASSUME NEW r \in Processes, dropAbandonedPartitions(r) PROVE Own
  <2>1. alone' \subseteq {r}
    BY <1>6 DEF dropAbandonedPartitions, Disturb
  <2> QED BY <1>6, <2>1
<1>7. ASSUME NEW r \in Processes, trimFiles(r) \/ Die(r) PROVE FALSE
  BY <1>7 DEF trimFiles, Die
<1>8. ASSUME tail \/ drain \/ UNCHANGED vars PROVE Same
  BY <1>8 DEF tail, drain, vars, storeVars
<1> QED BY <1>1, <1>2, <1>3, <1>4, <1>5, <1>6, <1>7, <1>8 DEF Next, Enforce

LEMMA AloneInvStep ==
    ASSUME StoreTypeOK, Numbered, Claimed, OrderInv, AloneInv, [Next]_vars, StoreTypeOK' PROVE AloneInv'
<1> SUFFICES ASSUME NEW p \in alone', pc'[p] \in {"abandon", "trim"}
             PROVE  /\ sweep'[p].total = sizeOf(partitions)'
                    /\ pc'[p] = "abandon" => sweep'[p].survivors = partitions'
                    /\ pc'[p] = "trim" => /\ \A q \in partitions' : isLive(p, q)'
                                          /\ sweep'[p].candidates = UNION {reclaimableFiles(q)' : q \in partitions'}
  BY DEF AloneInv
<1>0. p \in Processes /\ partitions \subseteq Processes
  BY DEF StoreTypeOK
<1>1. CASE p \in alone /\ UNCHANGED <<partitions, pid, files, traces, alive>> /\ pc'[p] = pc[p] /\ sweep'[p] = sweep[p]
  <2>1. \A q : EntriesOf(q)' = EntriesOf(q) /\ reclaimableFiles(q)' = reclaimableFiles(q)
    BY <1>1, EntriesStay
  <2>2. sizeOf(partitions)' = sizeOf(partitions)
    BY <1>1, <2>1 DEF sizeOf
  <2>3. UNION {reclaimableFiles(q)' : q \in partitions'} = UNION {reclaimableFiles(q) : q \in partitions}
    BY <1>1, <2>1
  <2>4. \A q : isLive(p, q)' <=> isLive(p, q)
    BY <1>1 DEF isLive
  <2> QED BY <1>1, <2>2, <2>3, <2>4 DEF AloneInv
<1>2. CASE dropExpiredPartitions(p)
  <2>1. PICK expired : /\ remove(expired)
                       /\ \/ Finish(p)
                          \/ /\ sweep' = [sweep EXCEPT ![p] = [survivors |-> partitions \ expired, order |-> newer',
                                                               total |-> sizeOf(partitions \ expired), candidates |-> {}]]
                             /\ pc' = [pc EXCEPT ![p] = "abandon"]
    BY <1>0, <1>2, ExpiredFacts
  <2>2. ~Finish(p)
    BY <1>0 DEF Finish, GoesTo, StoreTypeOK
  <2>3. pc'[p] = "abandon" /\ sweep'[p].survivors = partitions \ expired /\ sweep'[p].total = sizeOf(partitions \ expired)
    BY SMTT(20), <1>0, <2>1, <2>2 DEF StoreTypeOK
  <2> QED BY <2>1, <2>3, RemoveSize
<1>3. CASE dropAbandonedPartitions(p)
  <2>1. PICK gone, total : /\ gone = GoneOf(p) /\ total = sweep[p].total - sizeOf(gone) /\ remove(gone)
                           /\ \/ Finish(p)
                              \/ /\ ~(total <= MaxStoreSize) /\ Disturb(p)
                                 /\ sweep' = [sweep EXCEPT ![p] = [survivors |-> {}, order |-> {}, total |-> total,
                                                                   candidates |-> Files(sweep[p].survivors \ gone)]]
                                 /\ pc' = [pc EXCEPT ![p] = "trim"]
    BY <1>0, <1>3, AbandonedFacts
  <2>2. ~Finish(p)
    BY <1>0 DEF Finish, GoesTo, StoreTypeOK
  <2>3. /\ pc'[p] = "trim" /\ sweep'[p].total = total /\ sweep'[p].candidates = Files(sweep[p].survivors \ gone)
        /\ ~(total <= MaxStoreSize) /\ p \in alone
    BY SMTT(20), <1>0, <2>1, <2>2 DEF StoreTypeOK, Disturb
  <2>4. pc[p] = "abandon" /\ alive' = alive
    BY <1>3 DEF dropAbandonedPartitions, SweepStep
  <2>5. sweep[p].total = sizeOf(partitions) /\ sweep[p].survivors = partitions
    BY <2>3, <2>4 DEF AloneInv
  <2>6. gone \in SUBSET partitions
    BY <2>1, <2>5 DEF GoneOf, Abandoned
  <2>7. sizeOf(partitions \ gone) = total
    BY <1>0, <2>1, <2>5, <2>6, SizeOfRest
  <2>8. gone = Abandoned(p)
    <3>1. total \in Int /\ MaxStoreSize \in Int
      BY <1>0, <2>1, <2>5, <2>6, SizeIsNatural, StoreConstants
    <3>2. total > MaxStoreSize
      BY <2>3, <3>1
    <3>3. Ordered(sweep[p].order)
      BY <1>0 DEF OrderInv
    <3> QED BY <1>0, <2>1, <3>2, <3>3, AllAbandonedGo
  <2>9. ASSUME NEW q \in partitions' PROVE isLive(p, q)'
    <3>1. partitions' = partitions \ gone /\ pid' = pid \ gone
      BY <2>1 DEF remove
    <3>2. isLive(p, q)
      BY <2>5, <2>8, <3>1 DEF Abandoned
    <3> QED BY <2>4, <3>1, <3>2 DEF isLive
  <2> QED BY <2>1, <2>3, <2>5, <2>7, <2>9, RemoveSize
<1> QED BY <1>0, <1>1, <1>2, <1>3, AloneStep

\* The files go in their order: when the store still does not fit, all are gone.
LEMMA AllFilesGo ==
    ASSUME StoreTypeOK, NEW p \in Processes, NEW free \in SUBSET Candidates, IsFiniteSet(FreedOf(free)),
           sweep[p].total - Freed(TrimmedOf(p, free)) > MaxStoreSize
    PROVE  TrimmedOf(p, free) = free
<1> DEFINE K == free \ TrimmedOf(p, free)
<1>0. TrimmedOf(p, free) \subseteq free /\ sweep[p].total \in Int /\ MaxStoreSize \in Int
  BY StoreConstants DEF TrimmedOf, StoreTypeOK, Sweeps
<1> SUFFICES ASSUME K # {} PROVE FALSE
  BY <1>0
<1>1. PICK c \in K : \A d \in K : ~Before(d, c)
  <2> DEFINE Times == {d.mtime : d \in K}
  <2>1. \A d \in K : d.mtime \in Nat
    BY DEF Candidates
  <2>2. PICK n \in Times : \A m \in Times : n <= m
    <3>1. Times \subseteq Nat /\ Times # {}
      BY <2>1
    <3> QED BY <3>1, LeastNumber
  <2>3. \A d \in K : n <= d.mtime /\ n \in Nat
    BY <2>1, <2>2
  <2>4. CASE \E d \in K : d.mtime = n /\ d.file[1] = "traces"
    <3>1. PICK d \in K : d.mtime = n /\ d.file[1] = "traces"
      BY <2>4
    <3>2. \A e \in K : ~Before(e, d)
      BY <2>1, <2>3, <3>1 DEF Before
    <3> QED BY <3>2
  <2>5. CASE ~\E d \in K : d.mtime = n /\ d.file[1] = "traces"
    <3>1. PICK d \in K : d.mtime = n
      BY <2>2
    <3>2. \A e \in K : ~Before(e, d)
      BY <2>1, <2>3, <2>5, <3>1 DEF Before
    <3> QED BY <3>2
  <2> QED BY <2>4, <2>5
<1>2. Earlier(free, c) \subseteq TrimmedOf(p, free)
  BY <1>1 DEF Earlier
<1>3. PICK A, B, C : A = FreedOf(Earlier(free, c)) /\ B = FreedOf(TrimmedOf(p, free)) /\ C = FreedOf(free)
  OBVIOUS
<1>4. A \subseteq B /\ B \subseteq C
  BY <1>0, <1>2, <1>3 DEF FreedOf
<1>5. IsFiniteSet(C) /\ IsFiniteSet(B)
  BY <1>3, <1>4, FS_Subset
<1>6. IsFiniteSet(A) /\ Cardinality(A) <= Cardinality(B)
  BY <1>4, <1>5, FS_Subset
<1>7. Cardinality(A) \in Nat /\ Cardinality(B) \in Nat
  BY <1>5, <1>6, FS_CardinalityType
<1>8. Freed(Earlier(free, c)) = Cardinality(A) /\ Freed(TrimmedOf(p, free)) = Cardinality(B)
  BY <1>3 DEF Freed, FreedOf
<1>9. ~(sweep[p].total - Freed(Earlier(free, c)) > MaxStoreSize)
  BY <1>1 DEF TrimmedOf
<1> QED BY <1>0, <1>6, <1>7, <1>8, <1>9

\* A sweep that nobody disturbed ends with a store that fits, or with all it may take taken.
LEMMA SweepFitsStep ==
    ASSUME StoreTypeOK, Numbered, Claimed, OrderInv, AloneInv, [Next]_vars, StoreTypeOK' PROVE SweepFits
<1> SUFFICES ASSUME ~readers, MaxStoreSize > 0, NEW p \in alive', pc[p] \in SweepLabels, pc'[p] \notin SweepLabels,
                    pc[p] = "sweep" \/ p \in alone
             PROVE  \/ sizeOf(partitions)' <= MaxStoreSize
                    \/ \A q \in partitions' : isLive(p, q)' /\ reclaimableFiles(q)' = {}
  BY DEF SweepFits
<1>0. p \in Processes /\ p \in alive /\ partitions \subseteq Processes /\ MaxStoreSize \in Nat
  BY ReadersStay, StoreConstants DEF StoreTypeOK
<1>1. Enforce(p)
  <2>1. ASSUME NEW r \in Processes, r # p,
               \/ \E store \in Stores : ensurePartitionDirectory(r, store)
               \/ appendLog(r) \/ appendTrace(r) \/ omitTrace(r) \/ register(r) \/ appendSummary(r) \/ Enforce(r) \/ Die(r)
        PROVE  \E label : pc' = [pc EXCEPT ![r] = label]
    <3>1. CASE appendLog(r) \/ omitTrace(r) \/ appendSummary(r)
      BY <3>1 DEF appendLog, omitTrace, appendSummary, AppendLine, recordBytes, GoesTo
    <3>2. CASE (\E store \in Stores : ensurePartitionDirectory(r, store)) \/ appendTrace(r) \/ register(r) \/ Die(r)
      BY <3>2 DEF ensurePartitionDirectory, appendTrace, register, Die, recordBytes, GoesTo
    <3>3. CASE Enforce(r)
      BY <3>3 DEF Enforce, dropExpiredPartitions, dropAbandonedPartitions, trimFiles, Finish, GoesTo
    <3> QED BY <2>1, <3>1, <3>2, <3>3
  <2>4. ASSUME NEW r \in Processes, r # p, \E label : pc' = [pc EXCEPT ![r] = label] PROVE FALSE
    BY <1>0, <2>4 DEF StoreTypeOK
  <2>2. ~(\E store \in Stores : ensurePartitionDirectory(p, store)) /\ ~appendLog(p) /\ ~appendTrace(p) /\ ~omitTrace(p)
        /\ ~register(p) /\ ~appendSummary(p) /\ ~Die(p)
    BY <1>0 DEF ensurePartitionDirectory, appendLog, appendTrace, omitTrace, register, appendSummary, Appending, Die, SweepLabels, Stores
  <2>3. ~(tail \/ drain \/ UNCHANGED vars)
    BY DEF tail, drain, vars
  <2> QED BY <2>1, <2>2, <2>3, <2>4 DEF Next
<1>2. CASE dropExpiredPartitions(p)
  <2>1. PICK expired : /\ remove(expired)
                       /\ \/ MaxStoreSize = 0 \/ sizeOf(partitions \ expired) <= MaxStoreSize
                          \/ pc' = [pc EXCEPT ![p] = "abandon"]
    BY <1>0, <1>2, ExpiredFacts
  <2>2. pc' # [pc EXCEPT ![p] = "abandon"]
    BY <1>0 DEF StoreTypeOK, SweepLabels
  <2>3. sizeOf(partitions \ expired) <= MaxStoreSize
    BY <1>0, <2>1, <2>2
  <2>4. sizeOf(partitions)' = sizeOf(partitions \ expired)
    BY <2>1, RemoveSize
  <2> QED BY <2>3, <2>4
<1>3. CASE dropAbandonedPartitions(p)
  <2>1. PICK gone : /\ gone = GoneOf(p) /\ remove(gone)
                    /\ sweep[p].total - sizeOf(gone) <= MaxStoreSize \/ pc' = [pc EXCEPT ![p] = "trim"]
    BY <1>0, <1>3, AbandonedFacts
  <2>2. pc' # [pc EXCEPT ![p] = "trim"]
    BY <1>0 DEF StoreTypeOK, SweepLabels
  <2>3. p \in alone /\ pc[p] = "abandon"
    BY <1>3 DEF dropAbandonedPartitions, SweepStep
  <2>4. sweep[p].total = sizeOf(partitions) /\ sweep[p].survivors = partitions
    BY <2>3 DEF AloneInv
  <2>5. gone \in SUBSET partitions
    BY <2>1, <2>4 DEF GoneOf, Abandoned
  <2>6. sizeOf(partitions \ gone) = sweep[p].total - sizeOf(gone)
    BY <1>0, <2>4, <2>5, SizeOfRest
  <2> QED BY <2>1, <2>2, <2>6, RemoveSize
<1>4. CASE trimFiles(p)
  <2>1. PICK gone : DeletesOf(p, gone) /\ gone = TrimmedOf(p, sweep[p].candidates)
    BY <1>0, <1>4, TrimFacts
  <2>2. p \in alone /\ pc[p] = "trim" /\ partitions' = partitions /\ pid' = pid /\ alive' = alive
    BY <1>4 DEF trimFiles, SweepStep
  <2>3. PICK free : free = sweep[p].candidates /\ free = Files(partitions) /\ sweep[p].total = sizeOf(partitions)
    BY <2>2 DEF AloneInv, Files
  <2>4. free \subseteq Candidates /\ gone \subseteq free
    BY <1>0, <2>1, <2>3 DEF StoreTypeOK, Sweeps, TrimmedOf
  <2>5. sizeOf(partitions)' = sweep[p].total - Freed(gone)
    BY <1>0, <2>1, <2>2, <2>3, <2>4, TrimSize
  <2>6. IsFiniteSet(FreedOf(free))
    <3>1. ASSUME NEW c \in free, NEW i \in 1..c.size PROVE <<c.of, c.file[1], c.file[2], i>> \in Held(partitions)
      <4>1. PICK q \in partitions : c \in reclaimableFiles(q)
        BY <2>3 DEF Files
      <4>2. c.of = q /\ <<q, c.file[1], c.file[2], i>> \in EntriesOf(q)
        BY <1>0, <4>1, CandidateFacts
      <4> QED BY <4>2 DEF Held
    <3>2. FreedOf(free) \subseteq Held(partitions)
      BY <3>1 DEF FreedOf
    <3> QED BY <1>0, <3>2, SizeIsNatural, FS_Subset
  <2>7. CASE sweep[p].total - Freed(gone) > MaxStoreSize
    <3>1. gone = free
      BY <1>0, <2>1, <2>3, <2>4, <2>6, <2>7, AllFilesGo
    <3>2. ASSUME NEW q \in partitions PROVE isLive(p, q)' /\ reclaimableFiles(q)' = {}
      <4>1. isLive(p, q)'
        BY <2>2 DEF AloneInv, isLive
      <4>2. reclaimableFiles(q) \subseteq gone
        BY <2>3, <3>1 DEF Files
      <4>3. ASSUME NEW n \in tracesOf(q)' PROVE FALSE
        <5>1. n \in tracesOf(q) /\ ~DeletedFrom(gone, q, <<"traces", n>>)
          BY <1>0, <2>1, <4>3, TrimEntries
        <5>2. q \in Processes
          BY <1>0
        <5>3. \A m \in tracesOf(q) : \E c \in reclaimableFiles(q) : c.of = q /\ c.file = <<"traces", m>> /\ c.size = 1
          BY <5>2, FilesAreCandidates
        <5>4. PICK c \in reclaimableFiles(q) : c.of = q /\ c.file = <<"traces", n>>
          BY <5>1, <5>3
        <5> QED BY <4>2, <5>1, <5>4 DEF DeletedFrom
      <4>4. ASSUME NEW f \in Rotated(q)' PROVE FALSE
        <5>1. f \in Kinds \X (Generations \ {0}) /\ files'[q][f[1]][f[2]] # <<>>
          BY <4>4 DEF Rotated, Missing
        <5>2. f \in Kinds \X Generations /\ f = <<f[1], f[2]>>
          BY <5>1
        <5>3. ~DeletedFrom(gone, q, <<f[1], f[2]>>) /\ files[q][f[1]][f[2]] # <<>>
          BY <1>0, <2>1, <5>1, <5>2, TrimEntries
        <5>4. f \in Rotated(q)
          BY <5>1, <5>3 DEF Rotated, Missing
        <5> QED BY <1>0, <4>2, <5>2, <5>3, <5>4, FilesAreCandidates DEF DeletedFrom
      <4> QED BY <4>1, <4>3, <4>4 DEF reclaimableFiles
    <3> QED BY <2>2, <3>2
  <2>8. CASE ~(sweep[p].total - Freed(gone) > MaxStoreSize)
    <3>1. sweep[p].total - Freed(gone) \in Int
      <4>1. IsFiniteSet(FreedOf(gone))
        <5>1. FreedOf(gone) \subseteq FreedOf(free)
          BY <2>4 DEF FreedOf
        <5> QED BY <2>6, <5>1, FS_Subset
      <4>2. Freed(gone) \in Nat
        BY <4>1, FS_CardinalityType DEF Freed, FreedOf
      <4> QED BY <1>0, <4>2 DEF StoreTypeOK, Sweeps
    <3> QED BY <1>0, <2>5, <2>8, <3>1
  <2> QED BY <2>7, <2>8
<1> QED BY <1>1, <1>2, <1>3, <1>4 DEF Enforce

\* Of the store's limits, all that is needed to keep them.
SpaceInv == StoreInv /\ FilesInv /\ TracesInv /\ OrderInv /\ AloneInv

LEMMA SpaceInvariant == Spec => []SpaceInv
<1>1. Init => SpaceInv
  BY StoreTypeInit, NumberedInit, ClaimedInit, LinesInit, BoundedInit, OrderInit DEF SpaceInv, StoreInv
<1>2. SpaceInv /\ [Next]_vars => SpaceInv'
  <2> SUFFICES ASSUME SpaceInv, [Next]_vars PROVE SpaceInv'
    OBVIOUS
  <2>1. StoreInv'
    BY StoreTypeStep, NumberedStep, ClaimedStep, LinesInOrderStep, TailStep DEF SpaceInv, StoreInv
  <2>2. FilesInv' /\ TracesInv' /\ OrderInv'
    BY FilesInvStep, TracesInvStep, OrderStep DEF SpaceInv, StoreInv
  <2>3. AloneInv'
    BY <2>1, AloneInvStep DEF SpaceInv, StoreInv
  <2> QED BY <2>1, <2>2, <2>3 DEF SpaceInv
<1> QED BY <1>1, <1>2, PTL DEF Spec

\* Where no reader holds files open, no step leaves a file, its generations or the traces of a
\* running process past their limits, and a sweep that no other process disturbs ends with a
\* store that fits or with nothing in it but the live files of running processes.
THEOREM SpaceIsBoundedHolds == Spec => SpaceIsBounded
<1>1. SpaceInv /\ SpaceInv' /\ [Next]_vars => SweepFits
  BY SweepFitsStep DEF SpaceInv, StoreInv
<1>2. SpaceInv => PartitionIsBounded
  BY BoundedFromInv DEF SpaceInv, StoreInv
<1>3. SpaceInv' => PartitionIsBounded'
  BY <1>2, PTL
<1>4. SpaceInv /\ SpaceInv' /\ [Next]_vars => [SweepFits /\ PartitionIsBounded']_vars
  BY <1>1, <1>3
<1> QED BY <1>4, SpaceInvariant, PTL DEF Spec, SpaceIsBounded
=============================================================================
