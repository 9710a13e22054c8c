------------------------- MODULE ObservabilityStore -------------------------
(***************************************************************************)
(* The files of packages/observability: LogStore and TraceStore append to  *)
(* the partition of their process, the StoreBudgetEnforcer of every        *)
(* process sweeps the partitions of all, and a LogTailer follows one file. *)
(*                                                                         *)
(* Inside a process everything is synchronous, but the processes share the *)
(* directory: a step ends where another process may have changed what was  *)
(* read.  Lines and traces are numbered in the order they are written, so  *)
(* the number of the last one stands for the mtime of a file.  Sizes are   *)
(* counted in lines, a trace file is as large as a line and the pid file   *)
(* takes no room.                                                          *)
(***************************************************************************)
EXTENDS Integers, Sequences, FiniteSets

CONSTANTS
    Processes,          \* each has one partition, named after it
    MaxWrites,          \* bound: how many entries are captured in all
    MaxLogFileSize,
    MaxLogFiles,        \* generations of a file, the live one included
    MaxTraceFiles,
    MaxStoreSize,       \* 0 for no limit
    RetainedInstances,
    SweepInterval,
    Unset

\* Sizes and counts: of its partition a process keeps one trace at least, one generation
\* of a file at least, and a file has room for a line.
ASSUME StoreAssumption ==
    /\ IsFiniteSet(Processes) /\ {MaxWrites, MaxStoreSize} \subseteq Nat
    /\ {MaxLogFileSize, MaxLogFiles, MaxTraceFiles, RetainedInstances, SweepInterval} \subseteq Nat \ {0}
    /\ Unset \notin Nat /\ Unset \notin Processes

Generations == 0..(MaxLogFiles - 1)     \* 0 is the live file
Kinds == {"logs", "requests"}
Stores == {"log", "trace"}
Missing == <<>>                         \* a file has a line or does not exist
NoDirectory == {0}                      \* no trace has the number 0
Unlisted == {0}
NoFiles == [k \in Kinds |-> [g \in Generations |-> Missing]]

VARIABLES
    partitions,     \* the directories
    newer,          \* <<p, q>>: that of p was modified after that of q
    pid,            \* the partitions with a pid file
    files,          \* files[p][kind][generation]: the numbers of the lines
    traces,         \* traces[p]: the trace files, NoDirectory without traces/
    readers,        \* do readers hold files open, so that renames and deletions fail?
    alive,          \* the processes that have not died
    pc,             \* where each process is
    item,           \* the number of the trace it is appending
    written,        \* the last number given
    ensured,        \* the stores of a process with directoryEnsured
    size,           \* RotatingJsonlWriter.size of each file
    retained,       \* TraceFileRetention.files: in the order of their numbers
    pendingBytes,
    sweep,          \* the sweep of each process
    after,          \* where it goes on after the sweep
    alone,          \* history: sweeps during which nobody else changed anything
    tailer,         \* the partition a tailer follows and its offset
    emitted         \* the last line it emitted

storeVars == <<partitions, newer, pid, files, traces>>
ownVars == <<item, written, ensured, size, retained>>
tailVars == <<tailer, emitted>>
vars == <<partitions, newer, pid, files, traces, readers, alive, pc, item, written, ensured,
          size, retained, pendingBytes, sweep, after, alone, tailer, emitted>>

NoSweep == [survivors |-> {}, order |-> {}, total |-> 0, candidates |-> {}]
SweepLabels == {"sweep", "abandon", "trim"}

Init ==
    /\ partitions = {} /\ newer = {} /\ pid = {}
    /\ files = [p \in Processes |-> NoFiles]
    /\ traces = [p \in Processes |-> NoDirectory]
    /\ readers \in BOOLEAN
    /\ alive = Processes
    /\ pc = [p \in Processes |-> "idle"]
    /\ item = [p \in Processes |-> 0]
    /\ written = 0
    /\ ensured = [p \in Processes |-> {}]
    /\ size = [p \in Processes |-> [k \in Kinds |-> Unset]]
    /\ retained = [p \in Processes |-> Unlisted]
    /\ pendingBytes = [p \in Processes |-> 0]
    /\ sweep = [p \in Processes |-> NoSweep]
    /\ after = [p \in Processes |-> "idle"]
    /\ alone = {}
    /\ tailer = [of |-> Unset, offset |-> 0]
    /\ emitted = 0

GoesTo(p, label) == pc' = [pc EXCEPT ![p] = label]
Exists(p) == p \in partitions

\* A directory is modified when an entry is created, renamed or deleted in it,
\* not when a file in it grows: those of T come before the others.
Touched(T) == {e \in newer : e[1] \in T <=> e[2] \in T} \cup (T \X (partitions \ T))

\* What a process does to the files disturbs the sweeps of the others.
Disturb(p) == alone' = alone \cap {p}

-----------------------------------------------------------------------------
(* Appending.                                                              *)

\* ensurePartitionDirectory(): the first append() of a store makes the directory,
\* with traces/ in it for traces, PartitionIndex.claim() writes the pid file once,
\* and a sweep follows.  Taken as one step: a sweep of another process that falls
\* between the two calls sees a partition without a pid file.
claim(p) == IF ensured[p] = {} THEN pid \cup {p} ELSE pid
ensurePartitionDirectory(p, store) ==
    /\ p \in alive /\ pc[p] = "idle" /\ store \notin ensured[p] /\ written < MaxWrites
    /\ ensured' = [ensured EXCEPT ![p] = @ \cup {store}]
    /\ partitions' = partitions \cup {p}
    /\ newer' = IF store = "trace" \/ ~Exists(p) THEN Touched({p}) ELSE newer
    /\ traces' = IF store = "trace" /\ traces[p] = NoDirectory
                   THEN [traces EXCEPT ![p] = {}] ELSE traces
    /\ pid' = claim(p)
    /\ GoesTo(p, "sweep") /\ Disturb(p)
    /\ after' = [after EXCEPT ![p] = store]
    /\ UNCHANGED <<files, readers, alive, item, written, size, retained, pendingBytes, sweep, tailVars>>

\* append() goes on, after the sweep or at once.
Appending(p, store) ==
    /\ p \in alive
    /\ pc[p] = store \/ (pc[p] = "idle" /\ store \in ensured[p] /\ written < MaxWrites)

\* recordBytes() sweeps after a rotation or when enough was written.
recordBytes(p, rotated, next) ==
    LET bytes == pendingBytes[p] + 1 IN
    /\ pendingBytes' = [pendingBytes EXCEPT ![p] = bytes]
    /\ IF rotated \/ bytes >= SweepInterval
         THEN GoesTo(p, "sweep") /\ after' = [after EXCEPT ![p] = next]
         ELSE GoesTo(p, next) /\ UNCHANGED after

\* The rename chain: the oldest generation is deleted, the others move up, the
\* live file last.  Where a step fails (generations F) the file stays and is
\* replaced by the one before it, if there is one.
rotateUpwards(f, F) ==
    [g \in Generations |-> IF g = 0 THEN (IF 0 \in F THEN f[0] ELSE Missing)
                           ELSE IF f[0] # Missing THEN f[0] ELSE f[g]]
rotate(f, F) ==
    [g \in Generations |->
        IF g > 0 /\ g - 1 \notin F /\ f[g - 1] # Missing THEN f[g - 1]
        ELSE IF g \in F THEN f[g] ELSE Missing]

\* RotatingJsonlWriter.append(): rotates, appends and reports, or throws when
\* the directory is gone; the logger and the tracer report that and go on.
AppendLine(p, kind, n) ==
    LET file == files[p][kind]
        known == IF size[p][kind] = Unset THEN Len(file[0]) ELSE size[p][kind]
        rotated == known > 0 /\ known + 1 > MaxLogFileSize
        start == IF rotated THEN 0 ELSE known
    IN
    /\ \E F \in IF rotated /\ readers THEN SUBSET Generations ELSE {{}} :
         LET now == IF rotated THEN rotate(file, F) ELSE file IN
         IF Exists(p)
           THEN /\ files' = [files EXCEPT ![p][kind] = [now EXCEPT ![0] = Append(@, n)]]
                /\ size' = [size EXCEPT ![p][kind] = start + 1]
                /\ newer' = IF rotated \/ now[0] = Missing THEN Touched({p}) ELSE newer
                /\ recordBytes(p, rotated, "idle") /\ Disturb(p)
           ELSE /\ size' = [size EXCEPT ![p][kind] = start]
                /\ GoesTo(p, "idle")
                /\ UNCHANGED <<files, newer, pendingBytes, after, alone>>
    /\ item' = [item EXCEPT ![p] = 0]
    /\ UNCHANGED <<partitions, pid, traces, readers, alive, ensured, retained, sweep, tailVars>>

\* LogStore.append().
appendLog(p) ==
    /\ Appending(p, "log")
    /\ written' = written + 1
    /\ AppendLine(p, "logs", written + 1)

\* TraceStore.append(): a trace is written to a file of its own ...
appendTrace(p) ==
    /\ Appending(p, "trace")
    /\ written' = written + 1
    /\ item' = [item EXCEPT ![p] = IF traces[p] = NoDirectory THEN 0 ELSE written + 1]
    /\ IF traces[p] # NoDirectory
         THEN /\ traces' = [traces EXCEPT ![p] = @ \cup {written + 1}]
              /\ recordBytes(p, FALSE, "register") /\ Disturb(p)
         ELSE GoesTo(p, "idle") /\ UNCHANGED <<traces, pendingBytes, after, alone>>
    /\ UNCHANGED <<partitions, newer, pid, files, readers, alive, ensured, size, retained, sweep, tailVars>>

\* ... unless it is too large; its summary is written in any case.
omitTrace(p) ==
    /\ Appending(p, "trace")
    /\ written' = written + 1
    /\ AppendLine(p, "requests", written + 1)
appendSummary(p) ==
    /\ p \in alive /\ pc[p] = "summary"
    /\ AppendLine(p, "requests", item[p])
    /\ UNCHANGED written

\* TraceFileRetention.register(): the listing is read if it is not known, then
\* the oldest files beyond the limit are deleted.
registerNewOnly(p) == IF retained[p] = Unlisted THEN {} ELSE retained[p]
tracesOf(p) == IF traces[p] = NoDirectory THEN {} ELSE traces[p]
Listing(p) == IF retained[p] # Unlisted THEN retained[p] ELSE tracesOf(p)
register(p) ==
    LET all == Listing(p) \cup {item[p]}
        stale == {n \in all : Cardinality({m \in all : m > n}) >= MaxTraceFiles}
    IN
    /\ p \in alive /\ pc[p] = "register"
    /\ retained' = [retained EXCEPT ![p] = all \ stale]
    /\ \E kept \in IF readers THEN SUBSET stale ELSE {{}} :
         traces' = IF traces[p] = NoDirectory THEN traces
                     ELSE [traces EXCEPT ![p] = @ \ (stale \ kept)]
    /\ GoesTo(p, "summary") /\ Disturb(p)
    /\ UNCHANGED <<partitions, newer, pid, files, readers, alive, item, written, ensured, size,
                   pendingBytes, sweep, after, tailVars>>

-----------------------------------------------------------------------------
(* StoreBudgetEnforcer.enforce().                                          *)

\* A process knows its own partition is live; of others it asks whether the
\* process in the pid file runs.  They all run as one user: whether a process of
\* another one runs would not be answered (EPERM), and it would count as dead.
isLiveOwnOnly(p, q) == q = p
isLive(p, q) == q = p \/ (q \in pid /\ q \in alive)

\* sizeOf(): what the lines and the traces of partitions take.
EntriesOf(p) ==
    {<<p, "traces", n, 1>> : n \in tracesOf(p)}
    \cup UNION {{<<p, f[1], f[2], i>> : i \in DOMAIN files[p][f[1]][f[2]]} : f \in Kinds \X Generations}
sizeOf(Q) == Cardinality(UNION {EntriesOf(q) : q \in Q})

\* PartitionIndex.remove() of whole partitions.
remove(Q) ==
    /\ partitions' = partitions \ Q
    /\ newer' = {e \in newer : e[1] \notin Q /\ e[2] \notin Q}
    /\ pid' = pid \ Q
    /\ files' = [q \in Processes |-> IF q \in Q THEN NoFiles ELSE files[q]]
    /\ traces' = [q \in Processes |-> IF q \in Q THEN NoDirectory ELSE traces[q]]

SweepStep(p, label) ==
    /\ p \in alive /\ pc[p] = label
    /\ UNCHANGED <<readers, alive, item, written, ensured, size, tailVars>>
Finish(p) ==
    /\ GoesTo(p, after[p])
    /\ sweep' = [sweep EXCEPT ![p] = NoSweep]
    /\ after' = [after EXCEPT ![p] = "idle"]

\* dropExpiredPartitions(): of newestFirst() the first RetainedInstances are spared,
\* fewer if some of them are past the age limit; the others are removed unless they
\* are live, and the survivors are measured.  Listing the partitions, asking whether
\* one is live and removing it is one step.
newestFirst(q) == Cardinality({r \in partitions : <<r, q>> \in newer})
dropExpiredPartitions(p) ==
    /\ SweepStep(p, "sweep")
    /\ \E spared \in 0..RetainedInstances :
         LET expired == {q \in partitions : newestFirst(q) >= spared /\ ~isLive(p, q)}
             survivors == partitions \ expired
             total == sizeOf(survivors)
         IN
         /\ remove(expired)
         /\ IF MaxStoreSize = 0 \/ total <= MaxStoreSize
              THEN Finish(p) /\ alone' = IF expired = {} THEN alone ELSE {}
              ELSE /\ sweep' = [sweep EXCEPT ![p] = [NoSweep EXCEPT !.survivors = survivors,
                                                         !.order = newer', !.total = total]]
                   /\ GoesTo(p, "abandon") /\ alone' = IF expired = {} THEN alone \cup {p} ELSE {p}
                   /\ UNCHANGED after
    /\ pendingBytes' = [pendingBytes EXCEPT ![p] = 0]
    /\ UNCHANGED retained

\* reclaimableFiles(): rotated generations and traces, never a live file.
Rotated(q) == {f \in Kinds \X (Generations \ {0}) : files[q][f[1]][f[2]] # Missing}
reclaimableFiles(q) ==
    {[of |-> q, file |-> f, size |-> Len(files[q][f[1]][f[2]]),
      mtime |-> files[q][f[1]][f[2]][Len(files[q][f[1]][f[2]])]] : f \in Rotated(q)}
    \cup {[of |-> q, file |-> <<"traces", n>>, size |-> 1, mtime |-> n] :
        n \in tracesOf(q)}

\* dropAbandonedPartitions(): those that are not live go, the oldest first, as long as
\* the store does not fit; then trimFiles() collects its candidates.
dropAbandonedPartitions(p) ==
    LET s == sweep[p]
        abandoned == {q \in s.survivors : ~isLive(p, q)}
        older(q) == {r \in abandoned : <<q, r>> \in s.order}
        gone == {q \in abandoned : s.total - sizeOf(older(q)) > MaxStoreSize}
        total == s.total - sizeOf(gone)
    IN
    /\ SweepStep(p, "abandon")
    /\ remove(gone)
    /\ IF total <= MaxStoreSize
         THEN Finish(p) /\ alone' = {}
         ELSE /\ sweep' = [sweep EXCEPT ![p] = [NoSweep EXCEPT !.total = total,
                      !.candidates = UNION {reclaimableFiles(q) : q \in s.survivors \ gone}]]
              /\ GoesTo(p, "trim") /\ Disturb(p)
              /\ UNCHANGED after
    /\ UNCHANGED <<retained, pendingBytes>>

\* trimFiles(): the candidates are deleted, the oldest first, or found to be gone, as
\* long as the store does not fit, and those that cannot be deleted are skipped.  A trace
\* is written before its summary.  A listener invalidates the cached listing when a file
\* of its own partition was among them.
Before(c, d) == c.mtime < d.mtime \/ (c.mtime = d.mtime /\ c.file[1] = "traces" /\ d.file[1] # "traces")
Freed(C) == Cardinality(UNION {{<<c.of, c.file[1], c.file[2], i>> : i \in 1..c.size} : c \in C})
trimFiles(p) ==
    LET s == sweep[p] IN
    /\ SweepStep(p, "trim")
    /\ \E held \in IF readers THEN SUBSET s.candidates ELSE {{}} :
         LET free == s.candidates \ held
             gone == {c \in free : s.total - Freed({d \in free : Before(d, c)}) > MaxStoreSize}
         IN
         /\ traces' = [q \in Processes |-> IF traces[q] = NoDirectory THEN NoDirectory
                         ELSE {n \in traces[q] :
                                ~\E c \in gone : c.of = q /\ c.file = <<"traces", n>>}]
         /\ files' = [q \in Processes |-> [k \in Kinds |-> [g \in Generations |->
                         IF \E c \in gone : c.of = q /\ c.file = <<k, g>> THEN Missing ELSE files[q][k][g]]]]
         /\ newer' = Touched({q \in partitions : files'[q] # files[q]})
         /\ retained' = IF \E c \in gone : c.of = p THEN [retained EXCEPT ![p] = Unlisted] ELSE retained
    /\ Finish(p) /\ alone' = {}
    /\ UNCHANGED <<partitions, pid, pendingBytes>>

\* A process that has written something dies, wherever it is; its memory is
\* gone, its files stay.
Die(p) ==
    /\ p \in alive /\ ensured[p] # {}
    /\ alive' = alive \ {p}
    /\ GoesTo(p, "idle")
    /\ item' = [item EXCEPT ![p] = 0]
    /\ ensured' = [ensured EXCEPT ![p] = {}]
    /\ size' = [size EXCEPT ![p] = [k \in Kinds |-> Unset]]
    /\ retained' = [retained EXCEPT ![p] = Unlisted]
    /\ pendingBytes' = [pendingBytes EXCEPT ![p] = 0]
    /\ sweep' = [sweep EXCEPT ![p] = NoSweep]
    /\ after' = [after EXCEPT ![p] = "idle"]
    /\ alone' = {}
    /\ UNCHANGED <<storeVars, readers, written, tailVars>>

-----------------------------------------------------------------------------
(* Readers.                                                                *)

\* LogStore.read(), TraceStore.readSummaries(): the newest generation first, and
\* of the last one that is read only what the limit leaves room for.
LastLines(s, n) == SubSeq(s, IF Len(s) > n THEN Len(s) - n + 1 ELSE 1, Len(s))
existingFiles(f) ==
    LET lines[g \in 0..MaxLogFiles] == IF g = 0 THEN <<>> ELSE f[g - 1] \o lines[g - 1]
    IN  lines[MaxLogFiles]
read(f, limit) ==
    LET lines[g \in 0..MaxLogFiles] ==
          IF g = 0 THEN <<>> ELSE LastLines(f[g - 1], limit - Len(lines[g - 1])) \o lines[g - 1]
    IN  lines[MaxLogFiles]

\* LogStore.tail(): what the live file of the first partition has is skipped.  The
\* tailer opens the file only to read from it.
tail ==
    /\ tailer.of = Unset
    /\ \E p \in partitions : newestFirst(p) = 0 /\ tailer' = [of |-> p, offset |-> Len(files[p]["logs"][0])]
    /\ UNCHANGED <<storeVars, readers, alive, pc, ownVars, pendingBytes, sweep, after, alone, emitted>>

\* LogTailer.drain(), some time after the file changed.
ResetToStart(n) == 0
ResetTo(n) == n
drain ==
    /\ tailer.of # Unset
    /\ LET file == files[tailer.of]["logs"][0]
           n == Len(file)
       IN
       /\ file # Missing
       /\ tailer' = [tailer EXCEPT !.offset = IF n <= @ THEN ResetTo(n) ELSE n]
       /\ emitted' = IF n <= tailer.offset THEN emitted ELSE file[n]
    /\ UNCHANGED <<storeVars, readers, alive, pc, ownVars, pendingBytes, sweep, after, alone>>

-----------------------------------------------------------------------------
Enforce(p) ==
    dropExpiredPartitions(p) \/ dropAbandonedPartitions(p) \/ trimFiles(p)

Next ==
    \/ \E p \in Processes :
         \/ \E store \in Stores : ensurePartitionDirectory(p, store)
         \/ appendLog(p) \/ appendTrace(p) \/ omitTrace(p) \/ register(p)
         \/ appendSummary(p)
         \/ Enforce(p) \/ Die(p)
    \/ tail \/ drain

Spec == Init /\ [][Next]_vars

-----------------------------------------------------------------------------
(* Properties                                                              *)

\* "No writer ever loses the file under its feet": the partition of a running
\* process that has claimed it is removed by no sweep, of whatever process.
WriterKeepsItsFile ==
    \A p \in alive : ensured[p] # {} => Exists(p)

Increasing(s) == \A i, j \in DOMAIN s : i < j => s[i] < s[j]

\* Readers see the entries of a partition in the order they were written and,
\* with a limit, the newest ones, across rotations whose renames fail and
\* sweeps that take generations out of the middle.
ReadInWriteOrder ==
    \A p \in Processes, k \in Kinds :
        LET all == existingFiles(files[p][k]) IN
        /\ Increasing(all)
        /\ \A limit \in 0..MaxWrites : read(files[p][k], limit) = LastLines(all, limit)

\* Whatever is rotated or removed under it, a tailer emits no line twice and
\* none out of order: what it has yet to read is newer than what it emitted.
TailFollowsInOrder ==
    tailer.of # Unset =>
        LET file == files[tailer.of]["logs"][0] IN
        \A i \in DOMAIN file : i > tailer.offset => file[i] > emitted

\* While processes start, write, rotate, sweep and stop, a running one keeps its file and
\* readers miss, repeat and reorder nothing that is still stored.
LogsAreKept == WriterKeepsItsFile /\ ReadInWriteOrder /\ TailFollowsInOrder

\* A partition keeps to its limits when nothing it deletes is held open: also
\* after sweeps of other processes have made the list of traces stale.
PartitionIsBounded ==
    ~readers => \A p \in alive :
        /\ \A k \in Kinds, g \in Generations : Len(files[p][k][g]) <= MaxLogFileSize
        /\ pc[p] = "idle" /\ traces[p] # NoDirectory => Cardinality(traces[p]) <= MaxTraceFiles

\* A sweep that nobody interferes with leaves the store within its limit, or
\* with nothing in it but live files of running processes.
SweepFits ==
    ~readers /\ MaxStoreSize > 0 =>
        \A p \in alive' : pc[p] \in SweepLabels /\ pc'[p] \notin SweepLabels /\ (pc[p] = "sweep" \/ p \in alone) =>
            \/ sizeOf(partitions)' <= MaxStoreSize
            \/ \A q \in partitions' : isLive(p, q)' /\ reclaimableFiles(q)' = {}

\* StoreBudgetEnforcer, RotatingJsonlWriter and TraceFileRetention: no step leaves a
\* partition past its limits, and no sweep ends with more than the store may hold.
SpaceIsBounded == [][SweepFits /\ PartitionIsBounded']_vars
=============================================================================
