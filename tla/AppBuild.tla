------------------------------ MODULE AppBuild ------------------------------
(***************************************************************************)
(* packages/cli, from `pristine <command>` to the AppModule that runs it:  *)
(* AppModuleLoader with its gate on the build manifest, PluginLoader, and  *)
(* `p:build`.  A rebuild is another process of the same command line, and  *)
(* the one that spawned it waits.  The developer edits the source and the  *)
(* config, and answers the prompts, at any moment.                         *)
(*                                                                         *)
(* A config is Unset when there is no file, or one of ConfigFiles: are     *)
(* both paths of cli.appModule given, the format of the output they name,  *)
(* what p:build compiles, and what becomes of the plugins.  tsc is         *)
(* external: it reads the source, then writes.                             *)
(***************************************************************************)
EXTENDS Naturals, Sequences, SequencesExt

CONSTANTS Sources,          \* contents of the source of the AppModule
          Configs,
          Tsconfigs,        \* the formats that have a tsconfig
          MaxEdits,         \* bound: edits of the developer
          MaxProcesses,     \* bound: processes that wait for each other
          Unset

Formats == {"esm", "cjs"}
ConfigFiles == [paths : BOOLEAN, out : Formats, format : Formats \cup {"both"}, clean : BOOLEAN,
                plugins : {"none", "ok", "broken"}]
Manifests == [out : Formats, hash : Sources]

BuildAssumption ==
    /\ Configs \subseteq ConfigFiles \cup {Unset}
    /\ Unset \notin ConfigFiles \cup Manifests \cup Sources

VARIABLES project,      \* [source, config, output, manifest, isTTY]
          processes,    \* the last one runs, the others wait
          edits,
          undisturbed   \* history of the manifest: nothing was edited during the build that
                        \* wrote it, in which tsc wrote the output it names, and no tsc has
                        \* written that output since

buildVars == <<project, processes, edits, undisturbed>>

Process(command) ==
    [command |-> command, at |-> "start", code |-> Unset, config |-> Unset,
     app |-> Unset, plugins |-> FALSE, gate |-> Unset, checked |-> Unset, undisturbed |-> FALSE,
     built |-> Unset, since |-> 0, left |-> <<>>, compiled |-> {}, read |-> Unset]
BuildInit ==
    /\ \E s \in Sources, c \in Configs, t \in BOOLEAN :
         project = [isTTY |-> t, source |-> s, config |-> c, output |-> [f \in Formats |-> Unset], manifest |-> Unset]
    /\ processes = <<>>
    /\ edits = 0
    /\ undisturbed = FALSE

running == Last(processes)
ProcessAt(place) == processes # <<>> /\ running.at = place
Becomes(q) == processes' = Append(Front(processes), q)
Go(place) == Becomes([running EXCEPT !.at = place])
Exits(code) == Becomes([running EXCEPT !.at = "done", !.code = code])

-----------------------------------------------------------------------------
(* The developer.                                                           *)

Edit ==
    /\ edits < MaxEdits
    /\ edits' = edits + 1
    /\ \E s \in Sources, c \in Configs :
         /\ s = project.source \/ c = project.config
         /\ project' = [project EXCEPT !.source = s, !.config = c]
    /\ UNCHANGED <<processes, undisturbed>>
Run(command) ==
    /\ processes = <<>> \/ (Len(processes) = 1 /\ ProcessAt("done"))
    /\ processes' = <<Process(command)>>
    /\ UNCHANGED <<project, edits, undisturbed>>

-----------------------------------------------------------------------------
(* AppModuleLoader.load().                                                  *)

\* ConfigLoader.load(): a config that cannot be imported ends the process.
loadConfig ==
    /\ ProcessAt("start")
    /\ \/ LET c == project.config
              app == c # Unset /\ c.paths
          IN  Becomes([running EXCEPT !.config = c, !.at = IF app THEN "check" ELSE "plugins", !.app = IF app THEN Unset ELSE "built-ins"])
       \/ project.config # Unset /\ Exits(1)
    /\ UNCHANGED <<project, edits, undisturbed>>

\* BuildManifestChecker.check(), with the path of the source always the same.
trustManifest(c) ==
    IF project.manifest = Unset THEN "missing"
    ELSE IF project.output[c.out] = Unset THEN "output-missing" ELSE "fresh"
check(c) ==
    LET m == project.manifest IN
    IF m = Unset THEN "missing"
    ELSE IF m.out # c.out THEN "output-path-changed"
    ELSE IF project.output[m.out] = Unset THEN "output-missing"
    ELSE IF m.hash # project.source THEN "source-content-changed" ELSE "fresh"

Passes(staleness) ==
    Becomes([running EXCEPT !.at = "import", !.gate = staleness, !.checked = project.source, !.undisturbed = undisturbed])
\* The gate stays closed: the built-in commands, without plugins.
Closed == [running EXCEPT !.at = "command", !.app = "built-ins"]

\* ensureFreshBuild(): without a manifest, an output that exists will do.
ensureFreshBuild ==
    /\ ProcessAt("check")
    /\ LET staleness == check(running.config) IN
       IF staleness = "fresh" \/ (staleness = "missing" /\ project.output[running.config.out] # Unset)
         THEN Passes(staleness)
         ELSE IF project.isTTY THEN Go("prompt") ELSE Becomes(Closed)
    /\ UNCHANGED <<project, edits, undisturbed>>

\* BuildRunner.run() spawns the command line again, which loads its own AppModule first.
prompt ==
    /\ ProcessAt("prompt")
    /\ \/ Becomes(Closed)
       \/ /\ Len(processes) < MaxProcesses
          /\ processes' = Append(Front(processes), [running EXCEPT !.at = "waiting"]) \o <<Process("p:build")>>
    /\ UNCHANGED <<project, edits, undisturbed>>

\* The spawned process has ended; the gate is tried once more.
rebuilt ==
    /\ ProcessAt("done") /\ Len(processes) > 1
    /\ LET parent == processes[Len(processes) - 1]
           closed == [parent EXCEPT !.at = "command", !.app = "built-ins"]
       IN  processes' = Append(SubSeq(processes, 1, Len(processes) - 2),
             IF running.code = 0 THEN [parent EXCEPT !.at = "recheck"] ELSE closed)
    /\ UNCHANGED <<project, edits, undisturbed>>
recheck ==
    /\ ProcessAt("recheck")
    /\ IF check(running.config) = "fresh" THEN Passes("fresh") ELSE Becomes(Closed)
    /\ UNCHANGED <<project, edits, undisturbed>>

\* importAppModule(): what cannot be imported is replaced by the built-in commands.
importAppModule ==
    /\ ProcessAt("import")
    /\ \E app \in {project.output[running.config.out], Unset} :
         Becomes([running EXCEPT !.at = "plugins", !.app = IF app = Unset THEN "built-ins" ELSE app])
    /\ UNCHANGED <<project, edits, undisturbed>>

\* PluginLoader.load(): one plugin that fails costs all of them.
loadPlugins ==
    /\ ProcessAt("plugins")
    /\ Becomes([running EXCEPT !.at = "command", !.plugins = running.config # Unset /\ running.config.plugins = "ok"])
    /\ UNCHANGED <<project, edits, undisturbed>>

\* The kernel is started and the command dispatched; either may fail.
handle ==
    /\ ProcessAt("command")
    /\ \/ running.command = "p:build" /\ Go("build")
       \/ running.command # "p:build" /\ Exits(0)
       \/ Exits(1)
    /\ UNCHANGED <<project, edits, undisturbed>>

-----------------------------------------------------------------------------
(* BuildCommand.run().                                                      *)

existing(format) == IF format \in Tsconfigs THEN <<format>> ELSE <<>>
resolveTscInvocations(format) ==
    CASE format = "esm" -> existing("esm")
      [] format = "cjs" -> IF "cjs" \in Tsconfigs THEN <<"cjs">> ELSE existing("esm")
      [] format = "both" -> existing("esm") \o existing("cjs")

\* The config is read once more, and the output is cleaned before anything can fail.
startBuild ==
    /\ ProcessAt("build")
    /\ LET c == project.config
           calls == resolveTscInvocations(IF c = Unset THEN "esm" ELSE c.format)
           q == [running EXCEPT !.built = c, !.since = edits, !.left = calls]
       IN  /\ project' = IF c # Unset /\ c.clean THEN [project EXCEPT !.output = [f \in Formats |-> Unset]] ELSE project
           /\ Becomes(IF calls = <<>> THEN [q EXCEPT !.at = "done", !.code = 1] ELSE [q EXCEPT !.at = "compile"])
    /\ UNCHANGED <<edits, undisturbed>>

tscReads ==
    /\ ProcessAt("compile")
    /\ Becomes([running EXCEPT !.at = "tsc", !.read = project.source])
    /\ UNCHANGED <<project, edits, undisturbed>>
\* tsc may write although it fails, and succeed although it emits nothing.
tscEnds ==
    /\ ProcessAt("tsc")
    /\ \E wrote, succeeds \in BOOLEAN :
         LET f == Head(running.left) IN
         /\ project' = IF wrote THEN [project EXCEPT !.output[f] = running.read] ELSE project
         /\ undisturbed' = (undisturbed /\ ~(wrote /\ project.manifest.out = f))
         /\ IF ~succeeds THEN Exits(1)
            ELSE Becomes([running EXCEPT !.left = Tail(@), !.compiled = IF wrote THEN @ \cup {f} ELSE @,
                                   !.at = IF Len(running.left) = 1 THEN "manifest" ELSE "compile"])
    /\ UNCHANGED edits

\* writeManifestIfConfigured(): the source is hashed now, after it was compiled.
manifestOf(c) == [out |-> c.out, hash |-> project.source]
writeManifest ==
    /\ ProcessAt("manifest")
    /\ LET c == running.built IN
       IF c = Unset \/ ~c.paths \/ project.output[c.out] = Unset THEN UNCHANGED <<project, undisturbed>>
       ELSE /\ project' = [project EXCEPT !.manifest = manifestOf(c)]
            /\ undisturbed' = (running.since = edits /\ c.out \in running.compiled)
    /\ Exits(0)
    /\ UNCHANGED edits

BuildNext ==
    \/ Edit \/ \E command \in {"p:build", "other"} : Run(command)
    \/ loadConfig \/ ensureFreshBuild \/ prompt \/ rebuilt \/ recheck \/ importAppModule \/ loadPlugins \/ handle
    \/ startBuild \/ tscReads \/ tscEnds \/ writeManifest
BuildSpec == BuildInit /\ [][BuildNext]_buildVars

-----------------------------------------------------------------------------
(* Properties                                                               *)

\* What the gate lets through as fresh is the compilation of the source at that moment,
\* unless something was edited during the build that wrote the manifest (tsc has read
\* the source before the manifest hashes it), its tsc did not write the configured
\* output, or a later tsc wrote that output and no manifest followed.
LoadedIsCurrent ==
    \A i \in DOMAIN processes :
       LET q == processes[i] IN
       q.gate = "fresh" /\ q.undisturbed /\ q.app \notin {Unset, "built-ins"} => q.app = q.checked

\* A build that succeeds and compiled the output that is configured opens the gate, as
\* long as nothing is edited, however many rebuilds were nested in each other.
BuildOpensGate ==
    LET q == running IN
    processes # <<>> /\ q.at = "done" /\ q.code = 0 /\ q.built # Unset /\ q.since = edits /\ q.built.paths
      /\ q.built.out \in q.compiled
      => check(q.built) = "fresh" /\ project.output[q.built.out] = project.source

\* AppModuleLoader and p:build: the AppModule that is loaded as fresh is the one in the
\* source, and a build opens the gate of the next command.
BuildsAreCurrent == LoadedIsCurrent /\ BuildOpensGate
=============================================================================
