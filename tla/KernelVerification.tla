-------------------------- MODULE KernelVerification --------------------------
(***************************************************************************)
(* Kernel.verifyInstantiation() and the InstantiationReport it builds: the *)
(* boot phases are run one after the other, the outcome of each recorded   *)
(* instead of thrown.                                                      *)
(***************************************************************************)
EXTENDS Naturals, Sequences

CONSTANT MaxTests    \* how many instantiation tests may be registered

Phases == <<"ModuleRegistration", "ConfigurationCheck", "ConfigurationLoad",
            "ServiceTagRegistration", "AfterInit", "BootProbe",
            "InstantiationTests">>
\* The number after the last phase: the report was returned.
Returned == 8

VARIABLES
    runInstantiationTests,  \* the two options of the call
    stopOnFirstFailure,
    phases,                 \* report.phases
    tests,                  \* report.instantiationTests: did each pass?
    configurationManager,   \* were the definitions registered?
    pc                      \* the number of the phase to run next

verifyVars == <<runInstantiationTests, stopOnFirstFailure, phases, tests,
                configurationManager, pc>>
options == <<runInstantiationTests, stopOnFirstFailure>>

VerifyInit ==
    /\ runInstantiationTests \in BOOLEAN
    /\ stopOnFirstFailure \in BOOLEAN
    /\ phases = <<>>
    /\ tests = <<>>
    /\ configurationManager = FALSE
    /\ pc = 1

PhaseResult(n, status) == [phase |-> Phases[n], status |-> status]

\* skipRemainingPhases(): every phase from n on is reported as skipped.
skipRemainingButLast(n) ==
    [i \in 1..(Len(Phases) - n) |-> PhaseResult(n - 1 + i, "Skipped")]
skipRemainingPhases(n) ==
    [i \in 1..(Len(Phases) + 1 - n) |-> PhaseResult(n - 1 + i, "Skipped")]

\* What follows phase n: the next one, or the end of the report.
GoOn(n, status) ==
    /\ phases' = Append(phases, PhaseResult(n, status))
    /\ pc' = n + 1
Halt(n) ==
    /\ phases' = Append(phases, PhaseResult(n, "Failed"))
                   \o skipRemainingPhases(n + 1)
    /\ pc' = Returned

\* runPhase(): an exception becomes the status of the phase, and the end of
\* the report when the caller asked for that.
runPhase(n) ==
    /\ pc = n
    /\ \/ GoOn(n, "Passed")
       \/ ~stopOnFirstFailure /\ GoOn(n, "Failed")
       \/ stopOnFirstFailure /\ Halt(n)

\* Without modules there is nothing to go on with, whatever the options.
ModuleRegistration ==
    /\ pc = 1
    /\ GoOn(1, "Passed") \/ Halt(1)
    /\ UNCHANGED <<options, tests, configurationManager>>

\* The definitions are registered, then the missing values are listed: either
\* may throw, and a value that is missing makes the status a warning.
ConfigurationCheckAsWarning ==
    /\ pc = 2
    /\ \/ /\ configurationManager' = TRUE
          /\ GoOn(2, "Passed")
       \/ /\ configurationManager' \in BOOLEAN
          /\ GoOn(2, "PassedWithWarnings")
    /\ UNCHANGED <<options, tests>>
ConfigurationCheck ==
    /\ pc = 2
    /\ \/ /\ configurationManager' = TRUE
          /\ GoOn(2, "Passed") \/ GoOn(2, "PassedWithWarnings")
       \/ /\ configurationManager' \in BOOLEAN
          /\ IF stopOnFirstFailure THEN Halt(2) ELSE GoOn(2, "Failed")
    /\ UNCHANGED <<options, tests>>

\* Values are loaded unless there are no definitions to load.
ConfigurationLoad ==
    /\ IF configurationManager THEN runPhase(3) ELSE pc = 3 /\ GoOn(3, "Skipped")
    /\ UNCHANGED <<options, tests, configurationManager>>

ServiceTagRegistration ==
    /\ runPhase(4)
    /\ UNCHANGED <<options, tests, configurationManager>>

AfterInit ==
    /\ runPhase(5)
    /\ UNCHANGED <<options, tests, configurationManager>>

\* A failed probe is recorded and does not end the report.
BootProbe ==
    /\ pc = 6
    /\ GoOn(6, "Passed") \/ GoOn(6, "Failed")
    /\ UNCHANGED <<options, tests, configurationManager>>

\* One registered test is run and its outcome recorded; the phase itself
\* passes whatever the tests say.
InstantiationTest ==
    /\ pc = 7 /\ runInstantiationTests
    /\ Len(tests) < MaxTests
    /\ \E passed \in BOOLEAN : tests' = Append(tests, passed)
    /\ UNCHANGED <<options, phases, configurationManager, pc>>

InstantiationTests ==
    /\ pc = 7
    /\ phases' = Append(phases, PhaseResult(7, IF runInstantiationTests THEN "Passed" ELSE "Skipped"))
    /\ pc' = Returned
    /\ UNCHANGED <<options, tests, configurationManager>>

VerifyNext ==
    \/ ModuleRegistration \/ ConfigurationCheck \/ ConfigurationLoad
    \/ ServiceTagRegistration \/ AfterInit \/ BootProbe
    \/ InstantiationTest \/ InstantiationTests

VerifySpec == VerifyInit /\ [][VerifyNext]_verifyVars

\* InstantiationReport.overallStatus.
SomePhase(status) == \E i \in 1..Len(phases) : phases[i].status = status
FailedTest == \E i \in 1..Len(tests) : ~tests[i]
overallStatus ==
    IF SomePhase("Failed") \/ FailedTest THEN "Failed"
    ELSE IF SomePhase("PassedWithWarnings") THEN "PassedWithWarnings"
    ELSE "Passed"

-----------------------------------------------------------------------------
(* Properties                                                              *)

\* The finished report names every phase exactly once and in boot order, on
\* each of the early returns of verifyInstantiation() and for all options.
ReportIsComplete ==
    pc = Returned =>
        /\ Len(phases) = Len(Phases)
        /\ \A i \in 1..Len(phases) : phases[i].phase = Phases[i]

\* A report without errors vouches for start(): every phase start() runs
\* really ran and passed, none was skipped, and no instantiation test failed.
CleanReportMeansBootable ==
    pc = Returned /\ overallStatus # "Failed" =>
        /\ \A i \in 1..6 : phases[i].status \in {"Passed", "PassedWithWarnings"}
        /\ ~FailedTest

\* What the report says is complete and can be relied on.
ReportIsFaithful == ReportIsComplete /\ CleanReportMeansBootable
=============================================================================
