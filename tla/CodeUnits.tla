------------------------------ MODULE CodeUnits ------------------------------
(***************************************************************************)
(* The implementation phase as the execution backend does it               *)
(* (sdk/openhands_adapter.py): one file of the plan a dispatch, and then   *)
(* the verification pass, which runs the configured tests and has the      *)
(* model repair what they implicate, for a bounded number of rounds.       *)
(*                                                                         *)
(* The supervisor dispatches again after every unit and every failure; the *)
(* units it has recorded are in the run's file.  Everything else is lost   *)
(* with the process, but for the files of the workspace.                   *)
(***************************************************************************)
EXTENDS Naturals, FiniteSets

CONSTANTS
    N,              \* files of the plan, in its order
    Configs,        \* the configurations of a run, see Configurations
    MaxRounds       \* repairMaxRounds

ASSUME UnitsAssumption ==
    /\ N \in Nat \ {0}
    /\ MaxRounds \in Nat
    /\ Configs \subseteq [command : {"none", "local", "docker"}, \* testExecutor
                          listed  : BOOLEAN,    \* the plan names its files
                          pinned  : BOOLEAN,    \* the contract has a manifest
                          report  : BOOLEAN,    \* {junit_xml} in the command
                          setup   : BOOLEAN]    \* testSetupCommand
    /\ \A c \in Configs : c.pinned => c.listed

Files == 1 .. N

(***************************************************************************)
(* What a file holds: broken does not compile, unpinned lacks a symbol of  *)
(* the manifest, wrong makes a test fail.                                  *)
(***************************************************************************)
Written == {"broken", "unpinned", "wrong", "good"}
Reports == {"none", "current", "old"}   \* whose round wrote the report
Runs    == {"none", "passed", "red", "timeout", "violation"}

VARIABLES
    config,
    pc,         \* where the dispatch is
    code,       \* code[f]: the file on disk
    recorded,   \* phase_progress: the units the run's file records
    completed,  \* the phase is
    job,        \* the pass: its artifacts, files to repair, rounds, last run
    report,     \* .anvil/junit-report.xml in the workspace
    box,        \* the container the executor knows, its network and its report
    left,       \* networks of the containers that are left running
    obeyed      \* docker did, and said, what it was asked to; nobody died

vars == <<config, pc, code, recorded, completed, job, report, box, left, obeyed>>
boxes == <<box, left, obeyed>>

NoJob == [artifacts |-> {}, todo |-> {}, rounds |-> 0, run |-> "none"]
NoBox == [net |-> "none", report |-> "none"]

Init ==
    /\ config \in Configs
    /\ pc = "idle"
    /\ code = [f \in Files |-> "absent"]
    /\ recorded = {}
    /\ completed = FALSE
    /\ job = NoJob
    /\ report = "none"
    /\ box = NoBox
    /\ left = {}
    /\ obeyed = TRUE

Tested == config.command # "none"

\* The next round finds an earlier round's report.
Aged(r) == IF r = "current" THEN "old" ELSE r

\* _run_code_unit: the artifacts the supervisor has not recorded.
Remaining == Files \ recorded

NextUnit(f) == f \in Remaining /\ \A g \in Remaining : f =< g

\* Fault: the phase ends with its last file though there are tests to run.
EndsPhaseEarly(f) == Remaining = {f}

\* The last file ends the phase if no verification pass follows.
EndsPhase(f) == Remaining = {f} /\ ~Tested

\* run: which kind of dispatch this is.
Dispatch ==
    /\ pc = "idle"
    /\ ~completed
    /\ IF config.listed /\ Remaining = {}
       THEN /\ pc' = IF Tested THEN "smoke" ELSE "validate"
            /\ job' = [NoJob EXCEPT !.artifacts = Files]
       ELSE /\ pc' = IF config.listed THEN "generate" ELSE "single"
            /\ job' = NoJob
    /\ UNCHANGED <<config, code, recorded, completed, report, boxes>>

\* _generate_one: a usable completion in one of its attempts, or none.
Generate ==
    /\ pc = "generate"
    /\ \E f \in Files :
           /\ NextUnit(f)
           /\ \/ /\ \E text \in Written : code' = [code EXCEPT ![f] = text]
                 /\ pc' = IF EndsPhase(f) THEN "validate" ELSE "record"
                 /\ job' = [job EXCEPT !.artifacts = IF EndsPhase(f) THEN Files ELSE {f}]
              \/ pc' = "idle" /\ UNCHANGED <<code, job>>
    /\ UNCHANGED <<config, recorded, completed, report, boxes>>

\* _record_unit
Record ==
    /\ pc = "record"
    /\ pc' = "idle"
    /\ recorded' = recorded \cup job.artifacts
    /\ UNCHANGED <<config, code, completed, job, report, boxes>>

\* _run_code_single: one completion for whatever files the model names.
Single ==
    /\ pc = "single"
    /\ \/ \E named \in SUBSET Files \ {{}} : \E text \in [named -> Written] :
              /\ code' = [f \in Files |-> IF f \in named THEN text[f] ELSE code[f]]
              /\ job' = [job EXCEPT !.artifacts = named]
              /\ pc' = IF Tested THEN "smoke" ELSE "validate"
       \/ pc' = "idle" /\ UNCHANGED <<code, job>>
    /\ UNCHANGED <<config, recorded, completed, report, boxes>>

-----------------------------------------------------------------------------
\* compile_smoke, before the first run of the command.
Smoke ==
    LET broken == {f \in job.artifacts : code[f] = "broken"}
    IN  /\ pc = "smoke"
        /\ pc' = IF broken = {} THEN "prepare" ELSE "repair"
        /\ job' = [job EXCEPT !.todo = broken]
        /\ UNCHANGED <<config, code, recorded, completed, report, boxes>>

\* _repair_files: one completion for each; an unusable one fails the step.
Repair ==
    /\ pc = "repair"
    /\ job.todo # {}
    /\ \/ \E f \in job.todo, text \in Written :
              /\ code' = [code EXCEPT ![f] = text]
              /\ job' = [job EXCEPT !.todo = @ \ {f}]
              /\ UNCHANGED pc
       \/ pc' = "close" /\ UNCHANGED <<code, job>>
    /\ UNCHANGED <<config, recorded, completed, report, boxes>>

\* validate_manifest finds something.
Violates == config.pinned /\ \E f \in Files : code[f] \in {"absent", "broken", "unpinned"}

(***************************************************************************)
(* After a round of repair the manifest is checked, and a violation stands *)
(* for a red run.  Round zero goes straight to the tests.                  *)
(***************************************************************************)
RepairEnds ==
    /\ pc = "repair"
    /\ job.todo = {}
    /\ IF job.rounds > 0 /\ Violates
       THEN /\ pc' = "decide"
            /\ job' = [job EXCEPT !.run = "violation"]
            /\ report' = Aged(report)
       ELSE pc' = "prepare" /\ UNCHANGED <<job, report>>
    /\ UNCHANGED <<config, code, recorded, completed, boxes>>

\* Fault: the last round's report stays where it is.
KeepReport == report' = Aged(report)

UnlinkReport == report' = "none"

\* run_tests_fresh
Prepare ==
    /\ pc = "prepare"
    /\ UnlinkReport
    /\ pc' = CASE config.command # "docker" -> "test"
               [] config.command = "docker" /\ box.net = "none" -> "start"
               [] OTHER -> "copy"
    /\ UNCHANGED <<config, code, recorded, completed, job, boxes>>

Started == [NoBox EXCEPT !.net = IF config.setup THEN "online" ELSE "offline"]

\* docker run has started a container and the executor has not got its id: it
\* took too long, failed after that, or said something else last.
StartUnheard ==
    /\ UNCHANGED box
    /\ left' = left \cup {Started.net}
    /\ obeyed' = FALSE

\* _ensure_container: docker may fail before the container is started, after
\* it, or making its workdir.
StartBox ==
    /\ pc = "start"
    /\ \/ /\ box' = Started
          /\ pc' \in {IF config.setup THEN "setup" ELSE "copy", "close"}
          /\ UNCHANGED <<left, obeyed>>
       \/ UNCHANGED boxes /\ pc' = "close"
       \/ StartUnheard /\ pc' = "close"
    /\ UNCHANGED <<config, code, recorded, completed, job, report>>

\* Fault: the result of the disconnect is not looked at.
SetupBoxUnchecked ==
    /\ pc = "setup"
    /\ \/ box' = [box EXCEPT !.net = "offline"] /\ pc' = "copy"
       \/ UNCHANGED box /\ pc' \in {"close", "copy"}
    /\ UNCHANGED <<config, code, recorded, completed, job, report, left, obeyed>>

\* The setup command, alone, has the network.
SetupBox ==
    /\ pc = "setup"
    /\ \/ box' = [box EXCEPT !.net = "offline"] /\ pc' = "copy"
       \/ UNCHANGED box /\ pc' = "close"
    /\ UNCHANGED <<config, code, recorded, completed, job, report, left, obeyed>>

\* _copy_in adds and replaces files: a report in the container stays.
CopyIn ==
    /\ pc = "copy"
    /\ pc' \in {"test", "close"}
    /\ box' = [box EXCEPT !.report = Aged(@)]
    /\ UNCHANGED <<config, code, recorded, completed, job, report, left, obeyed>>

\* The tests can pass.
Sound ==
    \A f \in Files : \/ code[f] \in {"good", "unpinned"}
                     \/ code[f] = "absent" /\ f \notin job.artifacts

\* The command exits; it may have died before it wrote its report.
TestsExit ==
    /\ pc = "test"
    /\ pc' = "decide"
    /\ \E exit \in {"red"} \cup (IF Sound THEN {"passed"} ELSE {}) :
           job' = [job EXCEPT !.run = exit]
    /\ \E wrote \in IF config.report THEN BOOLEAN ELSE {FALSE} :
           IF config.command = "docker"
           THEN /\ box' = IF wrote THEN [box EXCEPT !.report = "current"] ELSE box
                /\ report' \in {report, box'.report}
           ELSE /\ report' = IF wrote THEN "current" ELSE report
                /\ UNCHANGED box
    /\ UNCHANGED <<config, code, recorded, completed, left, obeyed>>

\* Nobody will remove the container, if there is one.
AbandonBox ==
    /\ box' = NoBox
    /\ left' = left \cup ({box.net} \ {"none"})
    /\ obeyed' = IF box = NoBox THEN obeyed ELSE FALSE

\* Fault: the container is removed only on the way out that passed.
RemoveBoxIfPassed ==
    /\ box' = IF job.run = "passed" THEN NoBox ELSE box
    /\ UNCHANGED <<left, obeyed>>

\* DockerExecutor.close: what docker rm says is not looked at, and the id is
\* forgotten whether the container is gone or not.
RemoveBox ==
    \/ box' = NoBox /\ UNCHANGED <<left, obeyed>>
    \/ AbandonBox

\* The command is killed after testTimeoutS; a container goes with it.
TestsTimeOut ==
    /\ pc = "test"
    /\ pc' = "decide"
    /\ job' = [job EXCEPT !.run = "timeout"]
    /\ RemoveBox
    /\ report' \in IF config.command = "local" /\ config.report
                   THEN {report, "current"} ELSE {report}
    /\ UNCHANGED <<config, code, recorded, completed>>

\* _default_exec finds no docker CLI any more: to run the command, to copy its
\* report out or to remove its container.
DockerGone ==
    /\ pc = "test"
    /\ config.command = "docker"
    /\ pc' = "close"
    /\ UNCHANGED <<config, code, recorded, completed, job, report, boxes>>

\* Fault: no exit code, None, taken for zero.
PassedUnlessRed == job.run \in {"passed", "timeout"}

\* TestRunResult.passed
Passed == job.run = "passed"

\* Fault: a round is not counted.
Uncounted(rounds) == rounds

RoundsLeft == job.rounds < MaxRounds
Counted(rounds) == rounds + 1

Decide ==
    /\ pc = "decide"
    /\ IF ~Passed /\ RoundsLeft
       THEN pc' = "localize" /\ job' = [job EXCEPT !.rounds = Counted(@)]
       ELSE pc' = "close" /\ UNCHANGED job
    /\ UNCHANGED <<config, code, recorded, completed, report, boxes>>

\* The files a report or the output may name: their failures are clustered
\* by file and error, and what names no file implicates all of them.
Implicated == SUBSET job.artifacts \ {{}}

\* localize
Localize ==
    /\ pc = "localize"
    /\ pc' = "repair"
    /\ \E files \in Implicated : job' = [job EXCEPT !.todo = files]
    /\ UNCHANGED <<config, code, recorded, completed, report, boxes>>

\* The finally clause, on every way out; then the step's result.  Without a
\* docker CLI the clause itself raises.
Close ==
    /\ pc = "close"
    /\ \/ RemoveBox /\ pc' = IF Passed THEN "validate" ELSE "idle"
       \/ box # NoBox /\ AbandonBox /\ pc' = "idle"
    /\ UNCHANGED <<config, code, recorded, completed, job, report>>

-----------------------------------------------------------------------------
\* _post_phase_checks and _record_success; drift may refuse what is valid.
Validate ==
    /\ pc = "validate"
    /\ pc' = "idle"
    /\ \/ /\ ~Violates
          /\ \A f \in job.artifacts : code[f] # "absent"
          /\ completed' = TRUE
          /\ recorded' = {}
       \/ UNCHANGED <<completed, recorded>>
    /\ UNCHANGED <<config, code, job, report, boxes>>

\* rollback: units go, files stay.
Rollback ==
    /\ pc = "idle"
    /\ recorded' = {}
    /\ completed' = FALSE
    /\ UNCHANGED <<config, pc, code, job, report, boxes>>

\* The process dies, and nobody knows its container any more, or the one it
\* was just starting.
Crash ==
    /\ pc # "idle"
    /\ pc' = "idle"
    /\ job' = NoJob
    /\ AbandonBox \/ (pc = "start" /\ StartUnheard)
    /\ report' = Aged(report)
    /\ UNCHANGED <<config, code, recorded, completed>>

Pass ==
    \/ Generate \/ Record \/ Single \/ Smoke \/ Repair \/ RepairEnds \/ Prepare
    \/ StartBox \/ SetupBox \/ CopyIn \/ TestsExit \/ TestsTimeOut \/ DockerGone
    \/ Decide \/ Localize \/ Close \/ Validate

Next == Dispatch \/ Pass \/ Rollback \/ Crash

\* The thread of a dispatch goes on.
Spec == Init /\ [][Next]_vars /\ WF_vars(Pass)

-----------------------------------------------------------------------------
\* Every variable has its type; the files to repair are the pass's own.
TypeOK ==
    /\ config \in Configs
    /\ pc \in {"idle", "generate", "record", "single", "smoke", "repair", "prepare", "start",
              "setup", "copy", "test", "decide", "localize", "close", "validate"}
    /\ code \in [Files -> Written \cup {"absent"}]
    /\ recorded \subseteq Files
    /\ completed \in BOOLEAN
    /\ job \in [artifacts : SUBSET Files, todo : SUBSET Files,
               rounds : 0 .. MaxRounds, run : Runs]
    /\ job.todo \subseteq job.artifacts
    /\ report \in Reports
    /\ box \in [net : {"none", "online", "offline"}, report : Reports]
    /\ left \subseteq {"online", "offline"}
    /\ obeyed \in BOOLEAN

(***************************************************************************)
(* The phase is completed only on files the configured tests passed on, as *)
(* they are, and that keep the manifest: whatever was repaired, retried,   *)
(* rolled back or lost on the way.                                         *)
(***************************************************************************)
CompletedIsVerified == completed => (Tested => Sound) /\ ~Violates

\* A dispatch never generates what is recorded (FR-AG-003), after a crash or
\* a failed pass either.  Repairing it is another matter.
UnitsKept == [][pc = "generate" => \A f \in recorded : code'[f] = code[f]]_vars

(***************************************************************************)
(* Which files a round repairs is read off this round's report, or no      *)
(* report: run_tests_fresh says why.                                       *)
(***************************************************************************)
ReportCurrent == pc = "localize" => report # "old"

\* So it is where tests run on the host and no manifest stands above them.
HostReportCurrent == config.command = "local" /\ ~config.pinned => ReportCurrent

\* The tests never run in a container that has the network.
TestsOffline == pc = "test" /\ config.command = "docker" => box.net = "offline"

(***************************************************************************)
(* Every way out of a pass has had the container removed that the executor *)
(* knows (FR-DX-005).  No container at all is left running, as long as     *)
(* docker says the id of what it starts and removes what it is asked to,   *)
(* and the process lives.                                                  *)
(***************************************************************************)
BoxRemoved == pc \in {"idle", "validate"} => box = NoBox /\ (obeyed => left = {})

(***************************************************************************)
(* Container cleanup runs on every exit path (FR-DX-005): whatever docker  *)
(* answers, only the death of the process leaves a container.              *)
(***************************************************************************)
ContainersCleanedUp == [][~Crash => left' = left]_vars

\* Tests are run on code that keeps the manifest (FR-RL-006, FR-RL-009).
TestsKeepManifest == pc = "test" => ~Violates

\* A dispatch ends, however often the tests fail and time out.
PassEnds == pc # "idle" ~> pc = "idle"

\* The supervisor's view of the phase: one unit after another, and then a
\* dispatch that completes it.
Due == IF config.listed THEN (IF Tested THEN N ELSE N - 1) ELSE 0

Outcome == INSTANCE UnitOutcome WITH due <- Due, units <- Cardinality(recorded)

ImplementsOutcome == Outcome!Spec

=============================================================================
