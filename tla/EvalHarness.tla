----------------------------- MODULE EvalHarness -----------------------------
(***************************************************************************)
(* The evaluation harness (evals/anvil_eval): it spawns a runtime, gives   *)
(* it one run per task, advances the run until it settles or the task's    *)
(* time is over, runs the held-out tests on what was generated, and writes *)
(* a report.  The runtime works on while the harness no longer waits.      *)
(*                                                                         *)
(* What a run has generated either passes the held-out tests or not; any   *)
(* step may change that.  Time is the flag late: the task's deadline has   *)
(* passed.                                                                 *)
(***************************************************************************)
EXTENDS Naturals, Sequences

CONSTANT Tasks      \* how many

VARIABLES
    pc,         \* of the harness
    server,     \* the process it spawned: "off", "starting", "up", "dead"
    run,        \* the run of the task at hand, in the runtime
    stepping,   \* the runtime is in the middle of a step of it
    late,
    outcome,    \* run_status of the task, as far as known
    results,    \* results so far: outcome, tests, resolved, and the run's last
                \* state, kept up while the runtime lives (history)
    report      \* results.json: "none" or how many results it holds

vars == <<pc, server, run, stepping, late, outcome, results, report>>

NoRun == [status |-> "none", good |-> FALSE]

Init ==
    /\ pc = "start" /\ server = "off"
    /\ run = NoRun /\ stepping = FALSE /\ late = FALSE
    /\ outcome = "not_started" /\ results = <<>> /\ report = "none"

-----------------------------------------------------------------------------
(***************************************************************************)
(* The command: AnvilServer.start, run_suite, write_reports, and stop      *)
(* whatever happened.                                                      *)
(***************************************************************************)
Spawn ==
    /\ pc = "start"
    /\ pc' = "health" /\ server' = "starting"
    /\ UNCHANGED <<run, stepping, late, outcome, results, report>>

Healthy ==
    /\ pc = "health" /\ server \in {"starting", "up"}
    /\ pc' = "next" /\ server' = "up"
    /\ UNCHANGED <<run, stepping, late, outcome, results, report>>

\* It exited early, or does not become healthy in time.
Unhealthy ==
    /\ pc = "health" /\ pc' = "stop"
    /\ server' \in {server, "dead"}
    /\ UNCHANGED <<run, stepping, late, outcome, results, report>>

NextTask ==
    /\ pc = "next" /\ Len(results) < Tasks
    /\ pc' = "starting" /\ run' = NoRun /\ stepping' = FALSE
    /\ late' = FALSE /\ outcome' = "not_started"
    /\ UNCHANGED <<server, results, report>>

WriteReports ==
    /\ pc = "next" /\ Len(results) = Tasks
    /\ pc' = "stop" /\ report' = "written"
    /\ UNCHANGED <<server, run, stepping, late, outcome, results>>

\* terminate, and kill after ten seconds.
StopServer == "off"

Stop ==
    /\ pc = "stop"
    /\ pc' = "ended" /\ server' = StopServer
    /\ stepping' = (stepping /\ server' = "up")
    /\ UNCHANGED <<run, late, outcome, results, report>>

-----------------------------------------------------------------------------
(***************************************************************************)
(* run_task and _drive_run                                                 *)
(***************************************************************************)
\* A request that fails ends the drive; the run, if there is one, is not stopped.
Fails == pc' = "scoring" /\ outcome' = "client_error"

StartRun ==
    /\ pc = "starting"
    /\ \/ /\ server = "up"
          /\ run' = [NoRun EXCEPT !.status = "running"]
          /\ \/ pc' = "driving" /\ UNCHANGED outcome
             \/ Fails
       \/ Fails /\ UNCHANGED run
    /\ UNCHANGED <<server, stepping, late, results, report>>

\* Fault: no look at the deadline.
DeadlinePassed == FALSE

TimeIsOver == late

\* The deadline is looked at between two requests.
Advance ==
    /\ pc = "driving" /\ run.status = "running" /\ ~TimeIsOver
    /\ \/ /\ server = "up" /\ stepping' = TRUE
          /\ pc' = "waiting" /\ UNCHANGED outcome
       \/ Fails /\ UNCHANGED stepping
    /\ UNCHANGED <<server, run, late, results, report>>

Deadline ==
    /\ pc = "driving" /\ run.status = "running" /\ TimeIsOver
    /\ pc' = "scoring" /\ outcome' = "timeout"
    /\ run' \in {run, [run EXCEPT !.status = IF server = "up" THEN "stopped" ELSE @]}
    /\ UNCHANGED <<server, stepping, late, results, report>>

\* The runtime's answer, if the harness still waits; a step may settle the run.
StepDone ==
    /\ stepping /\ server = "up"
    /\ stepping' = FALSE
    /\ \E status \in {"running", "completed", "escalated", "awaiting_approval"}, good \in BOOLEAN :
           run' = [status |-> status, good |-> good]
    /\ pc' = IF pc = "waiting" THEN "driving" ELSE pc
    /\ UNCHANGED <<server, late, outcome, results, report>>

\* The socket's timeout, a refused or broken connection, an HTTP error.
AdvanceFails ==
    /\ pc = "waiting" /\ Fails
    /\ UNCHANGED <<server, run, stepping, late, results, report>>

\* The connection breaks inside the body, or the body is no JSON: an exception
\* that _request does not turn into a client error.
BodyBreaks ==
    /\ pc = "waiting" /\ server = "dead"
    /\ pc' = "stop"
    /\ UNCHANGED <<server, run, stepping, late, outcome, results, report>>

\* The run settled; a pause is stopped.
Settled ==
    /\ pc = "driving" /\ run.status # "running"
    /\ pc' = "scoring" /\ outcome' = run.status
    /\ run' \in {run, [run EXCEPT !.status = IF @ = "awaiting_approval" THEN "stopped" ELSE @]}
    /\ UNCHANGED <<server, stepping, late, results, report>>

\* Fault: what passes is resolved.
ResolvedIfPassed(status, passed) == passed

Resolved(status, passed) == status = "completed" /\ passed

\* The held-out tests see the code as it is, or as it comes to be meanwhile.
Score ==
    /\ pc = "scoring"
    /\ \E passed \in IF stepping THEN BOOLEAN ELSE {run.status # "none" /\ run.good} :
           results' = Append(results, [outcome |-> outcome, resolved |-> Resolved(outcome, passed),
                                       passed |-> passed])
    /\ pc' = "scored"
    /\ UNCHANGED <<server, run, stepping, late, outcome, report>>

ScoreEnds ==
    /\ pc = "scored"
    /\ pc' = "next"
    /\ UNCHANGED <<server, run, stepping, late, outcome, results, report>>

-----------------------------------------------------------------------------
TimePasses ==
    /\ pc \in {"driving", "waiting"} /\ ~late
    /\ late' = TRUE
    /\ UNCHANGED <<pc, server, run, stepping, outcome, results, report>>

ServerDies ==
    /\ server = "up" /\ pc # "ended"
    /\ server' = "dead" /\ stepping' = FALSE
    /\ UNCHANGED <<pc, run, late, outcome, results, report>>

Harness ==
    \/ Spawn \/ Healthy \/ Unhealthy \/ NextTask \/ WriteReports \/ Stop
    \/ StartRun \/ Advance \/ Deadline \/ AdvanceFails \/ BodyBreaks \/ Settled
    \/ Score \/ ScoreEnds

Next == Harness \/ StepDone \/ TimePasses \/ ServerDies

\* Requests and the tests have timeouts, time passes.
Fairness == WF_vars(Harness) /\ WF_vars(TimePasses)

Spec == Init /\ [][Next]_vars /\ Fairness

-----------------------------------------------------------------------------
\* What is counted as resolved is so for good: the run has completed, nothing
\* works on its code any more, and the code that is left passes the tests
\* (runner.py:141).
ResolvedIsFinal ==
    pc = "scored" /\ results[Len(results)].resolved =>
        run.status = "completed" /\ run.good /\ ~stepping

\* A suite ends, also if a run never settles (runner.py:32-41).
Ended == pc = "ended"

SuiteEnds == <>Ended

\* runner.py:60, "always returns a result dict, never raises": a suite that
\* was begun has a report with every task in it.
EveryTaskReported == pc = "stop" /\ results # <<>> => report = "written"

=============================================================================
