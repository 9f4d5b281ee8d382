------------------------------ MODULE Clients -------------------------------
(***************************************************************************)
(* Those who drive a run from outside, in one state graph: a behaviour is  *)
(* one of the clients, picked at the start, and leaves the variables of    *)
(* the others at Unused.                                                   *)
(*                                                                         *)
(*   chat     the chat participant of the editor (ChatClient)              *)
(*   evals    the evaluation harness (EvalHarness)                         *)
(*   commit0  the Commit0 benchmark (Commit0)                              *)
(***************************************************************************)
EXTENDS Naturals

CONSTANTS
    Turns, Gates, Advances, MaxRuns, MaxOverrides,          \* chat
    Tasks,                                                  \* evals
    Modules, ModuleOf, Skeleton, MaxWrites, MaxFetches      \* commit0

VARIABLES
    client,
    runs, started, active, turn, overrides, gaveUp,                     \* chat
    progress, server, run, stepping, late, outcome, results, report,    \* evals
    clone, pc, repairing, staged, package, src, todo, writes, fetches,
    unproven                                                            \* commit0

chat    == <<runs, started, active, turn, overrides, gaveUp>>
evals   == <<progress, server, run, stepping, late, outcome, results, report>>
commit0 == <<clone, pc, repairing, staged, package, src, todo, writes, fetches, unproven>>

vars == <<client, chat, evals, commit0>>

-----------------------------------------------------------------------------
Chat == INSTANCE ChatClient WITH server <- runs
Evals == INSTANCE EvalHarness WITH pc <- progress
Benchmark == INSTANCE Commit0

\* A function belongs to a module; the skeleton lacks it, has it as a stub, or as shipped.
ASSUME ClientsAssumption ==
    /\ ModuleOf \in [DOMAIN ModuleOf -> Modules]
    /\ Skeleton \in [DOMAIN ModuleOf -> 0 .. 2]

-----------------------------------------------------------------------------
Unused == "unused"

NoChat ==
    /\ runs = Unused /\ started = Unused /\ active = Unused /\ turn = Unused
    /\ overrides = Unused /\ gaveUp = Unused
NoEvals ==
    /\ progress = Unused /\ server = Unused /\ run = Unused /\ stepping = Unused
    /\ late = Unused /\ outcome = Unused /\ results = Unused /\ report = Unused
NoCommit0 ==
    /\ clone = Unused /\ pc = Unused /\ repairing = Unused /\ staged = Unused
    /\ package = Unused /\ src = Unused /\ todo = Unused /\ writes = Unused
    /\ fetches = Unused /\ unproven = Unused

Init ==
    \/ client = "chat" /\ Chat!Init /\ NoEvals /\ NoCommit0
    \/ client = "evals" /\ Evals!Init /\ NoChat /\ NoCommit0
    \/ client = "commit0" /\ Benchmark!Init /\ NoChat /\ NoEvals

In(name) == client = name /\ UNCHANGED client

Next ==
    \/ In("chat") /\ Chat!Next /\ UNCHANGED <<evals, commit0>>
    \/ In("evals") /\ Evals!Next /\ UNCHANGED <<chat, commit0>>
    \/ In("commit0") /\ Benchmark!Next /\ UNCHANGED <<chat, evals>>

\* EvalHarness' Fairness, in the behaviours whose liveness is checked.
Fairness ==
    /\ WF_vars(In("evals") /\ Evals!Harness /\ UNCHANGED <<chat, commit0>>)
    /\ WF_vars(In("evals") /\ Evals!TimePasses /\ UNCHANGED <<chat, commit0>>)

Spec == Init /\ [][Next]_vars /\ Fairness

-----------------------------------------------------------------------------
\* A gate is passed only by an answer to the question that was shown.
ApprovedAsRead == [][client = "chat" => Chat!ApprovesAsRead]_vars

\* A run is running only while somebody drives it, or gave it up.
RunningIsDriven == client = "chat" => Chat!RunningIsDriven

\* What a suite counts as resolved stays so.
ResolvedIsFinal == client = "evals" => Evals!ResolvedIsFinal

\* A suite ends, whatever its runs and its server do.
SuiteEnds == <>(client = "evals" => Evals!Ended)

\* Every test round of a run tests what it has written, on a pristine package, and
\* so does the score, unless a write or a kill came after the last round.
GraftsAreFresh ==
    client = "commit0" => Benchmark!RoundIsFresh /\ Benchmark!ScoreIsFresh

\* "always returns a result dict, never raises" (runner.py:60); Finding_task_lost.cfg
\* shows that it does not (README.md, section 5).
EveryTaskReported == client = "evals" => Evals!EveryTaskReported

\* graft_module "never raises on model output" (graft.py:77); Finding_task_lost.cfg
\* shows that it does (README.md, section 5).
GraftNeverRaises == [][client = "commit0" => Benchmark!GraftsWithoutError]_vars


=============================================================================
