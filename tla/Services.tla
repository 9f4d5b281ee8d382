------------------------------ MODULE Services ------------------------------
(***************************************************************************)
(* The services of a run, in one state graph: a behaviour is one of the    *)
(* parts, picked at the start, and leaves the variables of the others at   *)
(* Unused.                                                                 *)
(*                                                                         *)
(*   events      the audit trail and its way to the editor (EventStream)   *)
(*   models      the completions of a phase's step (ModelCall)             *)
(*   tools       tools of MCP servers (MCPTools)                           *)
(*   contract    the task's binding facts (TaskContract)                   *)
(*   failures    what a round of repair reads off a report (Localize)      *)
(*   interfaces  the siblings that a repair prompt shows (InterfaceMap)    *)
(*   workspace   the files that phases write and a resume verifies         *)
(*               (Workspace)                                               *)
(*   graph       the loops over the graph of phases (PhaseDAGLoops)        *)
(***************************************************************************)
EXTENDS Naturals, Sequences

CONSTANTS
    Threads, Mine, Wide, MaxEvents, MaxCrashes,                         \* events
    Models, Policies, MAX_RETRIES, Budget, MaxCalls, MaxUsage,          \* models
    Servers, Tools, HostOf, CoreTools,                                  \* tools
    MaxLines, MaxFacts, ContractCap, Limit,                             \* contract
    Artifacts, BasenameOf, Sources, NamesIn, Errors, MaxFailures,
    MaxDepth, NoFile,                                                   \* failures
    Siblings, Sizes, Broken, Note, MapCap,                              \* interfaces
    Pipeline, AllowedOutputs, ArtifactSchemas, Replies, Pinned,         \* workspace
    Order, Unknown                                                      \* graph

\* A rule of a policy allows the models that its values name.
Rule == [values : Seq(Models), remediable : BOOLEAN]

ASSUME ServicesAssumption ==
    /\ Policies \subseteq Seq(Rule)
    /\ MAX_RETRIES \in Nat
    /\ Budget \in Nat
    /\ Siblings \in Nat /\ Sizes \subseteq Nat /\ Broken \in Nat
    /\ Note \in Nat /\ MapCap \in Nat

\* What a policy puts in the place of a forbidden model: a value of rule i.
Replaces(p, i) == p[i].values # <<>> /\ \A k \in 1 .. i - 1 : p[k].values = <<>>

\* What is put in the place of a forbidden model, none of the rules forbids.
RulesAgree ==
    \A p \in Policies : \A i, j \in DOMAIN p :
        Replaces(p, i) => \E n \in DOMAIN p[j].values : p[j].values[n] = p[i].values[1]

VARIABLES
    part,
    trail, lock, writing, emitted, kept, crashes,                       \* events
    shot, wire, buffer, spoiled, due, seen, active, client,
    policy, key, step, usage, usageReport, event, called, answers, lost, \* models
    cache, indexed, discovery, call, ran, listed,                       \* tools
    given, yolo, input, round, status, sealed, facts, prompt,           \* contract
    report, output, todo, excerpt,                                      \* failures
    parses, sibling, pc, ranked, next, shown, used,                     \* interfaces
    files, sums, dispatch,                                              \* workspace
    deps, loop, root, found, position, changed                          \* graph

events     == <<trail, lock, writing, emitted, kept, crashes,
                shot, wire, buffer, spoiled, due, seen, active, client>>
models     == <<policy, key, step, usage, usageReport, event, called, answers, lost>>
tools      == <<cache, indexed, discovery, call, ran, listed>>
contract   == <<given, yolo, input, round, status, sealed, facts, prompt>>
failures   == <<report, output, todo, excerpt>>
interfaces == <<parses, sibling, pc, ranked, next, shown, used>>
workspace  == <<files, sums, dispatch>>
graph      == <<deps, loop, root, found, position, changed>>

vars == <<part, events, models, tools, contract, failures, interfaces, workspace,
          graph>>

-----------------------------------------------------------------------------
Events == INSTANCE EventStream WITH file <- trail
Calls == INSTANCE ModelCall WITH report <- usageReport
Mcp == INSTANCE MCPTools
Contract == INSTANCE TaskContract WITH file <- input, Cap <- ContractCap
Failing == INSTANCE Localize
Interfaces == INSTANCE InterfaceMap WITH file <- sibling, Cap <- MapCap
Artifact == INSTANCE Workspace
Graph == INSTANCE PhaseDAGLoops WITH pc <- loop, next <- position

\* Nobody is not a thread.
ASSUME ThreadsAssumption == Events!Nobody \notin Threads

\* What stands for no artifact is not one.
ASSUME ArtifactsAssumption ==
    /\ Artifacts \in Seq(Sources)
    /\ NoFile \notin Sources
    /\ MaxFailures \in Nat /\ MaxDepth \in Nat

\* The outputs and schemas of phases fit each other, as those shipped do.
ASSUME TablesAssumption == Artifact!TablesAgree

\* A graph keeps each of its nodes once, and knows an unknown id from them.
ASSUME NodesAssumption == Graph!KeptOnce

-----------------------------------------------------------------------------
Unused == "unused"

NoEvents ==
    /\ trail = Unused /\ lock = Unused /\ writing = Unused /\ emitted = Unused
    /\ kept = Unused /\ crashes = Unused /\ shot = Unused /\ wire = Unused
    /\ buffer = Unused /\ spoiled = Unused /\ due = Unused /\ seen = Unused
    /\ active = Unused /\ client = Unused
NoModels ==
    /\ policy = Unused /\ key = Unused /\ step = Unused /\ usage = Unused
    /\ usageReport = Unused /\ event = Unused /\ called = Unused
    /\ answers = Unused /\ lost = Unused
NoTools ==
    /\ cache = Unused /\ indexed = Unused /\ discovery = Unused /\ call = Unused
    /\ ran = Unused /\ listed = Unused
NoContract ==
    /\ given = Unused /\ yolo = Unused /\ input = Unused /\ round = Unused
    /\ status = Unused /\ sealed = Unused /\ facts = Unused /\ prompt = Unused
NoFailures ==
    report = Unused /\ output = Unused /\ todo = Unused /\ excerpt = Unused
NoInterfaces ==
    /\ parses = Unused /\ sibling = Unused /\ pc = Unused /\ ranked = Unused
    /\ next = Unused /\ shown = Unused /\ used = Unused
NoWorkspace == files = Unused /\ sums = Unused /\ dispatch = Unused
NoGraph ==
    /\ deps = Unused /\ loop = Unused /\ root = Unused /\ found = Unused
    /\ position = Unused /\ changed = Unused

Init ==
    \/ /\ part = "events" /\ Events!Init
       /\ NoModels /\ NoTools /\ NoContract /\ NoFailures
       /\ NoInterfaces /\ NoWorkspace /\ NoGraph
    \/ /\ part = "models" /\ Calls!Init
       /\ NoEvents /\ NoTools /\ NoContract /\ NoFailures
       /\ NoInterfaces /\ NoWorkspace /\ NoGraph
    \/ /\ part = "tools" /\ Mcp!Init
       /\ NoEvents /\ NoModels /\ NoContract /\ NoFailures
       /\ NoInterfaces /\ NoWorkspace /\ NoGraph
    \/ /\ part = "contract" /\ Contract!Init
       /\ NoEvents /\ NoModels /\ NoTools /\ NoFailures
       /\ NoInterfaces /\ NoWorkspace /\ NoGraph
    \/ /\ part = "failures" /\ Failing!Init
       /\ NoEvents /\ NoModels /\ NoTools /\ NoContract
       /\ NoInterfaces /\ NoWorkspace /\ NoGraph
    \/ /\ part = "interfaces" /\ Interfaces!Init
       /\ NoEvents /\ NoModels /\ NoTools /\ NoContract
       /\ NoFailures /\ NoWorkspace /\ NoGraph
    \/ /\ part = "workspace" /\ Artifact!Init
       /\ NoEvents /\ NoModels /\ NoTools /\ NoContract
       /\ NoFailures /\ NoInterfaces /\ NoGraph
    \/ /\ part = "graph" /\ Graph!Init
       /\ NoEvents /\ NoModels /\ NoTools /\ NoContract
       /\ NoFailures /\ NoInterfaces /\ NoWorkspace

In(name) == part = name /\ UNCHANGED part

Next ==
    \/ /\ In("events") /\ Events!Next
       /\ UNCHANGED <<models, tools, contract, failures, interfaces, workspace, graph>>
    \/ /\ In("models") /\ Calls!Next
       /\ UNCHANGED <<events, tools, contract, failures, interfaces, workspace, graph>>
    \/ /\ In("tools") /\ Mcp!Next
       /\ UNCHANGED <<events, models, contract, failures, interfaces, workspace, graph>>
    \/ /\ In("contract") /\ Contract!Next
       /\ UNCHANGED <<events, models, tools, failures, interfaces, workspace, graph>>
    \/ /\ In("failures") /\ Failing!Next
       /\ UNCHANGED <<events, models, tools, contract, interfaces, workspace, graph>>
    \/ /\ In("interfaces") /\ Interfaces!Next
       /\ UNCHANGED <<events, models, tools, contract, failures, workspace, graph>>
    \/ /\ In("workspace") /\ Artifact!Next
       /\ UNCHANGED <<events, models, tools, contract, failures, interfaces, graph>>
    \/ /\ In("graph") /\ Graph!Next
       /\ UNCHANGED <<events, models, tools, contract, failures, interfaces, workspace>>

Spec == Init /\ [][Next]_vars

-----------------------------------------------------------------------------
\* A trail that can be decoded has lost one event for each crash at most, and only
\* a crash breaks it.
OneLostPerCrash == part = "events" => Events!OneLostPerCrash

\* The editor sees the events of its run that were read, in their order.
SeenAsKept == part = "events" => Events!SeenAsKept

\* No prompt goes to a model that a rule forbids.
OnlyAllowedModels == part = "models" => Calls!OnlyAllowedModels

\* What a phase has used is what its completions used.
AnswersAccounted == part = "models" => Calls!AnswersAccounted

\* What is offered without a server is what servers offered last.
FallbackIsLastListing == part = "tools" => Mcp!FallbackIsLastListing

\* A tool that is offered does not run with arguments its schema refuses.
KnownToolsValidated == part = "tools" => Mcp!KnownToolsValidated

\* Later phases are shown all that binds them, whatever is recorded when.
PinnedReachesPhases == part = "contract" => Contract!PinnedReachesPhases

\* A round of repair attacks the largest cause first.
LargestCauseFirst == part = "failures" => Failing!LargestCauseFirst

\* A repair prompt shows the closest siblings, as far as they fit.
ClosestShown == part = "interfaces" => Interfaces!ClosestShown

\* A document that was written is accepted, and what was recorded of a phase stays
\* as it was, but for the one file that code may take the place of.
ArtifactsStand ==
    part = "workspace" => Artifact!SuccessAccepted /\ Artifact!ChecksumsStand

\* Only a graph that can be run is accepted, and a rollback reaches all that it must
\* and no more.
ValidatesGraph == part = "graph" => Graph!ValidatesGraph
DownstreamIsLeast == part = "graph" => Graph!DownstreamIsLeast

\* A phase writes within its outputs.
OutputsOwned == [][part = "workspace" => Artifact!SingleWriter]_vars

-----------------------------------------------------------------------------
(***************************************************************************)
(* What documents and comments say and the code does not keep: README.md,  *)
(* section 5.  Finding_services.cfg shows each of them violated.           *)
(***************************************************************************)
\* "an over-cap contract fails the run at intake instead" (schema.py:33-37).
SealedWithinCap == part = "contract" => Contract!SealedWithinCap

\* The "deepest traceback frame whose file matches a generated artifact" (FR-JL-003).
DeepestFrameBlamed == part = "failures" => Failing!DeepestFrameBlamed
OneRepairPerFile == part = "failures" => Failing!OneRepairPerFile

\* "One corrupt line [...] must not break replay" (event_bus.py:98-100).
ReplaySurvivesCrash == part = "events" => Events!ReplaySurvivesCrash

\* The client "forwards each decoded EventEnvelope" (eventStreamClient.ts:3-8).
TextAsKept == part = "events" => Events!TextAsKept

\* "the block is capped (default 6,000 chars)" (FR-IC-002).
MapWithinCap == part = "interfaces" => Interfaces!MapWithinCap

\* "by dropping whole files from the tail of that order" (FR-IC-002).
TailDropped == part = "interfaces" => Interfaces!TailDropped

\* A server that fails in discovery is answered for by its cached tools (FR-MC-012).
FailedServerFromCache ==
    [][part = "tools" => Mcp!FailedServerAnswered]_vars

\* "Accumulates token usage per phase" (usage_tracker.py:4).
NoAnswerLost == part = "models" => Calls!NoAnswerLost

\* "dispose() aborts and stops delivery" (eventStreamClient.ts:91).
NothingAfterDispose ==
    [][part = "events" => Events!DeliversWhileActive]_vars

\* "must fail the step [...] rather than be papered over" (openhands_adapter.py:222-226).
NothingPaperedOver == part = "workspace" => Artifact!NothingPaperedOver

\* "(validation then drives a retry)" (openhands_adapter.py:1168).
RawAnswerRetried == part = "workspace" => Artifact!RawAnswerRetried

\* "resume-from-last-completed-phase semantics" (phase_contracts.py:217).
ResumeKeepsAll == part = "workspace" => Artifact!ResumeKeepsAll

=============================================================================
