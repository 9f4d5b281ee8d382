# Anvil in TLA+

Specifications of the part of Anvil that decides what happens to a run, of the
services it uses on the way, and of the clients that drive it: the supervisor
that takes a project through its phases, the file that survives a crash, the
implementation phase with its tests and repairs, the files that phases write and
a resume verifies, the HTTP requests that drive it all at the same time, the
event trail, the model calls, the tools and the task contract around a phase,
and the chat, the evaluation harness and the benchmark
outside.

Paths are relative to `src/runtime/anvil_runtime` unless they start with `src/`.
`PROJECT.json` maps every definition to its lines, and lists the hazards of the
code with the properties that answer them.

    tlc -config Supervisor_torn.cfg MCSupervisor      # model-check a run
    tlapm SupervisorProofs.tla                         # check the proofs

## 1. Inventory

| Component | State | Operations | What is hard | What makes it correct |
|---|---|---|---|---|
| **Supervisor**, `core/development_manager.py` | `_RunContext` in memory: status, completed and excluded phases, gates, approvals, pending gate or questions, round, seal, units; retry counters | start, step, run-until-pause, approve, clarify, stop, rollback, force-advance, resume | an operation is several changes in memory and several saves, and the process may die between any two; every pause must be found again; rollback and override meet pauses, seals and units | memory and file agree; gates hold; phases stay in order; a pause outlives a crash and is forgotten when it ends; runs end |
| **Phase graph**, `core/phase_dag.py` | dependencies | ready, next, downstream, validate | custom graphs may be cyclic or name unknown phases | validate accepts exactly the graphs in which every phase can run; downstream is the least closed set |
| **Checkpoint store**, `state/checkpoint_store.py` | one JSON file for every run of a workspace, and its `.tmp` | read, save, invalidate, validate checksums, set a corrupt file aside | no lock of the file: saves of several runs, readers that rename the file, crashes | a read sees a whole file, a save that returned stays |
| **Retry controller, failure records**, `core/retry_controller.py`, `core/failure_record.py` | a counter per run and phase; numbered files | record, retry or escalate, back off, write a record | boundary of the budget; counters that survive an override; numbers counted from what is on disk | exactly the budget; each failure has its record |
| **HTTP API**, `api/routes_runs.py`, `api/deps.py`, `app.py` | `app.state.runs`: a manager per run; a lock per manager and run | start, list, get, resume, advance, approve, clarify, override | requests run on a thread pool; lookup and registration are not one step; a restart empties the registry | one request at a time executes a run; no request passes an open gate; every request is answered |
| **Clarification and contract**, `contract/`, `sdk/openhands_adapter.py:292-380` | sections of the domain-knowledge file between markers; `contract_sealed` | show the contract and the context to a prompt, append answers, append assumptions, seal | files with no, one or several sections, with a marker on the last line or in running text; the file must be closed exactly when intake is final | what was pinned or recorded reaches every later prompt, nothing else binds; questions once; nothing is built on an open contract |
| **Execution backend**, `sdk/openhands_adapter.py`, `verify/` | generated files, the artifacts and rounds of a pass, the test report, a container | generate one unit or the whole phase; compile smoke, run tests, localize, repair, check the manifest | units after a restart, reports of earlier rounds, docker commands that fail, a pass that dies; which file a failure is blamed on | the phase completes on verified code only; recorded units are kept; the network is off and the container goes; a pass ends; a repair starts with the largest cause and sees what it depends on |
| **Model routing, policy, usage**, `llm/`, `policy/`, `sdk/session_bridge.py` | the policy document; the phase's usage | select, remediate, complete with retries, record, check the budget | a forbidden model may be replaced, denied or neither; a step pays for several completions and may raise between them | no prompt goes to a forbidden model; what was paid for is in the account |
| **MCP manager, cache, authorizer**, `tools/` | schemas in memory, cache file | discover, invoke | some servers fail; the cache is written in place; schemas are known only after discovery; a call is retried | the fallback is what was heard last; what is offered is validated |
| **Event trail and stream**, `state/event_bus.py`, `api/routes_events.py`, `src/extension/src/runtime/eventStreamClient.ts` | JSONL log; the response's text; the decoder's buffer | emit, read, stream, decode, dispose | a crash inside a line or a character, readers of half a file, a response cut anywhere | one event is lost for a crash; the trail stays readable; the editor sees what was kept, once and in order |
| **Chat participant**, `src/extension/src/chat/participant.ts` | the active run's id; per turn what it read | start and drive, approve or deny, answer, stop, override | turns overlap and share the active run; a gate is read with one request and answered with another | a running run has a driver; a gate is passed only by who saw it |
| **Evaluation harness**, `src/evals/anvil_eval` | the spawned server, the task's run, the results | spawn, start, advance, time out, score, report, stop | the runtime works on after a timeout; the server may die | what is counted as resolved is final; the suite ends |
| **Commit0 benchmark**, `src/benchmarks/commit0` | a clone, a stage with a pristine copy, the package under test | fetch, stage, run with test rounds, graft, score | rounds that are killed; stages that are built from reused clones; grafting fills stubs only | every round and the score test what the run wrote, on an untouched skeleton |
| **Document phases, outputs and schemas**, `sdk/openhands_adapter.py:209-240,376-416,1060-1271`, `core/phase_contracts.py`, `artifacts/` | the workspace; the checksums of completed phases | turn a reply into documents or code files, write them one by one, validate, record, verify | headings the model left out are added by one check and looked for by another; paths a model proposes; outputs of phases that overlap in `src/` | what was written is accepted; nobody writes outside the phase's outputs; a checkpoint nobody touched stays valid |
| **Drift, hooks, agents** | none | judge a phase's result | | pure |
| **Configuration, instructions, skills, redaction, pricing** | configuration and text | resolve, render, parse | | pure |

Interactions. A route finds a manager in the registry and calls one public
method; the method takes the run's lock (`_locked`), reads and changes the
run's context, asks the backend for the work of a phase, and saves through the
checkpoint store, which rewrites the whole container file. After a restart,
`resume_run` rebuilds the context from that file. The backend routes a model,
completes prompts that carry the contract and the inputs, and, in the
implementation phase, tests and repairs what it wrote. Every part emits events
to the trail, which the editor streams. The chat, the evaluation harness and
the benchmark are clients of the routes; the benchmark is called back by the
run as its test command.

## 2. Modules

| Module | Models | How it corresponds to the code |
|---|---|---|
| `PhaseDAG` | `phase_dag.py` | the sets the methods compute, as relations on `Deps` and the canonical `Rank` |
| `PhaseDAGLoops` | the worklists of `validate` and `downstream_of` | one pass, one visit at a time, on any graph over `Order`, checked against `PhaseDAG`'s definitions |
| `Supervisor` | one run of the development manager | one action per public method (they hold the lock from entry to return); `mem` is the context, `disk` its record in the container |
| `RetryLoop` | `_dispatch_with_retries` and `_handle_failure`, the failure records | the inside of a supervisor step: dispatch, checks, count, record, back off or escalate |
| `StepOutcome` | what a step may do to a phase's failure count | the abstract side of `RetryLoop` and of `Supervisor` |
| `RunStateFile` | the container file | reads, the open, write and rename of a save, inode by inode; crashes; readers that set a corrupt file aside |
| `AtomicStore` | what the store promises | a save is one step |
| `CodeUnits` | the implementation phase: `_run_code`, `_verify_and_repair`, `docker_executor.py`, `runner.py` | one action per step of a dispatch that can fail or be the last before a crash |
| `UnitOutcome` | what `Supervisor` lets the implementation phase do | the abstract side of `CodeUnits` |
| `Localize` | `verify/localize.py`, the adapter's `localize` | a report to the artifacts it implicates, in order, with the excerpt each is shown |
| `InterfaceMap` | `verify/interface_map.py` | ranking of the siblings, then one sibling at a time, shown or skipped |
| `Ordered` | `sorted`, and a loop that skips what it does not want, in `Localize`, `InterfaceMap`, `TaskContract` and `EventStream` | what stands at position k is the member with k - 1 members before it |
| `RunRegistry` | requests, registry, locks | a request is a thread with a program counter; a manager's context is its row of phases and gates |
| `EventStream` | `event_bus.py`, `routes_events.py`, `eventStreamClient.ts` | threads that write an event in pieces, crashes, readers; a response delivered in arbitrary chunks |
| `ModelCall` | `model_router.py`, `policy/`, `session_bridge.py`, `openrouter_provider.py`, `usage_tracker.py` | a step from its routing to its account, one attempt of a completion at a time |
| `MCPTools` | `tools/` | a pass of discovery server by server, the cache's open and write, an invocation with its two attempts |
| `TaskContract` | `contract/resolver.py`, the adapter's intake and prompts | the file as a sequence of lines, appended to as the resolver does; the prompt that each phase gets |
| `ChatClient` | `participant.ts` | a turn is a thread; one action per request, which is answered, or fails before or after its effect |
| `EvalHarness` | `runner.py`, `client.py`, `server.py`, `report.py`, `cli.py` of the harness | one action per request or decision of the suite's loop; the runtime steps on its own |
| `Commit0` | `repos.py`, `prepare.py`, `stubs.py`, `graft.py`, `apply.py`, `graft_and_test.py`, `cli.py` of the benchmark | one action per file operation that a kill can come between |
| `Workspace` | the document phases, the code of a single completion, `artifacts/validator.py`, the checksums | a reply becomes a queue of files that are written one at a time; validation, record, retry, rollback and resume as the supervisor does them |
| `PhaseContracts` | `phase_contracts.py`, `artifacts/schemas.py` | the shipped tables: phases, outputs in the order of writing, what a document must have |
| `Services`, `Clients` | the six services with the workspace and the graph, and the three clients, in one state graph each | a behaviour is one part, picked at the start |
| `MCSupervisor`, `MCScenarios`, `MCCodeUnits`, `MCServices`, `MCClients` | instances for TLC | |
| `SupervisorProofs`, `ScenariosProofs`, `RunRegistryProofs`, `CodeUnitsProofs`, `RunStateFileProofs`, `RetryLoopProofs`, `ServicesProofs`, `ClientsProofs` | theorems | |

`Supervisor` extends `PhaseDAG`. `PhaseDAGLoops` instantiates `PhaseDAG`,
`RetryLoop` and `SupervisorProofs` instantiate `StepOutcome` (one per run, one per
phase), `CodeUnits` instantiates `UnitOutcome`, `RunStateFile` instantiates
`AtomicStore`. `MCScenarios` instantiates `SupervisorProofs`, and with it
`Supervisor`, five times; `Services` instantiates eight modules and `Clients` three: a behaviour is one
of them, picked at the start, and leaves the variables of the others at
`Unused`. `MCServices` and `MCClients` only add the values for TLC, so that
the theorems of `ServicesProofs` and `ClientsProofs` are about the same
properties that TLC checks.

### Supervisor

`status` and `mem` are the run's context, `disk` what `resume_run` would load.
Each public method is an action, and its guard is the method's checks.
Two details of the code are kept exactly, because the properties turn on them:

- **The order of the saves.** Between two saves the process may die. Every
  action that saves more than once has an alternative `CrashAmid(torn)`: the
  process is gone and the disk is one of the prefixes of the saves. "torn" in
  `Faults` enables it; "crash" is death between operations.
- **What each operation leaves alone.** `force-advance` does not clear pending
  questions, `rollback` does not clear approvals or the round, `resume` does not
  reset the status of a live context or drop units. Several divergences below
  come from exactly these.

The backend is a choice of outcome: a unit, a completed phase (with a tier when
it is proposal), intake's questions or assumptions, or an escalation. The
number of failures left in the counter is a choice too, within what
`RetryLoop` shows possible. Artifacts are one bit a phase: whether they still
match their checksums (`dirty`). Of the contract's text only the parity of the
runtime's writes is kept, enough to tell that one happened; `TaskContract` has
the text.

### RunStateFile

A name points to an inode, an open file stays open across a rename: this is
what makes write-then-rename hold, and what breaks it for two writers. A
container maps each run to the number of its last save.

### RunRegistry

Requests are threads: look up (or build) a manager, call it, register it, and
drive the run one phase at a time with the manager's lock held for each call.
The route's `run_until_pause` is entered under the lock and released when it
returns. A phase that ends takes two steps, since it is saved twice: the
completion, and, if a gate is due, the pause. A restart may come between them
and lose the pause for good; `cut` remembers the gates it did that to. `home`
says whether the run lives in the server's own root: then the default manager is
the only one, else each resume after a restart builds one.

### CodeUnits

A dispatch is a thread with a place `pc`: generate a unit and record it, or,
once all are recorded, smoke, repair, prepare, start and set up the container,
copy in, test, decide, localize, repair again. Of a file only its quality
counts: `broken` fails to compile, `unpinned` lacks a symbol of the manifest,
`wrong` fails a test. Of a report only the round that wrote it: this one, or an
earlier one. Of a container only its network and the report in it. What the
model writes, whether a test run writes its report, which files a report names
and whether docker answers are choices. Docker may also start a container and
not be heard (`StartUnheard`), or not remove one (`AbandonBox`: the executor
forgets the id all the same), or its CLI may go while the tests run
(`DockerGone`): `left` is what nobody will remove, `obeyed` says that none of
this has happened and no process died. That a red run implicates at least one
artifact, which the loop relies on, is a conjunct of `Localize`'s property.

The supervisor's part (recording a unit, validating and completing the phase,
rolling it back) is in the module too, so that the run from unit to completion
is one behaviour; `UnitOutcome` is its view of it, the steps `UnitCompletes`
and `PhaseSucceeds` of `Supervisor`.

### The services

- **EventStream.** An event is three pieces: its head, its tail, the end of the
  line. A crash leaves any prefix, the next process appends behind it, and a
  reader skips the lines that are not one whole event. A frame of the response
  is cut into the same pieces, since a chunk may end inside a frame and inside
  its last blank line. Of a wide event head and tail divide a character of
  several bytes: a file with such a half in it does not decode and a reader
  raises, where a subscriber's response breaks off; a chunk that ends there is
  decoded by itself and the event is spoiled.
- **ModelCall.** A policy is a sequence of rules, each with the models it allows
  and whether it offers the first of them as a replacement. A completion costs
  one unit. A step may return with success, return with failure after an
  unusable completion, or raise; only a step that returns is recorded.
- **MCPTools.** A server answers with some of its tools, or fails. The cache is
  absent, torn or whole, and opening it for writing empties it. A call may have
  run at the server although its answer was lost.
- **TaskContract.** A line is a marker, a mere mention of one, or a fact; the
  file starts as any of these. Appending finds its place as
  `append_contract_block` does. A prompt is what the adapter puts in it: the
  contract unclipped, the context cut at `inputCharLimit`.
- **Localize, InterfaceMap.** Functions of their input, split at the loops. Of a
  name only which basenames a line about it contains counts, which is how the
  code decides. A map has a length: its blocks, the blank lines between them and
  the note of what was omitted, of which the loop counts the blocks. A cluster is
  the position of its first failure: `SortsBefore` is
  the order that a stable sort by size leaves, `Leading` the first cluster of each
  file in it.
- **Workspace.** A file is known by what it is (a document with its metadata,
  code, or an answer kept as it came), by the headings it has and by whether a
  model wrote anything of it; a checksum by whether it still holds, since a
  document carries its time and differs whenever it is written again. A reply
  may have a section as a heading, mention it in prose only, or leave it out;
  a block of code may name any path, one with `..` too. A dispatch writes its
  files one by one and may fail or die between two. Phases depend on one
  another in a line, as shipped.
- **PhaseDAGLoops.** One iteration of the inner loop is a step. Nothing is
  assumed of the graph.

### The clients

- **ChatClient.** The runtime is reduced to what its routes promise: a request
  has its whole effect or none, and the client may not hear of it either way.
  `gaveUp` remembers the runs whose driving turn hit its bound or an error.
- **EvalHarness.** `late` is the deadline, looked at between two requests only.
  The run steps by itself while the harness waits and after it stopped waiting.
- **Commit0.** A function's body is a number: absent, a stub, as shipped, or
  the n-th thing the run wrote. Of a module it counts whether it parses by
  itself and once merged. A test round is remove, restore, graft module by
  module, test, and may be killed at any of these; a graft may be given up
  (`graft.py:178-181`) or raise (`graft.py:116`).

## 3. Runs

| Run | Question | Bounds, and why they suffice |
|---|---|---|
| `supervisor_torn` | Does a secure run, whatever its clients override, survive every crash, inside operations too? | Five phases: the three that the code treats by name, one between, one gated. One unit, one retry, two tiers. Every disjunct of every action fires |
| `scenarios` | Do gates, answers, units, the order of phases and the seal hold in the runs they are meant for, and does the shipped pipeline end? | Five instances in one graph, four of them over the five phases. `shipped` has the thirteen phases, the three tiers, the shipped gates and retries |
| `state_file` | Does the store refine an atomic one? | One writer (a run's lock), two readers, three saves: a save before, one during and one after a crash |
| `retry_loop` | Exactly the budget? Every failure recorded? | Budget of two, failures until six: two exhausted budgets with an override or rollback between. Two slugs |
| `registry` | One executor, no gate passed, no request forgotten? | Three requests of every kind in every order, three phases of which two gated, a restart at any moment, between the two saves of a step too, four managers (a restart's resumes each build one) |
| `code_units` | Does the implementation phase complete on verified code only, and do what the supervisor expects? | Two files, two rounds: a repair after a repair, a round whose report is older than the last. Every sensible combination of executor, report, setup command, manifest and file list |
| `services` | Does each service keep its promise to the phase? | *Events*: two threads, three events of which two are the client's and one has a character of several bytes, two crashes: two torn lines, one of them torn inside its character, and a line of another run between the client's. *Models*: three models, a step of three completions, the transport's four retries, a budget of two, every policy of one rule and of two rules that agree on the replacement. *Tools*: two servers, three tools, one of them a core tool: one server may fail and the other not, and each may offer less than last time. *Contract*: every file of up to three lines, so a section before, behind and inside context, twice opened, never closed; three appended facts, one more than the limit of a context and enough to reach the cap. *Failures*: every report of up to three failures, so a majority and a tie; two artifacts of one basename, a test that names two. *Interfaces*: three siblings of two sizes, a cap for one, two or three of them, a note that alone may go beyond it. *Workspace*: the twelve phases behind intake with the outputs and schemas as shipped; every reply as far as its headings, mentions, prose and tier go; code in two files, in files outside the outputs, or in none. *Graph*: every graph over three nodes and an unknown name, cycles and self-loops included: a chain against the order needs three passes |
| `clients` | Do the clients drive, count and test what they believe they do? | *Chat*: two turns, two runs, two gates, two advances, one override: one turn drives while another answers an older run, or its gate. *Evals*: two tasks, so that what one leaves behind meets the next. *Commit0*: two modules, four functions (stub, provided, lost), two writes, two attempts on one clone |
| `gate_rolled_past`, `two_executors`, `score_is_signal`, `broken_replay` | Divergences, section 5 | |

The properties, and the bug each one is there for:

- `MemDurable`: an operation that changes memory and forgets to save it.
- `PreGateEnforced`, `HomeGatesHold`: a phase carried past its gate by a resume,
  an override or a second request. `HomeGatesHold` excuses the gates in `cut`,
  which a restart between two saves lost: that the code passes those is
  `HomeGatesEnforced`, section 5.
- `PausesHold`: a completed phase whose gate was never asked for, questions that
  nobody can answer, a run without a user that waits for one.
- `ActivePauseSaved`, `EditedPauseForgotten` (`EndedPauseForgotten`): a pause
  lost by a crash, or one that comes back after it was ended.
- `EditedInOrder` (`CompletedInOrder`): a rollback, an invalid checkpoint or new
  answers that leave a phase completed whose inputs were sent back.
- `UnitsCurrent` (`UnitsOnCurrentInputs`): files of an old plan kept under a new
  one.
- `ShippedSealed` (`SealedBeforeWork`): work on a contract that is open.
- `ShippedSettles`, `PassEnds`, `RequestsAnswered`, `SuiteEnds`: something that
  must end does not.
- `ImplementsStore`: half a file, a save undone.
- `ValidatesGraph`, `DownstreamIsLeast`: a graph accepted in which some phase
  can never run, a dependant left out of a rollback.
- `ArtifactsStand`: a document that the writer finds complete and the validator
  does not, so that no retry helps; a checkpoint that is invalid although nobody
  edited its files, so that a resume throws work away.
- `EveryFailureRecorded`, `ImplementsOutcome` (of `RetryLoop`): a record
  overwritten, an attempt too many or too few.
- `HomeSingleExecutor`, `HomeIsCurrent`, `StoppedIsIdle`: two threads in one
  run, a context behind its file, work after a stop.
- `CompletedIsVerified`: a timeout taken for a pass, code changed after its
  tests passed, a phase completed by the dispatch of its last unit.
- `HostReportCurrent`: a repair aimed by the report of an earlier round.
- `TestsOffline`, `BoxRemoved`: tests with a network, a way out of a pass that
  forgets its container. Containers that docker did not remove, or that nobody
  heard of, are excused; section 5 has them (`ContainersCleanedUp`).
- `ImplementsOutcome` (of `CodeUnits`): a recorded file generated again, a unit
  too many or too few.
- `OneLostPerCrash`: lines of two threads run into one another, a torn line that
  takes its successors along. The one event that joins a torn line is lost; that
  is the bound, not an exception to it. Of a trail that cannot be decoded it
  only says that a crash made it so: the run `broken_replay` is about that.
- `SeenAsKept`: a frame lost, doubled or mixed at the border of two chunks, an
  event without such characters whose text is changed.
- `OnlyAllowedModels`: a denied or replaced model called after all.
- `AnswersAccounted`: a completion that is paid for and missing from the account
  although its step returned, a failed one included.
- `FallbackIsLastListing`: a fallback to a listing older than the last, or to
  half a cache.
- `KnownToolsValidated`: a tool offered from the cache that runs unchecked.
- `PinnedReachesPhases`: an answer recorded where it binds nobody, context that
  is shifted into the contract.
- `LargestCauseFirst`: a repair that begins with a symptom, touches no file at
  all, takes one twice that is listed once, shows it another file's failures.
- `ClosestShown`: an interface left out although it fits, or shown before a
  closer one, a map that goes beyond its cap by more than its blank lines and note.
- `RunningIsDriven`: a run that is running and waits for a client that has gone.
- `ApprovedAsRead`: a "yes" to one gate that passes another.
- `ResolvedIsFinal`: a task counted whose code is still being written.
- `GraftsAreFresh`: bodies of an earlier round or attempt tested, or scored, as
  the run's, when modules that cannot be merged are skipped or raise, too.

**Fairness.** `Supervisor` and `MCScenarios`: weak fairness of `Step` (the loop of
`run_until_pause`, lines 559-567, or a client that advances), of `Approve` and
`Clarify` (a user who answers a pause; each such action is enabled only while
it waits) and of `Restart` (an operator who restarts and resumes). Retries,
stops, rollbacks and crashes have none; `RunSettles` speaks only of behaviours
whose process stays up from some point on. `RetryLoop`: weak fairness of each
run's loop, a thread that goes on. `CodeUnits`: weak fairness of the dispatch's
thread; a test command ends or is killed after its timeout. `RunRegistry`: weak
fairness of each request's thread. `EvalHarness`: weak fairness of the harness,
whose requests and tests have timeouts, and of time; the runtime it drives has
none, it may hang. `RunStateFile`, the services, `ChatClient` and `Commit0`
state no liveness and no fairness.

**Deadlock** is checked except where a model really stops: in `registry` all
requests are answered, in `services` both loops over a graph return and a round
of repair has been localized and its prompt built, in `clients` a suite and a
benchmark end.

## 4. Proofs

The theorems hold for every value of the constants that satisfies the named
assumptions: `SupervisorAssumption`, `GraphAssumption`, `OrderAssumption`,
`RegistryAssumption`, `UnitsAssumption`, `FileAssumption`, `RetryAssumption`,
`ServicesAssumption` (policies are lists of rules; budgets, retries, sizes and
caps are numbers), `TablesAssumption` (outputs and schemas fit each other),
`NodesAssumption` (a graph keeps a node once), `ArtifactsAssumption` (the
artifacts are a list of files, and `NoFile` is none of them),
`ThreadsAssumption` (`Nobody`, who holds the lock when no thread does, is no
thread), `ClientsAssumption`, `NoGateAssumption`. TLC evaluates them in the runs,
`TablesAssumption` on the tables as shipped. Premises that not every run meets
stand in the theorem itself.

**`SupervisorProofs`.** `TypeCorrect`, `MemoryIsDurable`, `PreGatesHold`,
`PausesSurvive`, `OneRoundOfQuestions` and `YoloRunsThrough`, each
`Spec => []Inv` without a premise, from one inductive invariant `IInv`. The
invariants are not inductive by themselves: a crash inside an operation leaves a
disk that no completed operation would leave, and a resume believes all of it.
`IInv` therefore has a part about the disk alone (`DurableOK`: a pending gate is
not yet satisfied, outstanding questions belong to round 0, completed phases are
behind approved pre-gates), true of every prefix of every operation's saves, and
a part that says how memory agrees with it when no operation is under way
(`ContextOK`, `PauseOK`). One lemma per action; `LostProcess` disposes of all the
crashes at once.

Six more theorems have premises, since the code breaks the property without
them. On top of `IInv` each needs an invariant of the disk:

| Theorem | States | Premises | Without them |
|---|---|---|---|
| `PausesForgotten` | `EndedPauseForgotten` | never forced on | `Finding_forced_on` |
| `OrderKept` | `CompletedInOrder` | never forced on, tiers leave out closed tails | `Finding_forced_on` |
| `UnitsBelong` | `UnitsOnCurrentInputs` | never forced on, torn or edited; implementation in line | `Finding_restarted` |
| `SealedFirst` | `SealedBeforeWork` | never forced on, rolled back or torn; intake leads | `Finding_restarted` |
| `PostGatesHold` | `PostGateEnforced` | never rolled back or torn | `Finding_gate_rolled_past`, `Finding_restarted` |
| `QuestionsAnswerable` | `AnswerableWhenAsked` | never rolled back or torn; intake first | `Finding_rolled_back` |

"Torn" is a crash between two saves of one operation; crashes between operations
are allowed everywhere. `OnePause` says that the disk never holds a gate and
questions at once, `OrderInv` that outstanding questions have nothing completed
behind them and that what is excluded is a tail: without the latter a tier that
leaves out the middle of the graph would let a rollback keep what it should send
back. `UnitsInv` says that units are kept only while implementation is the next
phase, so that every change of what is done must drop them. `SealInv` and
`GateInv` say what the next save would add. `AnswerInv` also has to follow an
edited intake that is run again after it was sealed. The lemmas about
`Downstream` (`DownstreamStep`, `DownstreamTransitive`, `DownstreamLast`,
`AffectedClosed`, from the least closed set of `PhaseDAG`) carry the rollbacks
and the edited resumes.

`SupervisorKeepsOutcome` relates `Supervisor`, which takes a
phase's dispatches and retries in one action, to `RetryLoop`, which takes them
apart: both implement `StepOutcome`, one instance per phase here, one per run
there. `StepCounts` says what any step does to one phase's count: keeps it, drops
it, raises it within the budget, or spends the budget and escalates the run. A
phase counts as escalated while the run is and its budget is spent, so that the
escalation of another phase with a spent count is an abstract escalation too, and
a stop, a pause restored by a resume and a crash end it as an override does.

**`ScenariosProofs`.** `PausesHoldThroughout`, `UnitsStayCurrent`,
`EditsKeepOrder`, `EditsForgetPauses` and `ShippedWorksSealed` state the
properties of the run `scenarios`. They check that each scenario meets the
premises (that the chains are ordered graphs, that the tiers as shipped are
tails, that intake leads) and take the invariants from `SupervisorProofs`, one
instance per scenario.

**`RunRegistryProofs`.** `RegistryTyped`, `TakeTurns`, `NeverBehind`,
`NobodyPasses` and `StopStops`, for any number of requests, phases, gates,
restarts and managers. The argument: whoever is inside a step holds the lock
of its manager, whose run is running (`Locked`); a run at home has no manager
but the default one (`OnlyDefault`), so the lock of that one manager is a lock
of the run, and the file changes only under it (`Current`, `FileGated`). While
a request is between the two saves of a step (`Checking`), the gate after the last
completed phase is the only one behind the run that need not be passed; a restart
there puts it into `cut`, which is all that `NobodyPasses` excuses.

**`CodeUnitsProofs`.** `UnitsTyped`, `VerifiedOnly`, `TestedOffline`,
`NothingLeft`, `HostReports`, `UnitsStay` and `UnitsRefine`, for any number of
files, any bound on the rounds and any set of configurations. The invariant
relates the place of the dispatch to what it knows: a pass that goes on
repairing has no passed run (`VerifiedOK`), a container with a network is at
its setup or on its way out and none is left while docker obeys (`BoxOK`), a test
starts without a report on the host (`ReportOK`), the pass follows the last unit and without tests the last
file is never a unit (`UnitsOK`). The refinement needs the latter: it says that
the completing dispatch finds exactly `Due` units (`CountUnits`).

**`RunStateFileProofs`.** `StoreRefined` (the file of inodes and renames
implements `AtomicStore`) and `NeverHalf`, for one writer, any number of saves
and readers. `FileOK`: the two names never share an inode, and the inode under
the file's name holds the last save that returned. `SavingOK`: a save under way
is the next one, and between write and rename it is whole under the other name.
A rename is the abstract save; every other step, a crash and a set-aside
included, leaves what a reader sees and stutters.

**`RetryLoopProofs`.** `LoopImplementsOutcome`: for any number of runs and any
budget, the loop that dispatches, counts, records and backs off does to each
run's failure count what `StepOutcome` lets a step do; the loop's own step that
raises the count or gives up is the abstract one, all others stutter. It needs
that a thread inside the loop is of a running run (`Typed`, `CountInv`).
`FailuresOnRecord`: in a workspace with one run (`OneRun`), every failure has
its record. `NumbersOK` is the invariant behind it: no record has a number above
how many there are, so the next number is new; with two runs two threads may
hold the same number, and one record replaces the other (`Finding_retries`).

**`ServicesProofs`.** One invariant per part; a step of the composition is a
step of its part or leaves it alone (`PartSteps`).

- *Tools*: `OfferedFromCache` and `OfferedIsValidated`, for any servers, tools
  and core tools. `CacheOK`: a cache file that can be read holds the last
  listing, at every moment, since opening it makes it unreadable first.
  `CallOK`: a pass indexes what it goes on to offer, and no call is under way
  during a pass.
- *Models*: `CompletionsAccounted`, for any budget, models and retries: what a
  step has used is in the account, or lost, or still with the step, and nowhere
  twice (`Accounted`). `OnlyPermittedCalled` has the premise `RulesAgree`: what
  a policy puts in the place of a forbidden model satisfies all its rules.
  `select` does not look again, so without it the theorem is false (section 5).
- *Workspace*: `WorkspaceStands` and `WritesWithinOutputs`, for any tables that
  fit each other. `Recorded`: what is recorded of a phase belongs to its outputs,
  so that the write of another phase can only meet it where code goes.
  `UnderWay`: the document the schema wants is still in the queue, or it is on
  disk and valid, so that writing the others does not undo it. `TablesAgree` is
  what this needs of the tables, and TLC finds it true of the shipped ones.
- *Graph*: `AcceptsAcyclic` and `ReachesAllDownstream`, for any graph kept in
  any order. `Validating`: what is resolved is on no cycle, and a pass without
  change has met every node, so what it leaves is a set in which each node has
  a prerequisite: a cycle. `Growing`: what is found is in every closed set and
  has a reason in what was found; the root is not found again, for a set that
  led back to it would be a cycle.

- *Interfaces*: `ShowsClosest`, for any siblings, sizes and cap. `InRanks`: the
  ranking goes through all siblings, ties in the order they were written in.
  `PassedOK`: of those passed each was shown or would not fit; since what is
  shown only grows, it would not fit later either, and the first of the ranking
  is always shown. The blocks are within the cap unless the first alone is not,
  so what the map adds to them bounds how far it goes beyond.
- *Failures*: `RepairsLargestFirst`, for any list of artifacts, one that repeats
  a file included, and any names and reports. Nothing is kept between two
  reports, so the invariant is the property with its types. The work is in what
  is sorted: `SortsBefore` is a strict total order on the first positions of the
  clusters, each implicated artifact has exactly one leading cluster, and no
  cluster of that artifact is larger.
- *Contract*: `PinnedInEveryPrompt`, for any file of lines and any number of
  facts. `InputAsRecorded`: the contract of the file is the given one with the
  recorded facts behind it, or, in a file without a section, the context is. It
  needs what `append_contract_block` does to a file line by line
  (`RecordedInSection`, `RecordedAtEnd`): the line lands behind the last one of
  its part and opens or closes nothing.
- *Events*: `LosesOnePerCrash`, for any threads, events and crashes, and
  `SeesTrailInOrder`, for any trail and any way to cut the response.
  `OneWriter` and `LineUnderWay`: a line is written by who holds the lock, and
  what of it is in the file stands at its end, so that without a crash every
  head is followed by its tail (`HeadsFollowed`) and the file decodes. `Torn`, the heads and tails behind
  which no line goes on, are at most as many as the crashes, and a kept event is
  unreadable only if such a piece stands before it. The stream's invariant
  counts pieces: three for each event not handed on are in the buffer and on the
  wire, so a chunk of n pieces completes the events `(b + n) div 3`, whatever n
  is, and the text that `AfterLastNewline` keeps is the rest.

The last four rest on lemmas about `Ordered`. A member's position is the number of
members before it; in a strict total order on a finite set the positions are
1 to n, each taken once (`SortedIsPlaced`, `PlacedOnce`): a sequence that goes
through a set upwards is the sequence `Ranked` returns. From it follow what a
filter yields of nothing, of a sequence that grew by one, and of one whose
elements moved (`AtNone`, `AtOneMore`, `AtMoved`). None needs an induction over
sequences: cardinalities of finite sets do.

**`ClientsProofs`.** Likewise for the clients.

- *Chat*: `SomebodyDrives` and `PassesWhatWasRead`, for any number of turns, runs
  and gates. The invariant adds what the driving turn has last seen (`Driving`):
  without it a turn that ends might leave a running run behind.
- *Evals*: `ResolvedForGood`, for a suite of any length. `Waited` and `OutcomeOK`
  follow who may still change the code that is scored: only a step that the
  harness did not wait for, after which the outcome is not "completed".
- *Commit0*: `GraftsStayFresh`, for any package, skeleton and sequence of writes.
  `HalfGrafted`: what is still to be grafted is pristine, the rest is fresh;
  `LeftBehind` says what the score finds. A grafted function is no stub any more,
  which is why nothing but the restore makes the next round fresh.

**Only model-checked.**

- Liveness (`ShippedSettles`, `PassEnds`, `RequestsAnswered`, `SuiteEnds`) is
  beyond the prover, as is ENABLED.
- That the shipped tables satisfy `TablesAgree`, and that the scenarios'
  pipelines are instances of the assumptions beyond what `ScenariosProofs` uses.

## 5. Divergences

Four are runs of the project:

1. `gate_rolled_past`. A rollback override clears the pending gate
   (`development_manager.py:748`) also when the gated phase is not sent back.
   The phase stays completed, its gate is never raised again.
   `src/anvil-development/v0.1.0/docs/spec.md:165`: "Four mandatory approval
   checkpoints are enforced".
2. `two_executors`. Two resumes of a run with a workspace of its own, after a
   restart, build two managers with a lock each (`routes_runs.py:199-225`).
   `development_manager.py:159-161` promises per-run atomic operations.
3. `score_is_signal`. The benchmark scores by grafting into the package as the
   last test round left it (`src/benchmarks/commit0/commit0_adapter/cli.py:85`),
   without the restore that a round begins with; code that was written after
   that round is not what is scored. `graft_and_test.py:18-20`: "the repair
   signal tests exactly what scoring tests".
4. `broken_replay`. The trail is read as strict UTF-8, outside the `try` that
   skips a corrupt line (`state/event_bus.py:90-91, 95`), and events are written
   unescaped. A process that dies inside a character of several bytes leaves a
   file that every later reader raises on: the events route, and the handling of
   a failure (`core/development_manager.py:384`). The comment at lines 98-100:
   "One corrupt line (crash mid-append, hand-edited file) must not break replay".

The other `Finding_*.cfg` files reproduce what else was met while modelling; TLC
finds each of their properties violated. With several properties in a file,
`tlc -continue -workers 1` goes through all of them. They state what a reader of
the code would expect, with more or less support in the documents.

| Config (module) | Property | What happens |
|---|---|---|
| `rolled_back` (MCSupervisor) | `AnswerableWhenAsked` | questions of a run whose contract is sealed: every answer is rejected |
| | `GatedPhaseBlocks` | a rolled-back phase passes its gate on the approval given for its first result |
| | `SealedContractImmutable` | a rollback to intake appends assumptions to a sealed contract |
| | `GateAwaitsCompletion` | a gate after implementation is raised for the first generated unit (`development_manager.py:554`); approving that one file passes the gate for the phase, which the comment at 257 says it follows |
| `restarted` (MCSupervisor) | `PostGateEnforced` | a crash between a phase's completion and its pause: the gate is never asked for |
| | `SealedBeforeWork` | a crash between intake's completion and the seal: the contract stays open for good |
| | `UnitsOnCurrentInputs` | a resume over an edited artifact keeps units that rollback would drop |
| | `CompletedMeansDone` | a completed run stays completed when a resume sends phases back |
| `forced_on` (MCSupervisor) | `EndedPauseForgotten` | force-advance out of questions; after a stop and restart the questions are back |
| | `CompletedInOrder` | those questions are answered: later phases stay completed before intake |
| `two_writers` (RunStateFile) | `NeverTorn`, `SavesSurvive` | two writers rename half a file, or lose each other's saves |
| `retries` (RetryLoop) | `RetriesAsConfigured` | a configured budget of 0 becomes the default |
| | `EveryFailureRecorded` | two runs number a failure record alike, one replaces the other |
| `registry` (RunRegistry) | `StopInterrupts` | a stop waits until the run pauses by itself |
| | `ResumeContinues` | a stopped run resumes only after a restart |
| | `ProfileKept` | a run's security profile is not in its file |
| | `GatesHold` | with two managers, one passes the gate the other waits at |
| | `HomeGatesEnforced` | a restart after a phase's completion was saved (`development_manager.py:423`) and before its pause was (586): the resumed run, at home, executes the next phase without the gate |
| `tests` (MCCodeUnits) | `ReportCurrent` | when a round of repair breaks the manifest, the violation takes the place of the test run (`sdk/openhands_adapter.py:834-840`) and the old report is not removed: the next round is aimed by it, against the comment at 772-773. With `Configs <- MCBox`: a copy into the container leaves its old report there, and a test run that dies before writing one brings it back (`verify/docker_executor.py:129`) |
| | `TestsKeepManifest` | the repair after a failed compile goes to the tests without a look at the manifest |
| | `ContainersCleanedUp` | `close` forgets the id whatever `docker rm -f` answers (`verify/docker_executor.py:153-156`), and a `docker run` that takes too long leaves a container whose id was never learned (177-183); `src/anvil-development/v0.1.4/docs/spec.md`, FR-DX-005: "Container cleanup runs on every exit path" |
| `services` (MCServices) | `SealedWithinCap` | what intake assumes is appended behind the only look at the cap, and the contract is sealed over it (`config/schema.py:33-37`) |
| | `DeepestFrameBlamed` | a line below the deepest frame that merely contains an artifact's basename is blamed instead (FR-JL-003) |
| | `OneRepairPerFile` | a file that one completion has twice is listed twice (`sdk/openhands_adapter.py:1159-1164`; the list of the planned files drops repeats, line 534), and a round that repairs the whole list repairs it twice; `src/anvil-development/v0.1.4/docs/spec.md:67`: "Each implicated file gets ONE repair completion per round" |
| | `MapWithinCap` | the blank lines between blocks and the note of what was omitted are not counted (`verify/interface_map.py:153-160`): two blocks that fill the cap make a map two characters above it (FR-IC-002) |
| | `TextAsKept` | each chunk is decoded without `{ stream: true }` (`eventStreamClient.ts:112`): a cut inside a character puts replacement characters in its place |
| | `TailDropped` | a sibling that does not fit is skipped and smaller ones behind it are shown (`verify/interface_map.py:106`, FR-IC-002) |
| | `NoAnswerLost` | a step that raises after some completions leaves them out of the account (`llm/usage_tracker.py:4`) |
| | `FailedServerFromCache` | a server that fails while another answers is not answered for by its cached tools (FR-MC-012) |
| | `NothingAfterDispose` | events of a chunk that was decoded are delivered after `dispose` (`eventStreamClient.ts:91`) |
| | `NothingPaperedOver` | a proposal of nothing but its COMPLEXITY line is written with both headings supplied and passes validation; `sdk/openhands_adapter.py:222-226`: a response must fail "rather than be papered over with placeholder artifacts that pass validation" |
| | `RawAnswerRetried` | code without a file block is kept as `src/GENERATED.md` and completes implementation when no manifest is pinned; the comment at 1167-1168 says "validation then drives a retry" |
| | `ResumeKeepsAll` | that file takes the place of the one factory-init left and recorded: a resume of a run that nobody edited finds factory-init's checksum wrong and sends back everything from there (`core/phase_contracts.py:217`) |
| `task_lost` (MCClients) | `EveryTaskReported` | a body that is not JSON escapes `run_task`, and the suite ends without results (`runner.py:60`: "never raises") |
| | `GraftNeverRaises` | a generated module that parses, but not once merged (one indented by tabs, say), raises where `graft_module` parses the merged text (`graft.py:116`, outside any `try`): the library is not scored; `graft.py:77`: "Never raises on model output" |

One more was met and has no configuration: the replacement that the policy
proposes is not checked again, so under two rules whose replacements differ the
first may be a model that the second forbids. `session_bridge.py:52-53` says of
the other way out that "proceeding would call the forbidden model". `services`
takes policies of two rules that agree, and `OnlyPermittedCalled` has that as its
premise.

This is why some passing properties are checked in the runs they are meant for
and not in all: `EndedPauseForgotten` and `CompletedInOrder` without
force-advance, `UnitsCurrent` without edited artifacts, `PausesHold` without
rollback in its first part, `HomeSingleExecutor` and `HomeGatesHold` for runs in
the server's own root, the latter but for the gates a restart cut off,
`HostReportCurrent` for tests on the host without a manifest, the second part of
`BoxRemoved` while docker obeys.

## 6. Not modelled

- The text of prompts, artifacts, events and summaries; parsing, redaction and
  pricing. Their verdicts are choices of the models.
- Drift, hooks and the policy's rules about anything but models: pure judgements
  of a result.
- In-process subscribers of the event bus: the runtime registers none.
- The editor's views and command parsing, and what the held-out tests of the
  evaluation measure: whether they pass is a choice.
- `start_run`'s two saves, and reading routes (list, progress, summary).
- A second server process on one workspace: `RunStateFile` reproduces what two
  writers do to the file; `RunRegistry` is one server.
- Textual comparison of workspace paths (`routes_runs.py:207`): `home` is a
  constant of a run. A home run that is resumed by another spelling of its path
  would get a second manager, and then behaves as a run not at home.
- Custom dependencies that contradict the canonical order (`OrderAssumption`):
  nothing in the runtime passes any to the manager; `PhaseDAGLoops` covers them
  for the graph's own loops.

## 7. Plan

Done: the supervisor, the graph, the state file, the retry loop, the
implementation phase, the workspace, the registry, the services, the clients,
and eight proof modules. What is left, in this order:

1. `start_run` with its two saves, and the tier's save, as crash points of
   `Supervisor`, with the proofs carried along.
2. `RunRegistry` with clarify, rollback and force-advance as requests, and with
   `ChatClient` as its client instead of the promise of its routes.
3. Proofs: the action properties of `Supervisor` (an approved gate stays
   approved, a sealed contract stays as it is, in runs without rollback), and
   the refinement of a supervisor's step by `RetryLoop` as one composition.
