--------------------------- MODULE ClientsProofs ----------------------------
(***************************************************************************)
(* The clients, for every value of their constants.                        *)
(*                                                                         *)
(*   chat     a run is running only while a turn drives it and knows that  *)
(*            it is running, unless its turn gave up, and an approval      *)
(*            passes no gate but the one that was read.  The invariant     *)
(*            adds what the driving turn knows: without it a turn that     *)
(*            ends might leave a running run behind                        *)
(*   evals    what is counted as resolved stays so.  The invariant follows *)
(*            who may still change the code that is scored: only a step    *)
(*            that the harness did not wait for, after which the task's    *)
(*            outcome is not "completed"                                   *)
(*   commit0  every test round, and the score of a run without rounds or   *)
(*            with a last round that nothing came after, is of what the    *)
(*            run has written on top of the pristine package.  The         *)
(*            invariant says what the package holds between rounds, and    *)
(*            half way through the modules to graft                        *)
(***************************************************************************)
EXTENDS Clients, Sequences, TLAPS

ChatStatuses == {"none", "running"} \cup Chat!Settled
RunStates ==
    [status : ChatStatuses, gate : Gates \cup {Chat!NoGate},
     passed : SUBSET (Gates \cup {Chat!NoGate})]

ChatTyped ==
    /\ runs \in [Chat!Runs -> RunStates]
    /\ turn = [t \in Turns |-> turn[t]]
    /\ \A t \in Turns : DOMAIN turn[t] = DOMAIN Chat!Idle

\* Turn t drives run r, and has last seen it running.
Driving(t, r) == turn[t].pc = "driving" /\ turn[t].run = r /\ turn[t].status = "running"

Driven == \A r \in Chat!Runs : runs[r].status = "running" =>
              r \in gaveUp \/ \E t \in Turns : Driving(t, r)

ChatInv == ChatTyped /\ Driven

-----------------------------------------------------------------------------
\* A step leaves a run a run, one until the next pause leaves it not running.
LEMMA ChatStepTyped ==
    ASSUME NEW state \in RunStates, NEW after \in Chat!Stepped(state)
    PROVE  after \in RunStates
  <1>1. CASE after = state
    BY <1>1
  <1>2. CASE \E s \in {"completed", "escalated"} : after = [state EXCEPT !.status = s]
    BY <1>2 DEF RunStates, ChatStatuses, Chat!Settled
  <1>3. CASE \E g \in Gates : after = [state EXCEPT !.status = "awaiting_approval", !.gate = g]
    BY <1>3 DEF RunStates, ChatStatuses, Chat!Settled
  <1>4. CASE after = [state EXCEPT !.status = "awaiting_clarification"]
    BY <1>4 DEF RunStates, ChatStatuses, Chat!Settled
  <1> QED BY <1>1, <1>2, <1>3, <1>4 DEF Chat!Stepped

\* Where an advance leaves a run is a state of a run.
LEMMA ChatPauseTyped ==
    ASSUME NEW state \in RunStates, NEW after \in Chat!Paused(state)
    PROVE  after \in RunStates /\ after.status # "running"
  BY ChatStepTyped DEF Chat!Paused

\* What becomes of a run that is not running needs no turn.
LEMMA ChatNotRunning ==
    ASSUME ChatInv, NEW r, NEW after \in RunStates, after.status # "running",
           runs' = [runs EXCEPT ![r] = after], UNCHANGED <<turn, gaveUp>>
    PROVE  ChatInv'
  BY DEF ChatInv, ChatTyped, Driven, Driving

\* Nobody drives before the first turn.
LEMMA ChatInit == Chat!Init => ChatInv
  BY DEF Chat!Init, ChatInv, ChatTyped, Driven, RunStates, ChatStatuses, Chat!Idle, Chat!NoGate

\* A turn starts a run and drives it, or does not hear of it.
LEMMA ChatStart == ASSUME ChatInv, NEW t \in Turns, Chat!StartRun(t) PROVE ChatInv'
  <1>1. PICK n : n = started'
    OBVIOUS
  <1>2. runs' = [runs EXCEPT ![n].status = "running"]
    BY <1>1 DEF Chat!StartRun
  <1>3. runs' \in [Chat!Runs -> RunStates]
    BY <1>2 DEF ChatInv, ChatTyped, RunStates, ChatStatuses
  <1>4. \A r \in Chat!Runs : r # n => runs'[r] = runs[r]
    BY <1>2 DEF ChatInv, ChatTyped
  <1>5. turn[t].pc = "idle" /\ gaveUp \subseteq gaveUp'
    BY DEF Chat!StartRun
  <1>6. \/ turn' = [turn EXCEPT ![t] = [Chat!Idle EXCEPT !.pc = "driving", !.run = n,
                                                 !.status = "running"]]
        \/ turn' = [turn EXCEPT ![t] = Chat!Idle] /\ n \in gaveUp'
    BY <1>1 DEF Chat!StartRun, Chat!End
  <1>7. ChatTyped'
    BY <1>3, <1>6 DEF ChatInv, ChatTyped, Chat!Idle
  <1>8. n \in gaveUp' \/ Driving(t, n)'
    BY <1>6 DEF ChatInv, ChatTyped, Driving, Chat!Idle
  <1>9. \A u \in Turns : u # t => turn'[u] = turn[u]
    BY <1>6 DEF ChatInv, ChatTyped
  <1>10. ASSUME NEW r \in Chat!Runs, r # n, runs[r].status = "running"
         PROVE  r \in gaveUp' \/ \E u \in Turns : Driving(u, r)'
    BY <1>5, <1>9, <1>10 DEF ChatInv, Driven, Driving
  <1>11. Driven'
    BY <1>4, <1>8, <1>10 DEF Driven
  <1> QED BY <1>7, <1>11 DEF ChatInv

\* The driving turn advances its run, hears of it or gives it up.
LEMMA ChatAdvance == ASSUME ChatInv, NEW t \in Turns, Chat!Advance(t) PROVE ChatInv'
  <1> DEFINE r == turn[t].run
  <1>1. PICK after \in Chat!Stepped(runs[r]) :
            /\ runs' = [runs EXCEPT ![r] = after]
            /\ turn' = [turn EXCEPT ![t].status = after.status,
                                    ![t].guard = (@ + 1) % (Advances + 1)]
    BY DEF Chat!Advance
  <1>2. r \in Chat!Runs => after \in RunStates
    BY ChatStepTyped DEF ChatInv, ChatTyped
  <1>3. ChatTyped'
    BY <1>1, <1>2 DEF ChatInv, ChatTyped, Chat!Idle
  <1>4. /\ turn[t].pc = "driving" /\ UNCHANGED gaveUp
        /\ turn'[t].pc = turn[t].pc /\ turn'[t].run = r /\ turn'[t].status = after.status
        /\ \A u \in Turns : u # t => turn'[u] = turn[u]
    BY <1>1 DEF Chat!Advance, Chat!Drives, ChatInv, ChatTyped, Chat!Idle
  <1>5. ASSUME NEW q \in Chat!Runs, runs'[q].status = "running"
        PROVE  q \in gaveUp' \/ \E u \in Turns : Driving(u, q)'
    <2>1. CASE q = r
      <3>1. runs'[q] = after
        BY <1>1, <2>1 DEF ChatInv, ChatTyped
      <3> QED BY <1>4, <1>5, <2>1, <3>1 DEF Driving
    <2>2. CASE q # r
      <3>1. runs'[q] = runs[q]
        BY <1>1, <2>2 DEF ChatInv, ChatTyped
      <3> QED BY <1>4, <1>5, <2>2, <3>1 DEF ChatInv, Driven, Driving
    <2> QED BY <2>1, <2>2
  <1> QED BY <1>3, <1>5 DEF ChatInv, Driven

\* A turn whose request fails gives the run up.
LEMMA ChatAdvanceFails == ASSUME ChatInv, NEW t \in Turns, Chat!AdvanceFails(t) PROVE ChatInv'
  <1> DEFINE r == turn[t].run
  <1>1. PICK after \in Chat!Stepped(runs[r]) : runs' = [runs EXCEPT ![r] = after]
    BY DEF Chat!AdvanceFails
  <1>2. r \in Chat!Runs => after \in RunStates
    BY ChatStepTyped DEF ChatInv, ChatTyped
  <1>3. /\ turn' = [turn EXCEPT ![t] = Chat!Idle]
        /\ gaveUp' = gaveUp \cup {r}
    BY DEF Chat!AdvanceFails, Chat!End
  <1>4. ChatTyped'
    BY <1>1, <1>2, <1>3 DEF ChatInv, ChatTyped
  <1>5. ASSUME NEW q \in Chat!Runs, q # r
        PROVE  /\ runs'[q] = runs[q]
               /\ \A u \in Turns : Driving(u, q) => Driving(u, q)'
    BY <1>1, <1>3, <1>5 DEF ChatInv, ChatTyped, Driving
  <1>6. Driven'
    BY <1>3, <1>5 DEF ChatInv, Driven
  <1> QED BY <1>4, <1>6 DEF ChatInv

\* A turn ends: it does not drive a run that it has seen running, or gives it up.
LEMMA ChatEnd == ASSUME ChatInv, NEW t \in Turns, Chat!DrivingEnds(t) PROVE ChatInv'
  <1>1. /\ turn' = [turn EXCEPT ![t] = Chat!Idle] /\ UNCHANGED runs
        /\ turn[t].pc = "driving"
        /\ gaveUp' = IF Chat!Drives(t) THEN gaveUp \cup {turn[t].run} ELSE gaveUp
    BY DEF Chat!DrivingEnds, Chat!End
  <1>2. ChatTyped'
    BY <1>1 DEF ChatInv, ChatTyped
  <1>3. ASSUME NEW r \in Chat!Runs, NEW u \in Turns, Driving(u, r)
        PROVE  r \in gaveUp' \/ Driving(u, r)'
    <2>1. CASE u = t
      BY <1>1, <1>3, <2>1 DEF Chat!Drives, Driving, Chat!Settled
    <2>2. CASE u # t
      BY <1>1, <1>3, <2>2 DEF ChatInv, ChatTyped, Driving
    <2> QED BY <2>1, <2>2
  <1>4. Driven'
    BY <1>1, <1>3 DEF ChatInv, Driven
  <1> QED BY <1>2, <1>4 DEF ChatInv

-----------------------------------------------------------------------------
\* A turn reads the gate that is pending, and decides.
LEMMA ChatReadGate == ASSUME ChatInv, NEW t \in Turns, Chat!ReadGate(t) PROVE ChatInv'
  BY DEF Chat!ReadGate, ChatInv, ChatTyped, Driven, Driving, Chat!Idle

\* What an approval makes of a run is a state of a run.
LEMMA ChatGrantedTyped ==
    ASSUME NEW state \in RunStates, NEW gate PROVE Chat!Granted(state, gate) \in RunStates
  BY DEF Chat!Granted, RunStates, ChatStatuses

\* An approval or a denial keeps what the driving turn knows.
LEMMA ChatDecision ==
    ASSUME ChatInv, NEW t \in Turns, Chat!Approve(t) \/ Chat!Deny(t) PROVE ChatInv'
  <1> DEFINE r == turn[t].run
  <1>1. /\ turn' = [turn EXCEPT ![t] = Chat!Idle] /\ UNCHANGED gaveUp
        /\ turn[t].pc = "deciding"
    BY DEF Chat!Approve, Chat!Deny, Chat!End
  <1>2. \/ UNCHANGED runs
        \/ \E after \in Chat!Paused(Chat!Granted(runs[r], turn[t].gate)) :
               runs' = [runs EXCEPT ![r] = after]
    BY DEF Chat!Approve, Chat!Deny
  <1>3. /\ runs' \in [Chat!Runs -> RunStates]
        /\ \A q \in Chat!Runs : runs'[q].status = "running" => runs[q].status = "running"
    <2>1. CASE r \in Chat!Runs
      <3>1. Chat!Granted(runs[r], turn[t].gate) \in RunStates
        BY <2>1, ChatGrantedTyped DEF ChatInv, ChatTyped
      <3> QED BY <1>2, <2>1, <3>1, ChatPauseTyped DEF ChatInv, ChatTyped
    <2>2. CASE r \notin Chat!Runs
      BY <1>2, <2>2 DEF ChatInv, ChatTyped
    <2> QED BY <2>1, <2>2
  <1>4. ChatTyped'
    BY <1>1, <1>3 DEF ChatInv, ChatTyped
  <1>5. \A q \in Chat!Runs, u \in Turns : Driving(u, q) => Driving(u, q)'
    BY <1>1 DEF ChatInv, ChatTyped, Driving
  <1>6. Driven'
    BY <1>1, <1>3, <1>5 DEF ChatInv, Driven
  <1> QED BY <1>4, <1>6 DEF ChatInv

\* Answers, stops and overrides of the run started last.
LEMMA ChatAnswer == ChatInv /\ Chat!Answer => ChatInv'
  <1> SUFFICES ASSUME ChatInv, Chat!Answer PROVE ChatInv'
    OBVIOUS
  <1> DEFINE state == [runs[active] EXCEPT !.status = "running"]
  <1>1. PICK after \in Chat!Paused(state) : runs' = [runs EXCEPT ![active] = after]
    BY DEF Chat!Answer
  <1>2. UNCHANGED <<turn, gaveUp>>
    BY DEF Chat!Answer
  <1>3. CASE active \in Chat!Runs
    <2>1. state \in RunStates
      BY <1>3 DEF ChatInv, ChatTyped, RunStates, ChatStatuses
    <2>2. after \in RunStates /\ after.status # "running"
      BY <2>1, ChatPauseTyped
    <2> QED BY <1>1, <1>2, <2>2, ChatNotRunning
  <1>4. CASE active \notin Chat!Runs
    BY <1>1, <1>2, <1>4 DEF ChatInv, ChatTyped, Driven, Driving
  <1> QED BY <1>3, <1>4

\* A stop keeps what the driving turn knows.
LEMMA ChatStop == ChatInv /\ Chat!Stop => ChatInv'
  <1> SUFFICES ASSUME ChatInv, Chat!Stop PROVE ChatInv'
    OBVIOUS
  <1>1. /\ runs' = [runs EXCEPT ![active].status = "stopped"]
        /\ UNCHANGED <<turn, gaveUp>>
    BY DEF Chat!Stop
  <1>2. runs' \in [Chat!Runs -> RunStates]
    BY <1>1 DEF ChatInv, ChatTyped, RunStates, ChatStatuses, Chat!Settled
  <1>3. \A r \in Chat!Runs : runs'[r].status = "running" => runs[r].status = "running"
    BY <1>1 DEF ChatInv, ChatTyped, RunStates
  <1> QED BY <1>1, <1>2, <1>3 DEF ChatInv, ChatTyped, Driven, Driving

\* An override keeps what the driving turn knows.
LEMMA ChatResume == ChatInv /\ Chat!Resume => ChatInv'
  <1> SUFFICES ASSUME ChatInv, Chat!Resume PROVE ChatInv'
    OBVIOUS
  <1> DEFINE Freed(passed) == [status |-> "running", gate |-> Chat!NoGate, passed |-> passed]
  <1>0. PICK passed \in {runs[active].passed,
                         runs[active].passed \cup ({runs[active].gate} \ {Chat!NoGate})} :
            \E after \in Chat!Paused(Freed(passed)) : runs' = [runs EXCEPT ![active] = after]
    BY DEF Chat!Resume
  <1>1. PICK after \in Chat!Paused(Freed(passed)) : runs' = [runs EXCEPT ![active] = after]
    BY <1>0
  <1>2. UNCHANGED <<turn, gaveUp>>
    BY DEF Chat!Resume
  <1>3. CASE active \in Chat!Runs
    <2>1. Freed(passed) \in RunStates
      BY <1>3 DEF ChatInv, ChatTyped, RunStates, ChatStatuses
    <2>2. after \in RunStates /\ after.status # "running"
      BY <2>1, ChatPauseTyped
    <2> QED BY <1>1, <1>2, <2>2, ChatNotRunning
  <1>4. CASE active \notin Chat!Runs
    BY <1>1, <1>2, <1>4 DEF ChatInv, ChatTyped, Driven, Driving
  <1> QED BY <1>3, <1>4

\* A step of the chat keeps it.
LEMMA ChatNext == ChatInv /\ [Chat!Next]_chat => ChatInv'
  <1>1. ChatInv /\ UNCHANGED chat => ChatInv'
    BY DEF chat, ChatInv, ChatTyped, Driven, Driving
  <1>2. ASSUME ChatInv, NEW t \in Turns, Chat!StartRun(t) \/ Chat!ReadGate(t) \/ Chat!Work(t)
        PROVE  ChatInv'
    BY <1>2, ChatStart, ChatReadGate, ChatAdvance, ChatAdvanceFails, ChatEnd, ChatDecision
       DEF Chat!Work
  <1> QED BY <1>1, <1>2, ChatAnswer, ChatStop, ChatResume DEF Chat!Next

-----------------------------------------------------------------------------
(***************************************************************************)
(* The evaluation harness.                                                 *)
(***************************************************************************)
TaskStatuses == {"none", "running", "completed", "escalated", "awaiting_approval", "stopped"}
Outcomes == TaskStatuses \cup {"not_started", "client_error", "timeout"}
TaskResults == [outcome : Outcomes, resolved : BOOLEAN, passed : BOOLEAN]

EvalsTyped ==
    /\ stepping \in BOOLEAN
    /\ run \in [status : TaskStatuses, good : BOOLEAN]
    /\ outcome \in Outcomes
    /\ results \in Seq(TaskResults)

\* Nothing is under way before the first step and between two of them.
Waited == progress \in {"starting", "driving"} => ~stepping

\* The outcome is of the run as it stays.
OutcomeOK == progress = "scoring" /\ outcome = "completed" => run.status = "completed" /\ ~stepping

EvalsInv == EvalsTyped /\ Waited /\ OutcomeOK /\ Evals!ResolvedIsFinal

\* A new suite has counted nothing.
LEMMA EvalsInit == Evals!Init => EvalsInv
  <1> SUFFICES ASSUME Evals!Init PROVE EvalsInv
    OBVIOUS
  <1>1. results \in Seq(TaskResults)
    BY DEF Evals!Init
  <1>2. run \in [status : TaskStatuses, good : BOOLEAN] /\ outcome \in Outcomes
    BY DEF Evals!Init, Evals!NoRun, TaskStatuses, Outcomes
  <1>3. stepping = FALSE /\ progress = "start"
    BY DEF Evals!Init
  <1> QED
    BY <1>1, <1>2, <1>3 DEF EvalsInv, EvalsTyped, Waited, OutcomeOK, Evals!ResolvedIsFinal

\* The command around the suite.
LEMMA EvalsCommand ==
    EvalsInv /\ (\/ Evals!Spawn \/ Evals!Healthy \/ Evals!Unhealthy \/ Evals!NextTask
                 \/ Evals!WriteReports \/ Evals!Stop) => EvalsInv'
  <1> USE DEF EvalsInv, EvalsTyped, Waited, OutcomeOK, Evals!ResolvedIsFinal
  <1>1. EvalsInv /\ (Evals!Spawn \/ Evals!Healthy \/ Evals!Unhealthy \/ Evals!WriteReports)
            => EvalsInv'
    BY DEF Evals!Spawn, Evals!Healthy, Evals!Unhealthy, Evals!WriteReports
  <1>2. EvalsInv /\ Evals!NextTask => EvalsInv'
    <2> SUFFICES ASSUME EvalsInv, Evals!NextTask PROVE EvalsInv'
      OBVIOUS
    <2>1. /\ run' = Evals!NoRun /\ stepping' = FALSE /\ outcome' = "not_started"
          /\ progress' = "starting" /\ results' = results
      BY DEF Evals!NextTask
    <2>2. run' \in [status : TaskStatuses, good : BOOLEAN] /\ outcome' \in Outcomes
      BY <2>1 DEF Evals!NoRun, TaskStatuses, Outcomes
    <2> QED BY <2>1, <2>2
  <1>3. EvalsInv /\ Evals!Stop => EvalsInv'
    <2> SUFFICES ASSUME EvalsInv, Evals!Stop PROVE EvalsInv'
      OBVIOUS
    <2>1. progress' = "ended" /\ UNCHANGED <<run, outcome, results>>
      BY DEF Evals!Stop
    <2>2. stepping' \in BOOLEAN
      BY DEF Evals!Stop
    <2> QED BY <2>1, <2>2
  <1> QED BY <1>1, <1>2, <1>3

\* A task is begun, driven, given up and settled.
LEMMA EvalsDrive ==
    EvalsInv /\ (\/ Evals!StartRun \/ Evals!Advance \/ Evals!Deadline \/ Evals!AdvanceFails
                 \/ Evals!BodyBreaks \/ Evals!Settled) => EvalsInv'
  <1> USE DEF EvalsInv, EvalsTyped, Waited, OutcomeOK, Evals!ResolvedIsFinal, TaskStatuses, Outcomes
  <1>1. EvalsInv /\ Evals!StartRun => EvalsInv'
    <2> SUFFICES ASSUME EvalsInv, Evals!StartRun PROVE EvalsInv'
      OBVIOUS
    <2>1. run' \in [status : TaskStatuses, good : BOOLEAN]
      BY DEF Evals!StartRun, Evals!NoRun
    <2>2. \/ progress' = "driving" /\ outcome' = outcome
          \/ progress' = "scoring" /\ outcome' = "client_error"
      BY DEF Evals!StartRun, Evals!Fails
    <2>3. ~stepping /\ UNCHANGED <<stepping, results>>
      BY DEF Evals!StartRun
    <2> QED BY <2>1, <2>2, <2>3
  <1>2. EvalsInv /\ (Evals!Advance \/ Evals!AdvanceFails \/ Evals!BodyBreaks) => EvalsInv'
    BY DEF Evals!Advance, Evals!AdvanceFails, Evals!BodyBreaks, Evals!Fails
  <1>3. EvalsInv /\ Evals!Deadline => EvalsInv'
    BY DEF Evals!Deadline
  <1>4. EvalsInv /\ Evals!Settled => EvalsInv'
    BY DEF Evals!Settled
  <1> QED BY <1>1, <1>2, <1>3, <1>4

\* The task is scored: what has completed and passes stays as it is.
LEMMA EvalsScore == EvalsInv /\ (Evals!Score \/ Evals!ScoreEnds) => EvalsInv'
  <1>1. EvalsInv /\ Evals!ScoreEnds => EvalsInv'
    BY DEF Evals!ScoreEnds, EvalsInv, EvalsTyped, Waited, OutcomeOK, Evals!ResolvedIsFinal
  <1>2. EvalsInv /\ Evals!Score => EvalsInv'
    <2> SUFFICES ASSUME EvalsInv, Evals!Score PROVE EvalsInv'
      OBVIOUS
    <2>1. PICK passed \in BOOLEAN :
              /\ ~stepping => passed = (run.status # "none" /\ run.good)
              /\ results' = Append(results, [outcome |-> outcome,
                     resolved |-> Evals!Resolved(outcome, passed), passed |-> passed])
      BY DEF Evals!Score, EvalsInv, EvalsTyped
    <2> DEFINE result == [outcome |-> outcome, resolved |-> Evals!Resolved(outcome, passed),
                          passed |-> passed]
    <2>2. result \in TaskResults
      BY DEF TaskResults, Evals!Resolved, EvalsInv, EvalsTyped
    <2>3. results' \in Seq(TaskResults) /\ results'[Len(results')] = result
      BY <2>1, <2>2 DEF EvalsInv, EvalsTyped
    <2>4. result.resolved => outcome = "completed" /\ passed
      BY DEF Evals!Resolved
    <2>5. UNCHANGED <<run, stepping, outcome>> /\ progress = "scoring" /\ progress' = "scored"
      BY DEF Evals!Score
    <2> QED
      BY <2>1, <2>3, <2>4, <2>5 DEF EvalsInv, EvalsTyped, Waited, OutcomeOK, Evals!ResolvedIsFinal
  <1> QED BY <1>1, <1>2

\* The runtime works and dies, time passes.
LEMMA EvalsRuntime ==
    EvalsInv /\ (Evals!StepDone \/ Evals!TimePasses \/ Evals!ServerDies) => EvalsInv'
  <1> USE DEF EvalsInv, EvalsTyped, Waited, OutcomeOK, Evals!ResolvedIsFinal
  <1>1. EvalsInv /\ Evals!StepDone => EvalsInv'
    <2> SUFFICES ASSUME EvalsInv, Evals!StepDone PROVE EvalsInv'
      OBVIOUS
    <2>1. run' \in [status : TaskStatuses, good : BOOLEAN]
      BY DEF Evals!StepDone, TaskStatuses
    <2>2. /\ stepping /\ stepping' = FALSE
          /\ progress' = IF progress = "waiting" THEN "driving" ELSE progress
          /\ UNCHANGED <<outcome, results>>
      BY DEF Evals!StepDone
    <2>3. EvalsTyped' /\ Waited' /\ OutcomeOK'
      BY <2>1, <2>2
    <2>4. Evals!ResolvedIsFinal'
      BY <2>2, Zenon
    <2> QED BY <2>3, <2>4
  <1>2. EvalsInv /\ Evals!TimePasses => EvalsInv'
    BY DEF Evals!TimePasses
  <1>3. EvalsInv /\ Evals!ServerDies => EvalsInv'
    <2> SUFFICES ASSUME EvalsInv, Evals!ServerDies PROVE EvalsInv'
      OBVIOUS
    <2>1. stepping' = FALSE /\ UNCHANGED <<progress, run, outcome, results>>
      BY DEF Evals!ServerDies
    <2>2. EvalsTyped' /\ Waited' /\ OutcomeOK'
      BY <2>1
    <2>3. Evals!ResolvedIsFinal'
      BY <2>1
    <2> QED BY <2>2, <2>3
  <1> QED BY <1>1, <1>2, <1>3

\* A step of the harness or its runtime keeps it.
LEMMA EvalsNext == EvalsInv /\ [Evals!Next]_evals => EvalsInv'
  <1>1. EvalsInv /\ UNCHANGED evals => EvalsInv'
    BY DEF evals, EvalsInv, EvalsTyped, Waited, OutcomeOK, Evals!ResolvedIsFinal
  <1> QED
    BY <1>1, EvalsCommand, EvalsDrive, EvalsScore, EvalsRuntime DEF Evals!Next, Evals!Harness

-----------------------------------------------------------------------------
(***************************************************************************)
(* Commit0.                                                                *)
(***************************************************************************)
Functions == DOMAIN ModuleOf

\* Every module is grafted, or has its pristine code.
IsFresh == package = [modules |-> staged, body |-> Benchmark!Fresh]

IsPristine == package = Benchmark!Pristine

\* What is still to be grafted is pristine, the rest is fresh.
HalfGrafted ==
    package = [modules |-> staged,
               body |-> [f \in Functions |->
                   IF ModuleOf[f] \in todo THEN Benchmark!Pristine.body[f]
                   ELSE Benchmark!Fresh[f]]]

\* Before the score: a run with rounds has left its last one, one without the stage.
LeftBehind == IF repairing THEN ~unproven => IsFresh ELSE IsPristine

CommitInv ==
    /\ repairing \in BOOLEAN
    /\ pc \in {"removing", "copying", "grafting"} => repairing
    /\ pc = "running" => LeftBehind
    /\ pc = "grafting" => HalfGrafted
    /\ pc = "applying" => IF repairing THEN ~unproven => IsFresh ELSE HalfGrafted
    /\ Benchmark!ScoreIsFresh

-----------------------------------------------------------------------------
\* A fresh clone is pristine.
LEMMA CommitInit == Benchmark!Init => CommitInv
  BY DEF Benchmark!Init, CommitInv, Benchmark!ScoreIsFresh

\* With nothing left to graft, half grafted is fresh.
LEMMA AllGrafted == HalfGrafted /\ todo = {} => IsFresh
  BY DEF HalfGrafted, IsFresh, Benchmark!Fresh, Benchmark!Functions, Functions

\* Before anything is written, pristine is fresh: a file is laid out as it is.
LEMMA StageInv == CommitInv /\ Benchmark!Stage => CommitInv'
  <1> SUFFICES ASSUME CommitInv, Benchmark!Stage PROVE CommitInv'
    OBVIOUS
  <1>1. /\ package' = [modules |-> staged', body |-> Benchmark!Cut(Skeleton, staged')]
        /\ pc' = "running" /\ UNCHANGED repairing
        /\ src' = [m \in Modules |->
                      IF m \in staged' /\ Benchmark!NeedsWork(m)
                      THEN [parses |-> "merged", body |-> Benchmark!Cut(Skeleton, {m})]
                      ELSE Benchmark!NoFile]
    BY DEF Benchmark!Stage
  <1>2. IsPristine'
    BY <1>1 DEF IsPristine, Benchmark!Pristine, Benchmark!Cut, Benchmark!Functions
  <1>3. ASSUME NEW f \in Functions
        PROVE  Benchmark!Fresh'[f] = IF ModuleOf[f] \in staged' THEN Skeleton[f] ELSE 0
    <2> DEFINE m == ModuleOf[f]
    <2>1. m \in Modules
      BY ClientsAssumption DEF Functions
    <2>2. src'[m].parses = "merged" => src'[m].body[f] = Skeleton[f]
      BY <1>1, <2>1 DEF Benchmark!Cut, Benchmark!NoFile, Benchmark!Functions, Functions
    <2> QED
      BY <2>2 DEF Benchmark!Fresh, Benchmark!Absent, Benchmark!Functions, Functions
  <1>4. IsFresh'
    <2>1. Benchmark!Fresh' = Benchmark!Cut(Skeleton, staged')
      BY <1>3 DEF Benchmark!Fresh, Benchmark!Cut, Benchmark!Absent, Benchmark!Functions,
                  Functions
    <2> QED BY <1>1, <2>1 DEF IsFresh
  <1> QED BY <1>1, <1>2, <1>4 DEF CommitInv, LeftBehind, Benchmark!ScoreIsFresh

\* A file is written: what was fresh no longer is, and the run knows.
LEMMA WriteInv ==
    ASSUME NEW m \in Modules, CommitInv, Benchmark!Write(m) PROVE CommitInv'
  BY DEF Benchmark!Write, CommitInv, LeftBehind, IsPristine, Benchmark!Pristine,
         Benchmark!Cut, Benchmark!ScoreIsFresh

-----------------------------------------------------------------------------
\* What grafting a module makes of it.
LEMMA GraftedBody ==
    ASSUME NEW m, NEW body, DOMAIN body = Functions, body = [f \in Functions |-> body[f]],
           package = [modules |-> staged, body |-> body],
           \A f \in Functions : ModuleOf[f] = m =>
               body[f] = Benchmark!Pristine.body[f] \/ body[f] = Benchmark!Fresh[f]
    PROVE  Benchmark!Grafted(package, m) =
               [modules |-> staged,
                body |-> [f \in Functions |->
                             IF ModuleOf[f] = m THEN Benchmark!Fresh[f] ELSE body[f]]]
  <1> USE DEF Benchmark!Functions, Functions
  <1>1. \A f \in Functions :
            /\ Benchmark!Pristine.body[f] = IF ModuleOf[f] \in staged THEN Skeleton[f] ELSE 0
            /\ Skeleton[f] \in {0, 1, 2}
    BY ClientsAssumption DEF Benchmark!Pristine, Benchmark!Cut, Benchmark!Absent
  <1>2. \A f \in Functions : ModuleOf[f] = m =>
            Benchmark!Fresh[f] =
                IF m \notin staged THEN 0
                ELSE IF Skeleton[f] # 2 /\ src[m].parses = "merged" /\ src[m].body[f] # 0
                THEN src[m].body[f] ELSE Skeleton[f]
    BY DEF Benchmark!Fresh, Benchmark!Absent, Benchmark!Given
  <1>3. CASE m \in staged /\ src[m].parses = "merged"
    <2>1. Benchmark!Grafted(package, m) =
              [modules |-> staged,
               body |-> [f \in Functions |->
                   IF f \in Benchmark!Of(m) /\ Benchmark!Fills(body[f]) /\ src[m].body[f] # 0
                   THEN src[m].body[f] ELSE body[f]]]
      BY <1>3 DEF Benchmark!Grafted, Benchmark!Absent
    <2>2. \A f \in Functions :
              (IF f \in Benchmark!Of(m) /\ Benchmark!Fills(body[f]) /\ src[m].body[f] # 0
               THEN src[m].body[f] ELSE body[f])
              = IF ModuleOf[f] = m THEN Benchmark!Fresh[f] ELSE body[f]
      BY <1>1, <1>2, <1>3 DEF Benchmark!Of, Benchmark!Fills, Benchmark!Stub, Benchmark!Absent
    <2> QED BY <2>1, <2>2
  <1>4. CASE ~(m \in staged /\ src[m].parses = "merged")
    <2>1. Benchmark!Grafted(package, m) = package
      BY <1>4 DEF Benchmark!Grafted
    <2>2. \A f \in Functions :
              body[f] = IF ModuleOf[f] = m THEN Benchmark!Fresh[f] ELSE body[f]
      BY <1>1, <1>2, <1>4
    <2> QED BY <2>1, <2>2
  <1> QED BY <1>3, <1>4

\* A module is grafted onto a package half grafted, or onto one that is fresh.
LEMMA GraftInv ==
    ASSUME NEW m \in Modules, CommitInv, Benchmark!Graft(m) PROVE CommitInv'
  <1>1. /\ pc \in {"grafting", "applying"} /\ m \in todo
        /\ \/ package' = Benchmark!Grafted(package, m)
           \/ Benchmark!Overlaid(m) /\ package' = package
        /\ todo' = todo \ {m}
        /\ UNCHANGED <<pc, repairing, staged, src, unproven>>
    BY DEF Benchmark!Graft
  <1>2. Benchmark!Fresh' = Benchmark!Fresh /\ Benchmark!Pristine' = Benchmark!Pristine
    BY <1>1 DEF Benchmark!Fresh, Benchmark!Pristine, Benchmark!Cut
  <1>3. HalfGrafted => HalfGrafted'
    <2> SUFFICES ASSUME HalfGrafted PROVE HalfGrafted'
      OBVIOUS
    <2> DEFINE body == [f \in Functions |-> IF ModuleOf[f] \in todo THEN Benchmark!Pristine.body[f]
                                            ELSE Benchmark!Fresh[f]]
    <2>1. package = [modules |-> staged, body |-> body]
      BY DEF HalfGrafted
    <2>3. ~Benchmark!Overlaid(m)
      BY <1>1, <2>1 DEF Benchmark!Overlaid, Benchmark!Of, Benchmark!Functions, Functions
    <2>4. m \in todo /\ package' = Benchmark!Grafted(package, m)
      BY <1>1, <2>3
    <2>2. package' = [modules |-> staged,
                      body |-> [f \in Functions |->
                                   IF ModuleOf[f] = m THEN Benchmark!Fresh[f] ELSE body[f]]]
      BY <2>1, <2>4, GraftedBody
    <2> QED BY <1>1, <1>2, <2>2 DEF HalfGrafted
  <1>4. IsFresh => IsFresh'
    <2> SUFFICES ASSUME IsFresh PROVE IsFresh'
      OBVIOUS
    <2>1. /\ package = [modules |-> staged, body |-> Benchmark!Fresh]
          /\ Benchmark!Fresh = [f \in Functions |-> Benchmark!Fresh[f]]
      BY DEF IsFresh, Benchmark!Fresh, Benchmark!Functions, Functions
    <2>2. CASE package' = package
      BY <1>1, <1>2, <2>2 DEF IsFresh
    <2>3. CASE package' = Benchmark!Grafted(package, m)
      <3>1. package' = [modules |-> staged,
                        body |-> [f \in Functions |->
                            IF ModuleOf[f] = m THEN Benchmark!Fresh[f] ELSE Benchmark!Fresh[f]]]
        BY <2>1, <2>3, GraftedBody
      <3> QED BY <1>1, <1>2, <2>1, <3>1 DEF IsFresh
    <2> QED BY <1>1, <2>2, <2>3
  <1> QED BY <1>1, <1>3, <1>4 DEF CommitInv, Benchmark!ScoreIsFresh

\* A graft that raises ends the round, or the attempt.
LEMMA RaisesInv ==
    ASSUME NEW m \in Modules, CommitInv, Benchmark!GraftRaises(m) PROVE CommitInv'
  BY DEF Benchmark!GraftRaises, CommitInv, LeftBehind, Benchmark!ScoreIsFresh

\* A round begins, removes the package, restores it, ends or is killed.
LEMMA RoundInv ==
    CommitInv /\ (\/ Benchmark!BeginRound \/ Benchmark!Remove \/ Benchmark!Restore
                  \/ Benchmark!RoundEnds \/ Benchmark!RoundKilled) => CommitInv'
  <1>1. CommitInv /\ (Benchmark!BeginRound \/ Benchmark!Remove \/ Benchmark!RoundKilled)
            => CommitInv'
    BY DEF Benchmark!BeginRound, Benchmark!Remove, Benchmark!RoundKilled, CommitInv, LeftBehind,
           Benchmark!ScoreIsFresh
  <1>2. CommitInv /\ Benchmark!Restore => CommitInv'
    <2> SUFFICES ASSUME CommitInv, Benchmark!Restore PROVE CommitInv'
      OBVIOUS
    <2>1. pc' = "grafting" /\ todo' = Modules /\ package' = Benchmark!Pristine
          /\ UNCHANGED <<repairing, staged>> /\ pc = "copying"
      BY DEF Benchmark!Restore
    <2>2. \A f \in Functions : ModuleOf[f] \in todo'
      BY <2>1, ClientsAssumption DEF Functions
    <2>3. HalfGrafted'
      BY <2>1, <2>2 DEF HalfGrafted, Benchmark!Pristine, Benchmark!Cut, Benchmark!Functions,
                        Functions
    <2> QED BY <2>1, <2>3 DEF CommitInv, Benchmark!ScoreIsFresh
  <1>3. CommitInv /\ Benchmark!RoundEnds => CommitInv'
    <2> SUFFICES ASSUME CommitInv, Benchmark!RoundEnds PROVE CommitInv'
      OBVIOUS
    <2>1. /\ pc = "grafting" /\ todo = {} /\ pc' = "running"
          /\ UNCHANGED <<repairing, staged, package, src>>
      BY DEF Benchmark!RoundEnds, Benchmark!stage
    <2>2. IsFresh'
      BY <2>1, AllGrafted DEF CommitInv, IsFresh, Benchmark!Fresh
    <2> QED BY <2>1, <2>2 DEF CommitInv, LeftBehind, Benchmark!ScoreIsFresh
  <1> QED BY <1>1, <1>2, <1>3

\* The drive ends, the score is taken, and the benchmark is run again.
LEMMA DriveEndsInv == CommitInv /\ Benchmark!DriveEnds => CommitInv'
  <1> SUFFICES ASSUME CommitInv, Benchmark!DriveEnds PROVE CommitInv'
    OBVIOUS
  <1>1. /\ pc = "running" /\ pc' = "applying" /\ todo' = Modules
        /\ UNCHANGED <<repairing, staged, package, src, unproven>>
    BY DEF Benchmark!DriveEnds
  <1>2. Benchmark!Fresh' = Benchmark!Fresh /\ Benchmark!Pristine' = Benchmark!Pristine
    BY <1>1 DEF Benchmark!Fresh, Benchmark!Pristine, Benchmark!Cut
  <1>3. IsFresh => IsFresh'
    BY <1>1, <1>2 DEF IsFresh
  <1>4. IsPristine => HalfGrafted'
    <2>1. \A f \in Functions : ModuleOf[f] \in todo'
      BY <1>1, ClientsAssumption DEF Functions
    <2> QED BY <1>1, <1>2, <2>1 DEF IsPristine, HalfGrafted, Benchmark!Pristine, Benchmark!Cut,
                                    Benchmark!Functions, Functions
  <1> QED BY <1>1, <1>3, <1>4 DEF CommitInv, LeftBehind, Benchmark!ScoreIsFresh

\* Scoring keeps what is known of the package.
LEMMA ScoredInv == CommitInv /\ Benchmark!Score => CommitInv'
  <1> SUFFICES ASSUME CommitInv, Benchmark!Score PROVE CommitInv'
    OBVIOUS
  <1>1. /\ pc = "applying" /\ todo = {} /\ pc' = "scored"
        /\ UNCHANGED <<repairing, staged, package, src, unproven>>
    BY DEF Benchmark!Score, Benchmark!stage
  <1>2. ~repairing \/ ~unproven => IsFresh
    BY <1>1, AllGrafted DEF CommitInv
  <1>3. Benchmark!Fresh' = Benchmark!Fresh
    BY <1>1 DEF Benchmark!Fresh
  <1>4. Benchmark!ScoreIsFresh'
    BY <1>1, <1>2, <1>3 DEF IsFresh, Benchmark!ScoreIsFresh
  <1> QED BY <1>1, <1>4 DEF CommitInv

\* Another attempt over the same clone keeps what is known of the package.
LEMMA AttemptInv ==
    CommitInv /\ (Benchmark!Fetch \/ Benchmark!ClientError \/ Benchmark!Again) => CommitInv'
  BY DEF Benchmark!Fetch, Benchmark!ClientError, Benchmark!Again, CommitInv,
         Benchmark!ScoreIsFresh

\* A step of the benchmark keeps it.
LEMMA CommitNext == CommitInv /\ [Benchmark!Next]_commit0 => CommitInv'
  <1>1. CommitInv /\ UNCHANGED commit0 => CommitInv'
    <2> SUFFICES ASSUME CommitInv, UNCHANGED commit0 PROVE CommitInv'
      OBVIOUS
    <2>1. UNCHANGED <<pc, repairing, staged, package, src, todo, unproven>>
      BY DEF commit0
    <2>2. Benchmark!Fresh' = Benchmark!Fresh /\ Benchmark!Pristine' = Benchmark!Pristine
      BY <2>1 DEF Benchmark!Fresh, Benchmark!Pristine, Benchmark!Cut
    <2> QED BY <2>1, <2>2 DEF CommitInv, LeftBehind, IsFresh, IsPristine, HalfGrafted,
                              Benchmark!ScoreIsFresh
  <1> QED
    BY <1>1, StageInv, WriteInv, GraftInv, RaisesInv, RoundInv, DriveEndsInv, ScoredInv,
       AttemptInv
       DEF Benchmark!Next

-----------------------------------------------------------------------------
(***************************************************************************)
(* The composition: a step is one of the client's own, or leaves it alone. *)
(***************************************************************************)
ClientsInv ==
    /\ client = "chat" => ChatInv
    /\ client = "evals" => EvalsInv
    /\ client = "commit0" => CommitInv

\* A step of the state graph is a step of its client, or none.
LEMMA ClientSteps ==
    ASSUME [Next]_vars
    PROVE  /\ client' = client
           /\ client = "chat" => [Chat!Next]_chat
           /\ client = "evals" => [Evals!Next]_evals
           /\ client = "commit0" => [Benchmark!Next]_commit0
  <1>1. CASE UNCHANGED vars
    BY <1>1 DEF vars
  <1>2. CASE Next
    BY <1>2 DEF Next, In
  <1> QED BY <1>1, <1>2

\* The invariants of the clients are invariants of the state graph.
LEMMA ClientsInvariance == Spec => []ClientsInv
  <1>1. Init => ClientsInv
    BY ChatInit, EvalsInit, CommitInit DEF Init, ClientsInv
  <1>2. ClientsInv /\ [Next]_vars => ClientsInv'
    <2> SUFFICES ASSUME ClientsInv, [Next]_vars PROVE ClientsInv'
      OBVIOUS
    <2>1. client = "chat" => ChatInv'
      BY ClientSteps, ChatNext DEF ClientsInv
    <2>2. client = "evals" => EvalsInv'
      BY ClientSteps, EvalsNext DEF ClientsInv
    <2>3. client = "commit0" => CommitInv'
      BY ClientSteps, CommitNext DEF ClientsInv
    <2> QED BY <2>1, <2>2, <2>3, ClientSteps DEF ClientsInv
  <1> QED BY <1>1, <1>2, PTL DEF Spec

-----------------------------------------------------------------------------
\* A run is running only while a turn drives it, or if its turn gave up, however
\* many turns, overrides and lost requests there are (participant.ts:84-90).
THEOREM SomebodyDrives == Spec => []RunningIsDriven
  <1>1. ClientsInv => RunningIsDriven
    BY DEF ClientsInv, ChatInv, Driven, Driving, RunningIsDriven, Chat!RunningIsDriven
  <1> QED BY <1>1, ClientsInvariance, PTL

\* An approval passes the gate that its turn read as pending, or none at all
\* (participant.ts:174-188).
THEOREM PassesWhatWasRead == Spec => ApprovedAsRead
  <1>1. ChatInv => Chat!ApprovesAsRead
    <2> SUFFICES ASSUME ChatInv, NEW t \in Turns, NEW r \in Chat!Runs, Chat!Approve(t)
                 PROVE  runs'[r].passed \subseteq
                            runs[r].passed \cup
                            (IF turn[t].run = r THEN {turn[t].gate} ELSE {})
      BY DEF Chat!ApprovesAsRead
    <2> DEFINE state == runs[turn[t].run]
    <2>1. CASE UNCHANGED runs
      BY <2>1
    <2>2. CASE ~UNCHANGED runs
      <3>1. Chat!GateMatches(state, turn[t].gate)
        BY <2>2 DEF Chat!Approve
      <3>2. PICK after \in Chat!Paused(Chat!Granted(state, turn[t].gate)) :
                runs' = [runs EXCEPT ![turn[t].run] = after]
        BY <3>1 DEF Chat!Approve
      <3>3. CASE turn[t].run = r
        <4>1. state \in RunStates
          BY <3>3 DEF ChatInv, ChatTyped
        <4>2. /\ Chat!Granted(state, turn[t].gate) \in RunStates
              /\ Chat!Granted(state, turn[t].gate).passed = state.passed \cup {turn[t].gate}
          BY <3>1, <4>1, ChatGrantedTyped DEF Chat!Granted, Chat!GateMatches, RunStates
        <4>3. after.passed = state.passed \cup {turn[t].gate}
          BY <4>2 DEF Chat!Paused, Chat!Stepped, RunStates
        <4> QED BY <3>2, <3>3, <4>3 DEF ChatInv, ChatTyped
      <3>4. CASE turn[t].run # r
        BY <3>2, <3>4 DEF ChatInv, ChatTyped
      <3> QED BY <3>3, <3>4
    <2> QED BY <2>1, <2>2
  <1>2. ClientsInv /\ [Next]_vars => (client = "chat" => Chat!ApprovesAsRead)
    BY <1>1 DEF ClientsInv
  <1> QED BY <1>2, ClientsInvariance, PTL DEF ApprovedAsRead, Spec

\* A resolved task is resolved for good, in a suite of any length: its run has
\* completed, its code passes, nothing changes it any more (runner.py:141).
THEOREM ResolvedForGood == Spec => []ResolvedIsFinal
  <1>1. ClientsInv => ResolvedIsFinal
    BY DEF ClientsInv, EvalsInv, ResolvedIsFinal
  <1> QED BY <1>1, ClientsInvariance, PTL

\* A test round tests what the run has written so far on top of the untouched
\* skeleton, for any package, skeleton and sequence of writes, however many
\* rounds there were before and wherever they were killed
\* (graft_and_test.py:48-69); and so does the score, after a run without rounds
\* and after one whose last round ended with nothing written since (cli.py:85).
THEOREM GraftsStayFresh == Spec => []GraftsAreFresh
  <1>1. CommitInv => Benchmark!RoundIsFresh
    BY AllGrafted DEF CommitInv, IsFresh, Benchmark!RoundIsFresh
  <1>2. ClientsInv => GraftsAreFresh
    BY <1>1 DEF ClientsInv, CommitInv, GraftsAreFresh
  <1> QED BY <1>2, ClientsInvariance, PTL

=============================================================================
