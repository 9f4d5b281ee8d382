----------------------------- MODULE Supervisor -----------------------------
(***************************************************************************)
(* One run of the development manager (core/development_manager.py): the   *)
(* phase loop with its gates, clarification, escalation, overrides,        *)
(* rollback and resume, over the checkpoint store that outlives a crash.   *)
(*                                                                         *)
(* Every public operation holds the run's lock from entry to return, so    *)
(* each is one action here.  Inside an operation the durable writes have   *)
(* an order, and the process may die between two of them: CrashAmid is the *)
(* alternative of each action that stops after a proper prefix of its      *)
(* writes.  What the language model does is a choice of outcome.           *)
(***************************************************************************)
EXTENDS PhaseDAG, Integers

CONSTANTS
    Mode,             \* "secure", "gated" or "yolo"
    SecurePre,        \* phases whose mandatory gate fires before them
    SecurePost,       \* phases whose mandatory gate fires after them
    PhaseGates,       \* phases with a requested or configured post gate
    ContractPresent,  \* the input file has a marked contract block
    Units,            \* implementation dispatches before the completing one
    Tiers,            \* the sets of phases a complexity tier excludes
    MaxRetries,       \* self-heal retries per phase
    NoGate,           \* pending_gate = None
    Overrides,        \* which override actions clients send
    Faults,           \* "crash": between operations, "torn": inside one
    Editable          \* phases whose artifacts somebody may edit on disk

CLARIFICATION_MAX_ROUNDS == 1

Gates == {"pre", "post"} \X Phases
PreGate(p)  == <<"pre", p>>
PostGate(p) == <<"post", p>>

ASSUME SupervisorAssumption ==
    /\ {"intake", "proposal", "implementation"} \subseteq Phases
    /\ Mode \in {"secure", "gated", "yolo"}
    /\ SecurePre \subseteq Phases
    /\ SecurePost \subseteq Phases
    /\ PhaseGates \subseteq Phases
    /\ ContractPresent \in BOOLEAN
    /\ Units \in Nat
    /\ Tiers \subseteq SUBSET Phases
    /\ MaxRetries \in Nat
    /\ NoGate \notin Gates
    /\ Overrides \subseteq {"stop", "rollback", "force-advance"}
    /\ Faults \subseteq {"crash", "torn"}
    /\ Editable \subseteq Phases

VARIABLES
    status,    \* ctx.status, or "down" while no process holds the run
    mem,       \* the rest of the _RunContext
    disk,      \* the run's RunState in .anvil/run-state.json
    failures,  \* RetryController: recorded failures of each phase
    dirty,     \* completed phases whose artifacts no longer match checksums
    contract   \* parity of the runtime's writes into the contract block

vars == <<status, mem, disk, failures, dirty, contract>>

Statuses == {"down", "running", "awaiting_approval", "awaiting_clarification",
             "completed", "escalated", "stopped"}

RunState ==
    [pre         : SUBSET Phases,
     post        : SUBSET Phases,
     completed   : SUBSET Phases,
     approved    : SUBSET Gates,
     pendingGate : Gates \cup {NoGate},
     excluded    : SUBSET Phases,
     round       : 0 .. CLARIFICATION_MAX_ROUNDS,
     questions   : BOOLEAN,
     sealed      : BOOLEAN,
     units       : 0 .. Units]

\* A new _RunContext: no gates, nothing completed.
NewContext ==
    [pre |-> {}, post |-> {}, completed |-> {}, approved |-> {},
     pendingGate |-> NoGate, excluded |-> {}, round |-> 0,
     questions |-> FALSE, sealed |-> FALSE, units |-> 0]

NoFailures == [p \in Phases |-> 0]

\* _gate_maps: a yolo run has no gates, a secure run the mandatory ones too.
RunPreGates  == IF Mode = "secure" THEN SecurePre ELSE {}
RunPostGates ==
    CASE Mode = "yolo"        -> {}
      [] Mode = "gated" -> PhaseGates
      [] Mode = "secure"      -> SecurePost \cup PhaseGates

-----------------------------------------------------------------------------
Done(s) == s.completed \cup s.excluded

GateSatisfied(s, gate) == Mode = "yolo" \/ gate \in s.approved

\* _clarification_mode = "assumptions"
Assuming(s) == Mode = "yolo" \/ s.round >= CLARIFICATION_MAX_ROUNDS

LoseProcess ==
    /\ status' = "down"
    /\ mem' = NewContext
    /\ failures' = NoFailures

\* The process dies in the middle of an operation, leaving one of torn behind.
CrashAmid(torn) ==
    /\ "torn" \in Faults
    /\ disk' \in torn
    /\ LoseProcess

\* Only completed phases have checksums to fail.
ForgetChecksums == dirty' = dirty \cap disk'.completed

\* submit_clarification and the intake agent append to the input file.
AmendContract == contract' = 1 - contract

-----------------------------------------------------------------------------
(***************************************************************************)
(* start_run.  A process lost inside it never returned the run's id, so    *)
(* nobody can resume that run: the run begins when start_run has returned. *)
(***************************************************************************)
Init ==
    /\ status = "running"
    /\ mem = [NewContext EXCEPT !.pre = RunPreGates, !.post = RunPostGates]
    /\ disk = mem
    /\ failures = NoFailures
    /\ dirty = {}
    /\ contract = 0

(***************************************************************************)
(* step(): one phase, or one unit of the implementation phase.             *)
(***************************************************************************)
StepsTo(p) == status = "running" /\ IsNext(p, Done(mem))

\* Fault: any approval opens every gate.
GateDueBeforeAny(p) == p \in mem.pre /\ mem.approved = {}

\* Fault: the gate is due although it was passed.
GateDueBeforeAgain(p) == p \in mem.pre

GateDueBefore(p) == p \in mem.pre /\ ~GateSatisfied(mem, PreGate(p))

\* dispatch_phase's own readiness check: an excluded phase counts as done in
\* it as it does in step's choice of the next phase.
PrerequisitesMet(p) == p \in Ready(Done(mem))

Dispatches(p) == StepsTo(p) /\ ~GateDueBefore(p) /\ PrerequisitesMet(p)

\* Failure counts a dispatch may have reached when it succeeds at last.
RetriedWithinBudget(p) == {failures[p]} \cup (failures[p] .. MaxRetries)

PauseAtPreGate(p) ==
    /\ StepsTo(p)
    /\ GateDueBefore(p)
    /\ status' = "awaiting_approval"
    /\ mem' = [mem EXCEPT !.pendingGate = PreGate(p)]
    /\ disk' = [disk EXCEPT !.pendingGate = PreGate(p)]
    /\ UNCHANGED <<failures, dirty, contract>>

\* Fault: the pause is kept in memory only.
CheckPostGateUnsaved(p, m, d) ==
    /\ disk' = d
    /\ IF p \in m.post /\ ~GateSatisfied(m, PostGate(p))
       THEN status' = "awaiting_approval" /\ mem' = [m EXCEPT !.pendingGate = PostGate(p)]
       ELSE status' = "running" /\ mem' = m

\* The end of step(): the post gate of the phase just dispatched.
CheckPostGate(p, m, d) ==
    IF p \in m.post /\ ~GateSatisfied(m, PostGate(p))
    THEN /\ status' = "awaiting_approval"
         /\ mem' = [m EXCEPT !.pendingGate = PostGate(p)]
         /\ disk' = [d EXCEPT !.pendingGate = PostGate(p)]
    ELSE /\ status' = "running"
         /\ mem' = m
         /\ disk' = d

(***************************************************************************)
(* Every attempt failed and the budget is spent.  The counter is kept only *)
(* up to MaxRetries + 1: a phase above its budget escalates at the next    *)
(* failure whatever the count.                                             *)
(***************************************************************************)
PhaseEscalates(p) ==
    /\ Dispatches(p)
    /\ failures' = [failures EXCEPT ![p] = MaxRetries + 1]
    /\ status' = "escalated"
    /\ \/ UNCHANGED contract
       \/ p = "intake" /\ Assuming(mem) /\ AmendContract
    /\ UNCHANGED <<mem, disk, dirty>>

\* A successful dispatch that is not the phase's last (phase_complete = False).
UnitCompletes ==
    LET p == "implementation"
        m == [mem EXCEPT !.units = @ + 1]
        d == [disk EXCEPT !.units = m.units]
    IN  /\ Dispatches(p)
        /\ mem.units < Units
        /\ \/ /\ CheckPostGate(p, m, d)
              /\ \E n \in RetriedWithinBudget(p) :
                    failures' = [failures EXCEPT ![p] = n]
           \/ CrashAmid({d})
        /\ UNCHANGED <<dirty, contract>>

(***************************************************************************)
(* A phase other than intake completes: _record_success writes the         *)
(* completion, then drops the unit progress, then stores the tier.         *)
(***************************************************************************)
PhaseSucceeds(p, tier) ==
    LET m == [mem EXCEPT
                !.completed = @ \cup {p},
                !.units = IF p = "implementation" THEN 0 ELSE @,
                !.excluded = IF p = "proposal" THEN tier ELSE @]
        d1 == [disk EXCEPT !.completed = @ \cup {p}]
        d2 == IF p = "implementation" THEN [d1 EXCEPT !.units = 0] ELSE d1
        d3 == IF p = "proposal" THEN [d2 EXCEPT !.excluded = tier] ELSE d2
    IN  /\ p # "intake"
        /\ Dispatches(p)
        /\ p = "implementation" => mem.units = Units
        /\ \/ /\ CheckPostGate(p, m, d3)
              /\ failures' = [failures EXCEPT ![p] = 0]
           \/ CrashAmid({d1, d2, d3})
        /\ ForgetChecksums
        /\ UNCHANGED contract

\* Intake comes back with questions in the round that may ask: one pause.
IntakeAsks ==
    LET m == [mem EXCEPT !.completed = @ \cup {"intake"}, !.questions = TRUE]
        d1 == [disk EXCEPT !.completed = @ \cup {"intake"}]
        d2 == [d1 EXCEPT !.questions = TRUE]
    IN  /\ Dispatches("intake")
        /\ ~Assuming(mem)
        /\ \/ /\ status' = "awaiting_clarification"
              /\ mem' = m
              /\ disk' = d2
              /\ failures' = [failures EXCEPT !["intake"] = 0]
           \/ CrashAmid({d1})
        /\ ForgetChecksums
        /\ UNCHANGED contract

\* Fault: the seal is not saved.
SaveSealForgotten(d) == d

\* _seal_contract's write.
SaveSeal(d) == IF mem.sealed \/ ~ContractPresent THEN d ELSE [d EXCEPT !.sealed = TRUE]

\* Intake is final: the contract block, if there is one, is sealed.
IntakeSettles ==
    LET m == [mem EXCEPT !.completed = @ \cup {"intake"},
                         !.sealed = @ \/ ContractPresent]
        d1 == [disk EXCEPT !.completed = @ \cup {"intake"}]
        d2 == SaveSeal(d1)
    IN  /\ Dispatches("intake")
        /\ \/ /\ CheckPostGate("intake", m, d2)
              /\ failures' = [failures EXCEPT !["intake"] = 0]
           \/ CrashAmid({disk, d1, d2})
        /\ \/ UNCHANGED contract
           \/ Assuming(mem) /\ AmendContract    \* recorded assumptions
        /\ ForgetChecksums

RunCompletes ==
    /\ status = "running"
    /\ Ready(Done(mem)) = {}
    /\ status' = "completed"
    /\ UNCHANGED <<mem, disk, failures, dirty, contract>>

Step ==
    \/ \E p \in Phases : PauseAtPreGate(p) \/ PhaseEscalates(p)
    \/ \E p \in Phases, tier \in Tiers : PhaseSucceeds(p, tier)
    \/ UnitCompletes
    \/ IntakeAsks
    \/ IntakeSettles
    \/ RunCompletes

-----------------------------------------------------------------------------
(***************************************************************************)
(* What a client may ask for.  A denied approval changes nothing.          *)
(***************************************************************************)
Approve ==
    LET m == [mem EXCEPT !.approved = @ \cup {mem.pendingGate},
                         !.pendingGate = NoGate]
    IN  /\ status = "awaiting_approval"
        /\ mem.pendingGate # NoGate
        /\ status' = "running"
        /\ mem' = m
        /\ disk' = [disk EXCEPT !.approved = m.approved, !.pendingGate = NoGate]
        /\ UNCHANGED <<failures, dirty, contract>>

\* submit_clarification: append the answers, reopen intake, save the round.
Clarify ==
    LET m == [mem EXCEPT !.completed = @ \ {"intake"},
                         !.round = @ + 1,
                         !.questions = FALSE]
        d1 == [disk EXCEPT !.completed = @ \ {"intake"}]
        d2 == [d1 EXCEPT !.round = m.round, !.questions = FALSE]
    IN  /\ status = "awaiting_clarification"
        /\ ~mem.sealed
        /\ AmendContract
        /\ \/ /\ status' = "running"
              /\ mem' = m
              /\ disk' = d2
              /\ failures' = [failures EXCEPT !["intake"] = 0]
           \/ CrashAmid({disk, d1})
        /\ ForgetChecksums

\* apply_override("stop"): nothing is persisted.
Stop ==
    /\ "stop" \in Overrides
    /\ status # "down"
    /\ status' = "stopped"
    /\ UNCHANGED <<mem, disk, failures, dirty, contract>>

\* apply_override("force-advance"): passes a pending gate, if there is one.
ForceAdvance ==
    LET m == [mem EXCEPT !.approved = @ \cup {mem.pendingGate},
                         !.pendingGate = NoGate]
    IN  /\ "force-advance" \in Overrides
        /\ status # "down"
        /\ status' = "running"
        /\ IF mem.pendingGate = NoGate
           THEN UNCHANGED <<mem, disk>>
           ELSE /\ mem' = m
                /\ disk' = [disk EXCEPT !.approved = m.approved,
                                        !.pendingGate = NoGate]
        /\ UNCHANGED <<failures, dirty, contract>>

\* Fault: a rollback keeps the generated units.
UnitsLeftKept(gone) == mem.units

\* A phase that is rolled back restarts from artifact zero.
UnitsLeft(gone) == IF "implementation" \in gone THEN 0 ELSE mem.units

\* Fault: a rollback drops the pending gate and forgets the questions.
AbandonPauseHalf(d) == [d EXCEPT !.pendingGate = NoGate]

\* Rolling back abandons any pause that was active at the old point.
AbandonPause(d) == [d EXCEPT !.pendingGate = NoGate, !.questions = FALSE]

\* apply_override("rollback"): rollback(), then the pause.
Rollback(target) ==
    LET gone == Affected(target)
        m == [mem EXCEPT !.completed = @ \ gone, !.units = UnitsLeft(gone),
                         !.pendingGate = NoGate, !.questions = FALSE]
        d1 == [disk EXCEPT !.completed = @ \ gone]
        d2 == IF m.units = mem.units THEN d1 ELSE [d1 EXCEPT !.units = m.units]
        d3 == AbandonPause(d2)
    IN  /\ "rollback" \in Overrides
        /\ status # "down"
        /\ \/ /\ status' = "running"
              /\ mem' = m
              /\ disk' = d3
              /\ failures' = [p \in Phases |-> IF p \in gone THEN 0 ELSE failures[p]]
           \/ CrashAmid({d1, d2})
        /\ ForgetChecksums
        /\ UNCHANGED contract

-----------------------------------------------------------------------------
\* Fault: only the phase whose checksum fails is discarded.
InvalidatedAlone == {q \in dirty : \A r \in dirty : Rank[q] =< Rank[r]}

\* The phases resume_run discards: the earliest one found dirty and its
\* dependents.
Invalidated ==
    UNION {Affected(p) : p \in {q \in dirty : \A r \in dirty : Rank[q] =< Rank[r]}}

\* Fault: the clarification round is not read back.
RehydratedWithoutRound ==
    [mem EXCEPT !.pre = disk.pre, !.post = disk.post,
                !.approved = disk.approved,
                !.excluded = disk.excluded,
                !.sealed = disk.sealed,
                !.units = disk.units]

\* What resume_run reads back from the run's state.
Rehydrated ==
    [mem EXCEPT !.pre = disk.pre, !.post = disk.post,
                !.approved = disk.approved,
                !.excluded = disk.excluded,
                !.round = disk.round,
                !.sealed = disk.sealed,
                !.units = disk.units]

(***************************************************************************)
(* resume_run, on a live run as well as after a restart: a context that    *)
(* exists is rehydrated in place and keeps its status unless a pause is    *)
(* restored.                                                               *)
(***************************************************************************)
Resume ==
    LET m == [Rehydrated EXCEPT !.completed = disk.completed \ Invalidated]
        atGate == disk.pendingGate # NoGate /\ ~GateSatisfied(m, disk.pendingGate)
        asking == ~atGate /\ disk.questions
    IN  /\ status' = CASE atGate -> "awaiting_approval"
                       [] asking -> "awaiting_clarification"
                       [] OTHER  -> IF status = "down" THEN "running" ELSE status
        /\ mem' = [m EXCEPT !.pendingGate = IF atGate THEN disk.pendingGate ELSE @,
                            !.questions = @ \/ asking]
        /\ disk' = [disk EXCEPT !.completed = @ \ Invalidated]
        /\ ForgetChecksums
        /\ UNCHANGED <<failures, contract>>

Restart == status = "down" /\ Resume

Crash ==
    /\ "crash" \in Faults
    /\ status # "down"
    /\ LoseProcess
    /\ UNCHANGED <<disk, dirty, contract>>

(***************************************************************************)
(* Somebody edits an artifact of a completed phase.  Intake has one only   *)
(* if it recorded assumptions: then it completed in assumption mode.       *)
(***************************************************************************)
EditArtifact(p) ==
    /\ p \in Editable \cap disk.completed
    /\ p = "intake" => Assuming(disk)
    /\ dirty' = dirty \cup {p}
    /\ UNCHANGED <<status, mem, disk, failures, contract>>

-----------------------------------------------------------------------------
Next ==
    \/ Step
    \/ Approve
    \/ Clarify
    \/ Stop
    \/ ForceAdvance
    \/ \E p \in Phases : Rollback(p) \/ EditArtifact(p)
    \/ Resume
    \/ Crash

(***************************************************************************)
(* A client drives the run (it calls /advance, or the endpoint that        *)
(* created or resumed the run loops in run_until_pause), a person answers  *)
(* a pause, and a lost run is resumed.                                     *)
(***************************************************************************)
Fairness ==
    /\ WF_vars(Step)
    /\ WF_vars(Approve)
    /\ WF_vars(Clarify)
    /\ WF_vars(Restart)

Spec == Init /\ [][Next]_vars
FairSpec == Spec /\ Fairness

-----------------------------------------------------------------------------
(***************************************************************************)
(* Properties.                                                             *)
(***************************************************************************)

\* Every variable has its type.
TypeOK ==
    /\ status \in Statuses
    /\ mem \in RunState
    /\ disk \in RunState
    /\ failures \in [Phases -> 0 .. MaxRetries + 1]
    /\ dirty \subseteq disk.completed
    /\ contract \in {0, 1}

(***************************************************************************)
(* While a process holds the run, what a restart would rehydrate is what   *)
(* the process knows: whichever operation ran last has saved every field   *)
(* it changed (_record_success, _pause_for_gate, _seal_contract, ...).     *)
(***************************************************************************)
MemDurable ==
    status # "down" =>
        \A f \in DOMAIN mem \ {"questions"} : mem[f] = disk[f]

(***************************************************************************)
(* A phase behind a pre-phase gate has not completed unless that gate was  *)
(* approved (or forced), whatever was rolled back, edited or lost.         *)
(***************************************************************************)
PreGateEnforced ==
    \A p \in RunPreGates : p \in disk.completed => PreGate(p) \in disk.approved

(***************************************************************************)
(* A phase with a post gate has completed only if its gate was passed, or  *)
(* a restart would still stop at it.  (Intake's gate waits for a pending   *)
(* clarification.)                                                         *)
(***************************************************************************)
PostGateEnforced ==
    \A p \in RunPostGates \cap disk.completed :
        \/ PostGate(p) \in disk.approved
        \/ PostGate(p) = disk.pendingGate
        \/ p = "intake" /\ disk.questions

(***************************************************************************)
(* What is completed is closed upstream: everything a completed phase      *)
(* depends on is completed or excluded (FR-SV-006), after every rollback,  *)
(* invalidation, clarification and crash.                                  *)
(***************************************************************************)
CompletedInOrder ==
    \A u \in Phases : \A p \in disk.completed \cap Downstream[u] :
        u \in Done(disk)

\* An active pause survives a restart: it is on disk from the moment the
\* run pauses, and not yet satisfied there.
ActivePauseSaved ==
    /\ status = "awaiting_approval" =>
           disk.pendingGate # NoGate /\ ~GateSatisfied(disk, disk.pendingGate)
    /\ status = "awaiting_clarification" => disk.questions

\* Only an active pause survives: a run that works, has finished or has
\* escalated leaves none for resume_run to restore.  (A stopped run may keep
\* the pause it was stopped at.)
EndedPauseForgotten ==
    status \in {"running", "completed", "escalated"} =>
        disk.pendingGate = NoGate /\ ~disk.questions

\* Questions are outstanding only in the one round that may ask (FR-INT-009),
\* even when the process dies while it records the answers.
AsksOnlyInFirstRound ==
    disk.questions => Mode # "yolo" /\ disk.round = 0

\* A run waiting for answers accepts them: submit_clarification rejects
\* every answer once the contract is sealed.
AnswerableWhenAsked == status = "awaiting_clarification" => ~mem.sealed

\* No phase after intake has completed on a contract that is still open.
SealedBeforeWork ==
    ContractPresent /\ disk.completed \ {"intake"} # {} => disk.sealed

\* Generated units are kept only while the implementation phase is the one
\* to run: a phase that was sent back starts from artifact zero.
UnitsOnCurrentInputs ==
    status # "down" /\ mem.units > 0 => IsNext("implementation", Done(mem))

\* A yolo run never waits for a person (FR-OM-002, FR-INT-010).
YoloNeverPauses ==
    Mode = "yolo" =>
        /\ status \notin {"awaiting_approval", "awaiting_clarification"}
        /\ disk.pendingGate = NoGate /\ ~disk.questions

\* A run whose process stays up and whose pauses are answered ends.
RunSettles ==
    <>[](status # "down") => <>(status \in {"completed", "escalated"})

\* A post gate is raised for a finished phase, not for one of its units.
GateAwaitsCompletion ==
    status = "awaiting_approval" =>
        \A p \in Phases : mem.pendingGate = PostGate(p) => p \in mem.completed

\* Whenever a phase with a post gate completes, the run stops at the gate.
GatedPhaseBlocks ==
    [][\A p \in RunPostGates :
          p \in mem'.completed \ mem.completed =>
              status' = "awaiting_approval"]_vars

\* Once the contract is sealed the runtime writes nothing more into it.
SealedContractImmutable == [][disk.sealed => UNCHANGED contract]_vars

\* A run that says it is completed has nothing left to run.
CompletedMeansDone == status = "completed" => Ready(Done(mem)) = {}

=============================================================================
