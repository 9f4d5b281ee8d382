-------------------------- MODULE SupervisorProofs --------------------------
(***************************************************************************)
(* Theorems about one run, for every phase graph, mode, tier, gate set,    *)
(* retry budget and mix of faults and overrides the constants allow.       *)
(***************************************************************************)
EXTENDS Supervisor, TLAPS

(***************************************************************************)
(* The inductive invariant.  It speaks of the run's durable state by       *)
(* itself, because an operation may be cut after any of its writes, and of *)
(* how the context in memory agrees with it between operations.            *)
(***************************************************************************)
DurableOK(d) ==
    /\ d \in RunState
    /\ d.pre = RunPreGates
    /\ d.pendingGate # NoGate => ~GateSatisfied(d, d.pendingGate)
    /\ d.questions => Mode # "yolo" /\ d.round = 0
    /\ \A p \in RunPreGates : p \in d.completed => PreGate(p) \in d.approved

Agree(m, d) ==
    /\ m.pre = d.pre
    /\ m.post = d.post
    /\ m.completed = d.completed
    /\ m.approved = d.approved
    /\ m.pendingGate = d.pendingGate
    /\ m.excluded = d.excluded
    /\ m.round = d.round
    /\ m.sealed = d.sealed
    /\ m.units = d.units

ContextOK ==
    /\ mem \in RunState
    /\ mem.questions => disk.round = 0
    /\ IF status = "down" THEN mem = NewContext ELSE Agree(mem, disk)

PauseOK ==
    /\ status = "awaiting_approval" => disk.pendingGate # NoGate
    /\ status = "awaiting_clarification" => disk.questions /\ mem.questions

RestOK ==
    /\ status \in Statuses
    /\ failures \in [Phases -> 0 .. MaxRetries + 1]
    /\ dirty \subseteq disk.completed
    /\ contract \in {0, 1}

IInv == DurableOK(disk) /\ ContextOK /\ PauseOK /\ RestOK

-----------------------------------------------------------------------------
\* A fresh context is well formed.
LEMMA NewContextType == NewContext \in RunState
  BY SupervisorAssumption DEF NewContext, RunState, CLARIFICATION_MAX_ROUNDS

\* The gates a run starts with are gates of phases.
LEMMA GatesType ==
    /\ RunPreGates \in SUBSET Phases
    /\ RunPostGates \in SUBSET Phases
    /\ \A p \in Phases : PreGate(p) \in Gates /\ PostGate(p) \in Gates
  BY SupervisorAssumption DEF RunPreGates, RunPostGates, Gates, PreGate, PostGate

\* No failures are within the retry budget.
LEMMA NoFailuresType == NoFailures \in [Phases -> 0 .. MaxRetries + 1]
  BY SupervisorAssumption DEF NoFailures

\* A crash leaves an invariant state if what is on disk is sound.
LEMMA LostProcess ==
    ASSUME IInv, LoseProcess, DurableOK(disk'), ForgetChecksums,
           contract' \in {0, 1}
    PROVE  IInv'
  BY NewContextType, NoFailuresType
  DEF IInv, LoseProcess, ForgetChecksums, DurableOK, ContextOK, PauseOK, RestOK,
      Statuses, NewContext

\* A run just started satisfies the invariant.
LEMMA InitIInv == Init => IInv
  <1> SUFFICES ASSUME Init PROVE IInv
    OBVIOUS
  <1>1. mem \in RunState
    BY NewContextType, GatesType DEF Init, RunState
  <1>2. DurableOK(disk) /\ ContextOK
    BY <1>1, NewContextType, GatesType
    DEF Init, DurableOK, ContextOK, Agree, NewContext, RunState
  <1>3. PauseOK /\ RestOK
    BY <1>1, NoFailuresType DEF Init, PauseOK, RestOK, Statuses
  <1> QED BY <1>2, <1>3 DEF IInv

\* An approval passes the pending gate in memory and on disk alike.
LEMMA ApproveIInv == IInv /\ Approve => IInv'
  <1> SUFFICES ASSUME IInv, Approve PROVE IInv'
    OBVIOUS
  <1>1. DurableOK(disk')
    BY DEF IInv, Approve, DurableOK, GateSatisfied, RunState, ContextOK, Agree
  <1>2. ContextOK'
    BY DEF IInv, Approve, DurableOK, RunState, ContextOK, Agree
  <1> QED BY <1>1, <1>2 DEF IInv, Approve, PauseOK, RestOK, Statuses, RunState, DurableOK

\* Force-advance passes the pending gate in memory and on disk alike.
LEMMA ForceAdvanceIInv == IInv /\ ForceAdvance => IInv'
  <1> SUFFICES ASSUME IInv, ForceAdvance PROVE IInv'
    OBVIOUS
  <1>1. CASE mem.pendingGate = NoGate
    BY <1>1
    DEF IInv, ForceAdvance, DurableOK, GateSatisfied, ContextOK, Agree, PauseOK, RestOK,
        Statuses
  <1>2. CASE mem.pendingGate # NoGate
    <2> DEFINE approved == mem.approved \cup {mem.pendingGate}
    <2>1. /\ mem' = [mem EXCEPT !.approved = approved, !.pendingGate = NoGate]
          /\ disk' = [disk EXCEPT !.approved = approved, !.pendingGate = NoGate]
          /\ status # "down" /\ status' = "running"
      BY <1>2 DEF IInv, ForceAdvance, ContextOK, RunState
    <2>2. DurableOK(disk')
      BY <1>2, <2>1 DEF IInv, DurableOK, GateSatisfied, RunState, ContextOK, Agree
    <2>3. ContextOK'
      BY <1>2, <2>1 DEF IInv, DurableOK, RunState, ContextOK, Agree
    <2> QED
      BY <1>2, <2>1, <2>2, <2>3
      DEF IInv, ForceAdvance, PauseOK, RestOK, Statuses, RunState, DurableOK
  <1> QED BY <1>1, <1>2

\* A stop changes the status only.
LEMMA StopIInv == IInv /\ Stop => IInv'
  BY DEF IInv, Stop, DurableOK, GateSatisfied, ContextOK, Agree, PauseOK, RestOK, Statuses

\* An edited artifact invalidates a checksum, not the run state.
LEMMA EditArtifactIInv == \A p \in Phases : IInv /\ EditArtifact(p) => IInv'
  BY DEF IInv, EditArtifact, DurableOK, GateSatisfied, ContextOK, Agree, PauseOK, RestOK

\* Completing the run changes the status only.
LEMMA RunCompletesIInv == IInv /\ RunCompletes => IInv'
  BY DEF IInv, RunCompletes, DurableOK, GateSatisfied, ContextOK, Agree, PauseOK, RestOK,
         Statuses

\* A crash between operations leaves an invariant state.
LEMMA CrashIInv == IInv /\ Crash => IInv'
  <1> SUFFICES ASSUME IInv, Crash PROVE IInv'
    OBVIOUS
  <1> QED
    BY LostProcess DEF Crash, IInv, RestOK, ForgetChecksums, DurableOK, GateSatisfied

\* Pausing at a pre-gate saves the pause.
LEMMA PauseAtPreGateIInv == \A p \in Phases : IInv /\ PauseAtPreGate(p) => IInv'
  <1> SUFFICES ASSUME NEW p \in Phases, IInv, PauseAtPreGate(p) PROVE IInv'
    OBVIOUS
  <1>1. DurableOK(disk')
    BY GatesType
    DEF IInv, PauseAtPreGate, StepsTo, GateDueBefore, DurableOK, GateSatisfied, RunState,
        ContextOK, Agree
  <1>2. ContextOK'
    BY GatesType
    DEF IInv, PauseAtPreGate, StepsTo, DurableOK, RunState, ContextOK, Agree
  <1> QED
    BY <1>1, <1>2, GatesType, SupervisorAssumption
    DEF IInv, PauseAtPreGate, PauseOK, RestOK, Statuses, RunState, DurableOK

\* An escalation changes the status and the failure count only.
LEMMA PhaseEscalatesIInv == \A p \in Phases : IInv /\ PhaseEscalates(p) => IInv'
  BY SupervisorAssumption
  DEF IInv, PhaseEscalates, Dispatches, StepsTo, AmendContract, DurableOK, GateSatisfied,
      ContextOK, Agree, PauseOK, RestOK, Statuses
\* The end of step(): whatever (m, d) the dispatch left, sound and agreeing.
LEMMA CheckPostGateIInv ==
    ASSUME IInv, NEW p \in Phases, NEW m \in RunState, NEW d,
           CheckPostGate(p, m, d), DurableOK(d), Agree(m, d),
           m.questions => d.round = 0,
           ForgetChecksums,
           failures' \in [Phases -> 0 .. MaxRetries + 1],
           contract' \in {0, 1}
    PROVE  IInv'
  <1>1. CASE p \in m.post /\ ~GateSatisfied(m, PostGate(p))
    <2>1. DurableOK(disk') /\ disk'.pendingGate # NoGate
      BY <1>1, GatesType, SupervisorAssumption
      DEF CheckPostGate, DurableOK, GateSatisfied, RunState, Agree
    <2>2. mem' \in RunState /\ Agree(mem', disk') /\ (mem'.questions => disk'.round = 0)
      BY <1>1, GatesType DEF CheckPostGate, DurableOK, RunState, Agree
    <2> QED
      BY <1>1, <2>1, <2>2
      DEF IInv, CheckPostGate, ContextOK, PauseOK, RestOK, Statuses, ForgetChecksums
  <1>2. CASE ~(p \in m.post /\ ~GateSatisfied(m, PostGate(p)))
    BY <1>2
    DEF IInv, CheckPostGate, ContextOK, PauseOK, RestOK, Statuses, ForgetChecksums
  <1> QED BY <1>1, <1>2

\* Only a phase whose pre-gate is passed is dispatched.
LEMMA DispatchOK ==
    ASSUME IInv, NEW p \in Phases, Dispatches(p)
    PROVE  /\ status = "running"
           /\ Agree(mem, disk)
           /\ p \in RunPreGates => PreGate(p) \in disk.approved
  BY DEF IInv, Dispatches, StepsTo, GateDueBefore, GateSatisfied, ContextOK, Agree,
         DurableOK, RunPreGates

\* A completion may be recorded for the phase being dispatched.
LEMMA CompletionOK ==
    ASSUME IInv, NEW p \in Phases, Dispatches(p)
    PROVE  DurableOK([disk EXCEPT !.completed = @ \cup {p}])
  BY DispatchOK DEF IInv, DurableOK, RunState, GateSatisfied

\* Writes that cannot disturb the durable state.
LEMMA UnitsWriteOK ==
    ASSUME NEW d, DurableOK(d), NEW n \in 0 .. Units
    PROVE  DurableOK([d EXCEPT !.units = n])
  BY DEF DurableOK, RunState, GateSatisfied

\* Writing the phases a tier leaves out keeps the file well formed.
LEMMA TierWriteOK ==
    ASSUME NEW d, DurableOK(d), NEW tier \in Tiers
    PROVE  DurableOK([d EXCEPT !.excluded = tier])
  BY SupervisorAssumption DEF DurableOK, RunState, GateSatisfied

\* A completed unit is recorded in memory and on disk alike.
LEMMA UnitCompletesIInv == IInv /\ UnitCompletes => IInv'
  <1> SUFFICES ASSUME IInv, UnitCompletes PROVE IInv'
    OBVIOUS
  <1> DEFINE p == "implementation"
             m == [mem EXCEPT !.units = @ + 1]
             d == [disk EXCEPT !.units = m.units]
  <1>1. p \in Phases /\ Dispatches(p) /\ mem.units < Units
    BY SupervisorAssumption DEF UnitCompletes
  <1>2. m \in RunState /\ DurableOK(d) /\ Agree(m, d) /\ (m.questions => d.round = 0)
    BY <1>1, DispatchOK, SupervisorAssumption
    DEF IInv, DurableOK, ContextOK, Agree, RunState, GateSatisfied
  <1>3. CASE /\ CheckPostGate(p, m, d)
             /\ \E n \in RetriedWithinBudget(p) : failures' = [failures EXCEPT ![p] = n]
    <2>1. failures' \in [Phases -> 0 .. MaxRetries + 1]
      BY <1>1, <1>3, SupervisorAssumption DEF IInv, RestOK, RetriedWithinBudget
    <2>2. disk'.completed = disk.completed
      BY <1>2, <1>3 DEF CheckPostGate, DurableOK, RunState, IInv
    <2>3. ForgetChecksums /\ contract' \in {0, 1}
      BY <2>2 DEF UnitCompletes, ForgetChecksums, IInv, RestOK
    <2> QED
      BY <1>1, <1>2, <1>3, <2>1, <2>3, CheckPostGateIInv
  <1>4. CASE CrashAmid({d})
    <2>1. disk' = d /\ LoseProcess
      BY <1>4 DEF CrashAmid
    <2>2. ForgetChecksums /\ contract' \in {0, 1}
      BY <2>1 DEF UnitCompletes, ForgetChecksums, IInv, RestOK, DurableOK, RunState
    <2> QED
      BY <1>2, <2>1, <2>2, LostProcess
  <1> QED BY <1>3, <1>4 DEF UnitCompletes

\* Wherever a crash cuts it, completing a phase leaves a sound disk.
LEMMA PhaseSucceedsIInv ==
    \A p \in Phases, tier \in Tiers : IInv /\ PhaseSucceeds(p, tier) => IInv'
  <1> SUFFICES ASSUME NEW p \in Phases, NEW tier \in Tiers, IInv, PhaseSucceeds(p, tier)
               PROVE  IInv'
    OBVIOUS
  <1> DEFINE m == [mem EXCEPT
                     !.completed = @ \cup {p},
                     !.units = IF p = "implementation" THEN 0 ELSE @,
                     !.excluded = IF p = "proposal" THEN tier ELSE @]
             d1 == [disk EXCEPT !.completed = @ \cup {p}]
             d2 == IF p = "implementation" THEN [d1 EXCEPT !.units = 0] ELSE d1
             d3 == IF p = "proposal" THEN [d2 EXCEPT !.excluded = tier] ELSE d2
  <1>1. Dispatches(p)
    BY DEF PhaseSucceeds
  <1>2. DurableOK(d1) /\ disk.completed \subseteq d1.completed
    BY <1>1, CompletionOK DEF IInv, DurableOK, RunState
  <1>3. DurableOK(d2)
    <2> HIDE DEF d1
    <2>1. 0 \in 0 .. Units
      BY SupervisorAssumption
    <2>2. DurableOK([d1 EXCEPT !.units = 0])
      BY <1>2, <2>1, UnitsWriteOK
    <2> QED BY <1>2, <2>2
  <1>4. DurableOK(d3)
    <2> HIDE DEF d2
    <2>1. DurableOK([d2 EXCEPT !.excluded = tier])
      BY <1>3, TierWriteOK
    <2> QED BY <1>3, <2>1
  <1>5. m \in RunState
    <2>1. 0 \in 0 .. Units /\ tier \in SUBSET Phases /\ mem \in RunState
      BY SupervisorAssumption DEF IInv, ContextOK
    <2>2. CASE p = "implementation"
      BY <2>1, <2>2 DEF RunState
    <2>3. CASE p = "proposal"
      BY <2>1, <2>3 DEF RunState
    <2>4. CASE p # "implementation" /\ p # "proposal"
      BY <2>1, <2>4 DEF RunState
    <2> QED BY <2>2, <2>3, <2>4
  <1>6. Agree(m, d3) /\ (m.questions => d3.round = 0)
    <2>1. mem \in RunState /\ disk \in RunState /\ Agree(mem, disk)
          /\ (mem.questions => disk.round = 0)
      BY <1>1, DispatchOK DEF IInv, ContextOK, DurableOK
    <2>2. CASE p = "implementation"
      BY <2>1, <2>2 DEF Agree, RunState
    <2>3. CASE p = "proposal"
      BY <2>1, <2>3 DEF Agree, RunState
    <2>4. CASE p # "implementation" /\ p # "proposal"
      BY <2>1, <2>4 DEF Agree, RunState
    <2> QED BY <2>2, <2>3, <2>4
  <1>7. contract' \in {0, 1}
    BY DEF PhaseSucceeds, IInv, RestOK
  <1>8. CASE CheckPostGate(p, m, d3) /\ failures' = [failures EXCEPT ![p] = 0]
    <2>1. ForgetChecksums /\ failures' \in [Phases -> 0 .. MaxRetries + 1]
      BY <1>8, SupervisorAssumption DEF PhaseSucceeds, IInv, RestOK
    <2> HIDE DEF m, d3
    <2> QED BY <1>4, <1>5, <1>6, <1>7, <1>8, <2>1, CheckPostGateIInv
  <1>9. CASE CrashAmid({d1, d2, d3})
    BY <1>2, <1>3, <1>4, <1>7, <1>9, LostProcess DEF CrashAmid, PhaseSucceeds
  <1> QED BY <1>8, <1>9 DEF PhaseSucceeds

\* A pause for clarification is saved with its questions.
LEMMA IntakeAsksIInv == IInv /\ IntakeAsks => IInv'
  <1> SUFFICES ASSUME IInv, IntakeAsks PROVE IInv'
    OBVIOUS
  <1> DEFINE m == [mem EXCEPT !.completed = @ \cup {"intake"}, !.questions = TRUE]
             d1 == [disk EXCEPT !.completed = @ \cup {"intake"}]
             d2 == [d1 EXCEPT !.questions = TRUE]
  <1>1. "intake" \in Phases /\ Dispatches("intake") /\ ~Assuming(mem)
    BY SupervisorAssumption DEF IntakeAsks
  <1>2. DurableOK(d1)
    BY <1>1, CompletionOK
  <1>3. Agree(mem, disk) /\ Mode # "yolo" /\ disk.round = 0
    BY <1>1, DispatchOK
    DEF Assuming, Agree, IInv, DurableOK, RunState, CLARIFICATION_MAX_ROUNDS
  <1>4. DurableOK(d2) /\ d2.questions /\ d2.round = 0
    BY <1>2, <1>3 DEF DurableOK, RunState, GateSatisfied, IInv
  <1>5. m \in RunState /\ Agree(m, d2) /\ m.questions
    BY <1>1, <1>3 DEF IInv, ContextOK, DurableOK, Agree, RunState
  <1>6. contract' \in {0, 1}
    BY DEF IntakeAsks, IInv, RestOK
  <1>7. CASE /\ status' = "awaiting_clarification"
             /\ mem' = m
             /\ disk' = d2
             /\ failures' = [failures EXCEPT !["intake"] = 0]
    <2>1. RestOK'
      BY <1>1, <1>6, <1>7, SupervisorAssumption
      DEF IntakeAsks, IInv, RestOK, Statuses, ForgetChecksums
    <2> QED
      BY <1>4, <1>5, <1>7, <2>1 DEF IInv, ContextOK, PauseOK
  <1>8. CASE CrashAmid({d1})
    BY <1>2, <1>6, <1>8, LostProcess DEF CrashAmid, IntakeAsks
  <1> QED BY <1>7, <1>8 DEF IntakeAsks

\* Sealing the contract is saved, or lost with the process.
LEMMA IntakeSettlesIInv == IInv /\ IntakeSettles => IInv'
  <1> SUFFICES ASSUME IInv, IntakeSettles PROVE IInv'
    OBVIOUS
  <1> DEFINE m == [mem EXCEPT !.completed = @ \cup {"intake"},
                              !.sealed = @ \/ ContractPresent]
             d1 == [disk EXCEPT !.completed = @ \cup {"intake"}]
             d2 == SaveSeal(d1)
  <1>1. "intake" \in Phases /\ Dispatches("intake")
    BY SupervisorAssumption DEF IntakeSettles
  <1>2. DurableOK(d1)
    BY <1>1, CompletionOK
  <1>3. Agree(mem, disk) /\ (mem.questions => disk.round = 0)
    BY <1>1, DispatchOK DEF IInv, ContextOK
  <1>4. DurableOK(d2)
    BY <1>2 DEF SaveSeal, DurableOK, RunState, GateSatisfied
  <1>5. m \in RunState
    BY <1>1, SupervisorAssumption DEF IInv, ContextOK, RunState
  <1>6. Agree(m, d2) /\ (m.questions => d2.round = 0)
    BY <1>3, SupervisorAssumption
    DEF SaveSeal, IInv, ContextOK, DurableOK, Agree, RunState
  <1>7. contract' \in {0, 1} /\ ForgetChecksums
    BY DEF IntakeSettles, AmendContract, IInv, RestOK
  <1>8. CASE /\ CheckPostGate("intake", m, d2)
             /\ failures' = [failures EXCEPT !["intake"] = 0]
    <2>1. failures' \in [Phases -> 0 .. MaxRetries + 1]
      BY <1>1, <1>8, SupervisorAssumption DEF IInv, RestOK
    <2> HIDE DEF m, d2
    <2> QED BY <1>1, <1>4, <1>5, <1>6, <1>7, <1>8, <2>1, CheckPostGateIInv
  <1>9. CASE CrashAmid({disk, d1, d2})
    <2>1. DurableOK(disk)
      BY DEF IInv
    <2>2. DurableOK(disk') /\ LoseProcess
      BY <1>2, <1>4, <1>9, <2>1 DEF CrashAmid
    <2> QED BY <1>7, <2>2, LostProcess
  <1> QED BY <1>8, <1>9 DEF IntakeSettles

\* Answers advance the round in memory and on disk alike.
LEMMA ClarifyIInv == IInv /\ Clarify => IInv'
  <1> SUFFICES ASSUME IInv, Clarify PROVE IInv'
    OBVIOUS
  <1> DEFINE m == [mem EXCEPT !.completed = @ \ {"intake"},
                              !.round = @ + 1,
                              !.questions = FALSE]
             d1 == [disk EXCEPT !.completed = @ \ {"intake"}]
             d2 == [d1 EXCEPT !.round = m.round, !.questions = FALSE]
  <1>1. Agree(mem, disk) /\ mem.round = 0 /\ disk.pendingGate = mem.pendingGate
    BY DEF Clarify, IInv, PauseOK, ContextOK, DurableOK, Agree
  <1>2. DurableOK(d1)
    BY DEF IInv, DurableOK, RunState, GateSatisfied
  <1>3. m \in RunState /\ m.round = 1 /\ ~m.questions
    <2>1. mem.round + 1 = 1 /\ 1 \in 0 .. CLARIFICATION_MAX_ROUNDS
      BY <1>1 DEF CLARIFICATION_MAX_ROUNDS
    <2> QED BY <2>1 DEF IInv, ContextOK, RunState
  <1>4. DurableOK(d2) /\ Agree(m, d2)
    <2>1. d2 = [d1 EXCEPT !.round = 1, !.questions = FALSE]
      BY <1>3
    <2>2. DurableOK(d2)
      <3>1. 1 \in 0 .. CLARIFICATION_MAX_ROUNDS
        BY DEF CLARIFICATION_MAX_ROUNDS
      <3> HIDE DEF d1, m
      <3> QED BY <1>2, <2>1, <3>1 DEF DurableOK, RunState, GateSatisfied
    <2>3. Agree(m, d2)
      BY <1>1, <1>3 DEF Agree, IInv, ContextOK, DurableOK, RunState
    <2> QED BY <2>2, <2>3
  <1>5. contract' \in {0, 1} /\ ForgetChecksums
    BY DEF Clarify, AmendContract, IInv, RestOK
  <1>6. CASE /\ status' = "running"
             /\ mem' = m
             /\ disk' = d2
             /\ failures' = [failures EXCEPT !["intake"] = 0]
    <2>1. RestOK'
      BY <1>5, <1>6, SupervisorAssumption DEF IInv, RestOK, Statuses, ForgetChecksums
    <2> QED
      BY <1>3, <1>4, <1>6, <2>1 DEF IInv, ContextOK, PauseOK
  <1>7. CASE CrashAmid({disk, d1})
    <2>1. DurableOK(disk') /\ LoseProcess
      BY <1>2, <1>7 DEF CrashAmid, IInv
    <2> QED BY <1>5, <2>1, LostProcess
  <1> QED BY <1>6, <1>7 DEF Clarify

\* A rollback invalidates the same phases in memory and on disk.
LEMMA RollbackIInv == \A target \in Phases : IInv /\ Rollback(target) => IInv'
  <1> SUFFICES ASSUME NEW target \in Phases, IInv, Rollback(target) PROVE IInv'
    OBVIOUS
  <1> DEFINE gone == Affected(target)
             m == [mem EXCEPT !.completed = @ \ gone, !.units = UnitsLeft(gone),
                              !.pendingGate = NoGate, !.questions = FALSE]
             d1 == [disk EXCEPT !.completed = @ \ gone]
             d2 == IF m.units = mem.units THEN d1 ELSE [d1 EXCEPT !.units = m.units]
             d3 == AbandonPause(d2)
  <1> HIDE DEF gone
  <1>1. Agree(mem, disk) /\ mem \in RunState /\ disk \in RunState
    BY DEF Rollback, IInv, ContextOK, DurableOK
  <1>2. UnitsLeft(gone) \in 0 .. Units
    BY <1>1, SupervisorAssumption DEF UnitsLeft, RunState
  <1>3. DurableOK(d1)
    BY DEF IInv, DurableOK, RunState, GateSatisfied
  <1>4. m \in RunState /\ m.units = UnitsLeft(gone) /\ ~m.questions
    BY <1>1, <1>2 DEF RunState
  <1>5. DurableOK(d2)
    <2> HIDE DEF d1, m
    <2>1. DurableOK([d1 EXCEPT !.units = m.units])
      BY <1>2, <1>3, <1>4, UnitsWriteOK
    <2> QED BY <1>3, <2>1
  <1>6. DurableOK(d3)
    <2> HIDE DEF d2
    <2> QED BY <1>5 DEF AbandonPause, DurableOK, RunState
  <1>7. Agree(m, d3)
    <2>1. d2 = [disk EXCEPT !.completed = @ \ gone, !.units = m.units]
      BY <1>1, <1>4 DEF Agree, RunState
    <2> QED
      BY <1>1, <1>2, <2>1 DEF Agree, RunState, AbandonPause
  <1>8. contract' \in {0, 1} /\ ForgetChecksums
    BY DEF Rollback, IInv, RestOK
  <1>9. CASE /\ status' = "running"
             /\ mem' = m
             /\ disk' = d3
             /\ failures' = [p \in Phases |-> IF p \in gone THEN 0 ELSE failures[p]]
    <2>1. RestOK'
      BY <1>8, <1>9, SupervisorAssumption DEF IInv, RestOK, Statuses, ForgetChecksums
    <2> HIDE DEF m, d3
    <2> QED
      BY <1>4, <1>6, <1>7, <1>9, <2>1 DEF IInv, ContextOK, PauseOK
  <1>10. CASE CrashAmid({d1, d2})
    <2>1. DurableOK(disk') /\ LoseProcess
      BY <1>3, <1>5, <1>10 DEF CrashAmid
    <2> QED BY <1>8, <2>1, LostProcess
  <1> QED BY <1>9, <1>10 DEF Rollback, gone

\* A resumed run agrees with its file, and is paused if the file is.
LEMMA ResumeIInv == IInv /\ Resume => IInv'
  <1> SUFFICES ASSUME IInv, Resume PROVE IInv'
    OBVIOUS
  <1> DEFINE bad == Invalidated
             m == [Rehydrated EXCEPT !.completed = disk.completed \ bad]
             atGate == disk.pendingGate # NoGate /\ ~GateSatisfied(m, disk.pendingGate)
             asking == ~atGate /\ disk.questions
  <1> HIDE DEF bad
  <1>1. mem \in RunState /\ disk \in RunState
    BY DEF IInv, ContextOK, DurableOK
  <1>2. atGate <=> disk.pendingGate # NoGate
    BY <1>1 DEF IInv, DurableOK, GateSatisfied, Rehydrated, RunState
  <1>3. DurableOK(disk') /\ disk' = [disk EXCEPT !.completed = @ \ bad]
    BY <1>1 DEF Resume, IInv, DurableOK, RunState, GateSatisfied, bad
  <1>4. mem' = [m EXCEPT !.pendingGate = IF atGate THEN disk.pendingGate ELSE @,
                         !.questions = @ \/ asking]
    BY DEF Resume, bad
  <1>5. ~atGate => mem.pendingGate = NoGate
    BY <1>2 DEF IInv, ContextOK, Agree, NewContext
  <1>6. mem' \in RunState
    <2>1. Rehydrated \in RunState
      BY <1>1 DEF Rehydrated, RunState
    <2>2. m \in RunState
      <3> HIDE DEF m
      <3> QED BY <1>1, <2>1 DEF m, RunState
    <2>3. mem' = [m EXCEPT !.pendingGate = mem'.pendingGate, !.questions = mem'.questions]
          /\ mem'.pendingGate \in Gates \cup {NoGate}
          /\ mem'.questions \in BOOLEAN
      <3> HIDE DEF m, atGate, asking
      <3> QED BY <1>1, <1>4, <2>2 DEF RunState
    <2> HIDE DEF m
    <2> QED BY <2>2, <2>3 DEF RunState
  <1>7. Agree(mem', disk')
    BY <1>1, <1>2, <1>3, <1>4, <1>5 DEF Rehydrated, RunState, Agree
  <1>8. mem'.questions => disk'.round = 0
    BY <1>1, <1>3, <1>4 DEF Rehydrated, RunState, IInv, ContextOK, DurableOK
  <1>9. /\ status' = CASE atGate -> "awaiting_approval"
                       [] asking -> "awaiting_clarification"
                       [] OTHER  -> IF status = "down" THEN "running" ELSE status
        /\ status' # "down"
    BY DEF Resume, bad, IInv, RestOK, Statuses
  <1>10. PauseOK'
    BY <1>1, <1>2, <1>3, <1>4, <1>9 DEF PauseOK, IInv, Rehydrated, RunState
  <1>11. RestOK'
    BY <1>9 DEF RestOK, IInv, Resume, ForgetChecksums, Statuses
  <1> QED BY <1>3, <1>6, <1>7, <1>8, <1>9, <1>10, <1>11 DEF IInv, ContextOK

\* Whatever a step does, it preserves the invariant.
LEMMA StepIInv == IInv /\ Step => IInv'
  BY PauseAtPreGateIInv, PhaseEscalatesIInv, PhaseSucceedsIInv, UnitCompletesIInv,
     IntakeAsksIInv, IntakeSettlesIInv, RunCompletesIInv
  DEF Step

\* The invariant depends on the variables alone.
LEMMA StutterIInv == IInv /\ UNCHANGED vars => IInv'
  BY DEF vars, IInv, DurableOK, GateSatisfied, ContextOK, Agree, PauseOK, RestOK

\* Every step preserves the invariant.
LEMMA NextIInv == IInv /\ [Next]_vars => IInv'
  BY StepIInv, ApproveIInv, ClarifyIInv, StopIInv, ForceAdvanceIInv, RollbackIInv,
     EditArtifactIInv, ResumeIInv, CrashIInv, StutterIInv
  DEF Next

\* The invariant holds of every reachable state.
THEOREM Invariance == Spec => []IInv
  <1> QED BY InitIInv, NextIInv, PTL DEF Spec

-----------------------------------------------------------------------------
(***************************************************************************)
(* The dependency graph.                                                   *)
(***************************************************************************)
\* What depends on a phase directly is downstream of it.
LEMMA DirectDependent ==
    ASSUME NEW p \in Phases, NEW q \in Phases, p \in Deps[q]
    PROVE  q \in Downstream[p]
  BY DEF Downstream, DownstreamOf, ClosedDownstream

\* So is what depends on something downstream of it.
LEMMA DownstreamStep ==
    ASSUME NEW p \in Phases, NEW q \in Downstream[p], NEW r \in Phases, q \in Deps[r]
    PROVE  r \in Downstream[p]
  BY DEF Downstream, DownstreamOf, ClosedDownstream

\* What is downstream of a phase are phases.
LEMMA DownstreamType == ASSUME NEW p \in Phases PROVE Downstream[p] \subseteq Phases
  BY DEF Downstream, DownstreamOf

\* Downstream of downstream is downstream.
LEMMA DownstreamTransitive ==
    ASSUME NEW p \in Phases, NEW q \in Downstream[p], NEW r \in Downstream[q]
    PROVE  r \in Downstream[p]
  <1>1. q \in Phases
    BY DownstreamType
  <1>2. ClosedDownstream(q, Downstream[p])
    BY DownstreamStep DEF ClosedDownstream
  <1>3. \A S \in SUBSET Phases : ClosedDownstream(q, S) => r \in S
    BY <1>1 DEF Downstream, DownstreamOf
  <1> QED BY <1>2, <1>3, DownstreamType

\* What is downstream of a phase comes after it in the canonical order.
LEMMA DownstreamRanks ==
    ASSUME NEW p \in Phases, NEW q \in Downstream[p]
    PROVE  Rank[p] < Rank[q]
  <1> DEFINE later == {r \in Phases : Rank[p] < Rank[r]}
  <1>1. ClosedDownstream(p, later)
    BY GraphAssumption, OrderAssumption DEF ClosedDownstream
  <1>2. \A S \in SUBSET Phases : ClosedDownstream(p, S) => q \in S
    BY DEF Downstream, DownstreamOf
  <1> QED BY <1>1, <1>2

\* A phase is downstream of another because one of its prerequisites is, or
\* is the other itself.
LEMMA DownstreamLast ==
    ASSUME NEW p \in Phases, NEW q \in Downstream[p]
    PROVE  p \in Deps[q] \/ \E d \in Deps[q] : d \in Downstream[p]
  <1> SUFFICES ASSUME p \notin Deps[q], Deps[q] \cap Downstream[p] = {} PROVE FALSE
    OBVIOUS
  <1> DEFINE rest == Downstream[p] \ {q}
  <1>1. ClosedDownstream(p, rest)
    BY DirectDependent, DownstreamStep, GraphAssumption DEF ClosedDownstream
  <1>2. rest \in SUBSET Phases
    BY DownstreamType
  <1>3. q \in rest
    BY <1>1, <1>2 DEF Downstream, DownstreamOf
  <1> QED BY <1>3

-----------------------------------------------------------------------------
(***************************************************************************)
(* What each operation does to the disk and the status.  An operation is   *)
(* one action but several writes: these lemmas say, field by field, what   *)
(* all the places that a crash may cut it at have in common.               *)
(***************************************************************************)
\* What no operation but the ones that say so changes on disk.
Untouched == UNCHANGED <<disk.pre, disk.post, disk.excluded, disk.round>>

\* An operation that writes nothing, and does not set the run going.
Quiet ==
    /\ disk' = disk
    /\ status' \in {status, "completed", "escalated", "stopped", "down"}
    /\ status' \in {"completed", "escalated"} => status \in {status', "running"}
    /\ \A p \in dirty' \ dirty : p \in Editable /\ (p = "intake" => Assuming(disk))

\* The pause, if any, that a successful dispatch of p ends with: the process
\* may have died before it.
PausesAfter(p) ==
    \/ /\ status' = "running"
       /\ ~(p \in disk.post /\ ~GateSatisfied(disk, PostGate(p)))
       /\ disk'.pendingGate = disk.pendingGate
    \/ status' = "awaiting_approval" /\ disk'.pendingGate = PostGate(p)
    \/ status' = "down" /\ disk'.pendingGate = disk.pendingGate /\ "torn" \in Faults

\* What the pause before a gated phase changes.
LEMMA PauseAtPreGateEffect ==
    ASSUME IInv, NEW p \in Phases, PauseAtPreGate(p)
    PROVE  /\ status = "running" /\ status' = "awaiting_approval"
           /\ disk'.pendingGate = PreGate(p)
           /\ Untouched
           /\ UNCHANGED <<disk.completed, disk.approved, disk.questions, disk.sealed,
                          disk.units, dirty>>
  BY DEF PauseAtPreGate, StepsTo, IInv, DurableOK, RunState, Untouched

\* What a dispatch leaves alone.
LEMMA DispatchEffect ==
    ASSUME IInv, NEW p \in Phases, Dispatches(p)
    PROVE  /\ status = "running"
           /\ IsNext(p, Done(disk))
           /\ p \in Ready(Done(disk))
           /\ Agree(mem, disk) /\ mem \in RunState /\ disk \in RunState
  BY DispatchOK
  DEF Dispatches, StepsTo, IsNext, Done, Agree, IInv, ContextOK, DurableOK

\* What the check of the gate after a phase changes.
LEMMA CheckPostGateEffect ==
    ASSUME NEW p \in Phases, NEW m \in RunState, NEW d \in RunState,
           CheckPostGate(p, m, d),
           m.post = disk.post, m.approved = disk.approved, d.pendingGate = disk.pendingGate
    PROVE  /\ PausesAfter(p)
           /\ \A f \in DOMAIN d \ {"pendingGate"} : disk'[f] = d[f]
  BY DEF CheckPostGate, PausesAfter, GateSatisfied, RunState

\* What the completion of a phase changes, in memory and in the file.
LEMMA PhaseSucceedsEffect ==
    ASSUME IInv, NEW p \in Phases, NEW tier \in Tiers, PhaseSucceeds(p, tier)
    PROVE  /\ p # "intake" /\ IsNext(p, Done(disk)) /\ status = "running"
           /\ disk'.completed = disk.completed \cup {p}
           /\ disk'.excluded = disk.excluded \/ (p = "proposal" /\ disk'.excluded = tier)
           /\ disk'.units = disk.units \/ (p = "implementation" /\ disk'.units = 0)
           /\ "torn" \notin Faults /\ p = "implementation" => disk'.units = 0
           /\ PausesAfter(p)
           /\ UNCHANGED <<disk.pre, disk.post, disk.round,
                          disk.approved, disk.questions, disk.sealed>>
           /\ dirty' = dirty \cap disk'.completed
  <1> DEFINE m == [mem EXCEPT
                     !.completed = @ \cup {p},
                     !.units = IF p = "implementation" THEN 0 ELSE @,
                     !.excluded = IF p = "proposal" THEN tier ELSE @]
             d1 == [disk EXCEPT !.completed = @ \cup {p}]
             d2 == IF p = "implementation" THEN [d1 EXCEPT !.units = 0] ELSE d1
             d3 == IF p = "proposal" THEN [d2 EXCEPT !.excluded = tier] ELSE d2
             Common(d) == /\ d \in RunState
                          /\ d.completed = disk.completed \cup {p}
                          /\ d.excluded = disk.excluded \/ (p = "proposal" /\ d.excluded = tier)
                          /\ d.units = disk.units \/ (p = "implementation" /\ d.units = 0)
                          /\ d.pre = disk.pre /\ d.post = disk.post /\ d.round = disk.round
                          /\ d.approved = disk.approved /\ d.questions = disk.questions
                          /\ d.sealed = disk.sealed /\ d.pendingGate = disk.pendingGate
  <1>1. Dispatches(p) /\ p # "intake" /\ dirty' = dirty \cap disk'.completed
    BY DEF PhaseSucceeds, ForgetChecksums
  <1>2. Common(d1)
    <2>1. disk \in RunState
      BY DEF IInv, DurableOK
    <2>2. /\ d1 \in RunState /\ d1.completed = disk.completed \cup {p}
          /\ d1.excluded = disk.excluded /\ d1.units = disk.units
          /\ d1.pre = disk.pre /\ d1.post = disk.post /\ d1.round = disk.round
          /\ d1.approved = disk.approved /\ d1.questions = disk.questions
          /\ d1.sealed = disk.sealed /\ d1.pendingGate = disk.pendingGate
      BY <2>1 DEF RunState
    <2> HIDE DEF d1
    <2> QED BY <2>2
  <1>3. Common(d2) /\ (p = "implementation" => d2.units = 0)
    <2> HIDE DEF d1
    <2> QED BY <1>2, SupervisorAssumption DEF RunState
  <1>4. Common(d3) /\ (p = "implementation" => d3.units = 0)
    <2> HIDE DEF d2
    <2> QED BY <1>3, SupervisorAssumption DEF RunState
  <1>5. m.post = disk.post /\ m.approved = disk.approved
    BY <1>1, DispatchEffect DEF Agree, RunState
  <1>6. m \in RunState
    <2>1. 0 \in 0 .. Units /\ tier \in SUBSET Phases /\ mem \in RunState
      BY <1>1, DispatchEffect, SupervisorAssumption
    <2>2. mem.units \in 0 .. Units /\ mem.excluded \in SUBSET Phases
      BY <2>1 DEF RunState
    <2> QED BY <2>1, <2>2 DEF RunState
  <1>7. CASE CheckPostGate(p, m, d3)
    <2> HIDE DEF m, d3
    <2>1. PausesAfter(p) /\ \A f \in DOMAIN d3 \ {"pendingGate"} : disk'[f] = d3[f]
      BY <1>4, <1>5, <1>6, <1>7, CheckPostGateEffect
    <2> QED BY <1>1, <1>4, <2>1, DispatchEffect DEF RunState
  <1>8. CASE CrashAmid({d1, d2, d3})
    <2> HIDE DEF d1, d2, d3
    <2>1. Common(disk') /\ status' = "down" /\ "torn" \in Faults
      BY <1>2, <1>3, <1>4, <1>8 DEF CrashAmid, LoseProcess
    <2> QED BY <1>1, <2>1, DispatchEffect DEF PausesAfter
  <1> QED BY <1>7, <1>8 DEF PhaseSucceeds

\* What one unit of the implementation phase changes.
LEMMA UnitCompletesEffect ==
    ASSUME IInv, UnitCompletes
    PROVE  /\ IsNext("implementation", Done(disk)) /\ status = "running"
           /\ PausesAfter("implementation")
           /\ Untouched
           /\ UNCHANGED <<disk.completed, disk.approved, disk.questions, disk.sealed, dirty>>
  <1> DEFINE p == "implementation"
             m == [mem EXCEPT !.units = @ + 1]
             d == [disk EXCEPT !.units = m.units]
  <1>1. p \in Phases /\ Dispatches(p) /\ mem.units < Units /\ dirty' = dirty
    BY SupervisorAssumption DEF UnitCompletes
  <1>2. /\ m \in RunState /\ d \in RunState /\ m.post = disk.post
        /\ m.approved = disk.approved /\ d.pendingGate = disk.pendingGate
        /\ \A f \in DOMAIN d \ {"units"} : d[f] = disk[f]
    BY <1>1, DispatchEffect, SupervisorAssumption DEF Agree, RunState
  <1>3. CASE CheckPostGate(p, m, d)
    <2> HIDE DEF m, d
    <2>1. PausesAfter(p) /\ \A f \in DOMAIN d \ {"pendingGate"} : disk'[f] = d[f]
      BY <1>1, <1>2, <1>3, CheckPostGateEffect
    <2> QED BY <1>1, <1>2, <2>1, DispatchEffect DEF RunState, Untouched
  <1>4. CASE CrashAmid({d})
    <2> HIDE DEF d
    <2> QED BY <1>1, <1>2, <1>4, DispatchEffect
            DEF CrashAmid, LoseProcess, RunState, Untouched, PausesAfter
  <1> QED BY <1>3, <1>4 DEF UnitCompletes

\* What a round of intake that asks changes.
LEMMA IntakeAsksEffect ==
    ASSUME IInv, IntakeAsks
    PROVE  /\ IsNext("intake", Done(disk)) /\ status = "running" /\ ~Assuming(disk)
           /\ disk'.completed = disk.completed \cup {"intake"}
           /\ \/ status' = "awaiting_clarification" /\ disk'.questions
              \/ /\ status' = "down" /\ "torn" \in Faults
                 /\ disk'.questions = disk.questions
           /\ Untouched
           /\ UNCHANGED <<disk.approved, disk.pendingGate, disk.sealed, disk.units>>
           /\ dirty' = dirty \cap disk'.completed
  <1>1. "intake" \in Phases /\ Dispatches("intake")
    BY SupervisorAssumption DEF IntakeAsks
  <1> QED
    BY <1>1, DispatchEffect
    DEF IntakeAsks, CrashAmid, LoseProcess, RunState, Untouched, Agree, Assuming,
        ForgetChecksums

\* What a round of intake that settles the contract changes.
LEMMA IntakeSettlesEffect ==
    ASSUME IInv, IntakeSettles
    PROVE  /\ IsNext("intake", Done(disk)) /\ status = "running"
           /\ \/ /\ disk'.completed = disk.completed \cup {"intake"}
                 /\ "torn" \notin Faults => disk'.sealed = (disk.sealed \/ ContractPresent)
                 /\ disk'.sealed => disk.sealed \/ ContractPresent
                 /\ PausesAfter("intake")
              \/ disk' = disk /\ status' = "down" /\ "torn" \in Faults
           /\ disk.sealed => disk'.sealed
           /\ Untouched
           /\ UNCHANGED <<disk.approved, disk.questions, disk.units>>
           /\ dirty' = dirty \cap disk'.completed
  <1> DEFINE m == [mem EXCEPT !.completed = @ \cup {"intake"},
                              !.sealed = @ \/ ContractPresent]
             d1 == [disk EXCEPT !.completed = @ \cup {"intake"}]
             d2 == SaveSeal(d1)
             Common(d) == /\ d \in RunState
                          /\ d.completed = disk.completed \cup {"intake"}
                          /\ d.sealed => disk.sealed \/ ContractPresent
                          /\ disk.sealed => d.sealed
                          /\ d.units = disk.units /\ d.excluded = disk.excluded
                          /\ d.pre = disk.pre /\ d.post = disk.post /\ d.round = disk.round
                          /\ d.approved = disk.approved /\ d.questions = disk.questions
                          /\ d.pendingGate = disk.pendingGate
  <1>1. "intake" \in Phases /\ Dispatches("intake") /\ dirty' = dirty \cap disk'.completed
    BY SupervisorAssumption DEF IntakeSettles, ForgetChecksums
  <1>2. Common(d1) /\ d1.sealed = disk.sealed
    BY <1>1, DispatchEffect DEF RunState
  <1>3. Common(d2) /\ d2.sealed = (disk.sealed \/ ContractPresent)
    <2>1. mem.sealed = disk.sealed /\ ContractPresent \in BOOLEAN /\ disk.sealed \in BOOLEAN
      BY <1>1, DispatchEffect, SupervisorAssumption DEF Agree, RunState
    <2> HIDE DEF d1
    <2>2. CASE mem.sealed \/ ~ContractPresent
      BY <1>2, <2>1, <2>2 DEF SaveSeal
    <2>3. CASE ~(mem.sealed \/ ~ContractPresent)
      BY <1>2, <2>1, <2>3 DEF SaveSeal, RunState
    <2> QED BY <2>2, <2>3
  <1>4. m \in RunState /\ m.post = disk.post /\ m.approved = disk.approved
    BY <1>1, DispatchEffect, SupervisorAssumption DEF Agree, RunState
  <1>5. CASE CheckPostGate("intake", m, d2)
    <2> HIDE DEF m, d2
    <2>1. PausesAfter("intake") /\ \A f \in DOMAIN d2 \ {"pendingGate"} : disk'[f] = d2[f]
      BY <1>1, <1>3, <1>4, <1>5, CheckPostGateEffect
    <2> QED BY <1>1, <1>3, <2>1, DispatchEffect DEF RunState, Untouched
  <1>6. CASE CrashAmid({disk, d1, d2})
    <2> HIDE DEF d1, d2
    <2>1. /\ disk' = disk \/ Common(disk')
          /\ status' = "down" /\ "torn" \in Faults
      BY <1>2, <1>3, <1>6 DEF CrashAmid, LoseProcess
    <2> QED BY <1>1, <2>1, DispatchEffect DEF PausesAfter, Untouched
  <1> QED BY <1>5, <1>6 DEF IntakeSettles

\* What an approval and a force-advance change: both pass the pending gate.
LEMMA PassesGateEffect ==
    ASSUME IInv, Approve \/ ForceAdvance
    PROVE  /\ status' = "running"
           /\ disk'.pendingGate = NoGate
           /\ disk'.approved = IF disk.pendingGate = NoGate THEN disk.approved
                               ELSE disk.approved \cup {disk.pendingGate}
           /\ Untouched
           /\ UNCHANGED <<disk.completed, disk.questions, disk.sealed, disk.units, dirty>>
           /\ Approve => status = "awaiting_approval" /\ disk.pendingGate # NoGate
           /\ ForceAdvance => "force-advance" \in Overrides
  <1>1. /\ status # "down" /\ Agree(mem, disk)
        /\ mem \in RunState /\ disk \in RunState
    BY DEF Approve, ForceAdvance, IInv, ContextOK, DurableOK
  <1>2. CASE Approve
    BY <1>1, <1>2 DEF Approve, Agree, RunState, Untouched, ForceAdvance
  <1>3. CASE ForceAdvance
    BY <1>1, <1>3 DEF ForceAdvance, Agree, RunState, Untouched, Approve
  <1> QED BY <1>2, <1>3

\* What answers change: intake is sent back with all it supports.
LEMMA ClarifyEffect ==
    ASSUME IInv, Clarify
    PROVE  /\ status = "awaiting_clarification" /\ disk.questions
           /\ \/ /\ status' = "running"
                 /\ disk'.completed = disk.completed \ {"intake"}
                 /\ disk'.round = disk.round + 1
                 /\ ~disk'.questions
              \/ /\ status' = "down" /\ "torn" \in Faults
                 /\ disk'.completed \in {disk.completed, disk.completed \ {"intake"}}
                 /\ disk'.round = disk.round
                 /\ disk'.questions
           /\ UNCHANGED <<disk.pre, disk.post, disk.excluded, disk.approved,
                          disk.pendingGate, disk.sealed, disk.units>>
           /\ dirty' = dirty \cap disk'.completed
  <1>1. /\ disk.questions /\ Agree(mem, disk) /\ mem.questions
        /\ mem \in RunState /\ disk \in RunState /\ status = "awaiting_clarification"
    BY DEF Clarify, IInv, PauseOK, ContextOK, DurableOK
  <1> QED
    BY <1>1 DEF Clarify, CrashAmid, LoseProcess, ForgetChecksums, Agree, RunState

\* What a rollback changes, whichever of its writes is the last.
LEMMA RollbackEffect ==
    ASSUME IInv, NEW target \in Phases, Rollback(target)
    PROVE  /\ "rollback" \in Overrides
           /\ disk'.completed = disk.completed \ Affected(target)
           /\ \/ disk'.units = UnitsLeft(Affected(target))
              \/ "torn" \in Faults /\ disk'.units = disk.units
           /\ UnitsLeft(Affected(target)) =
                  IF "implementation" \in Affected(target) THEN 0 ELSE disk.units
           /\ \/ /\ status' = "running"
                 /\ disk'.pendingGate = NoGate /\ ~disk'.questions
              \/ /\ status' = "down" /\ "torn" \in Faults
                 /\ UNCHANGED <<disk.pendingGate, disk.questions>>
           /\ Untouched
           /\ UNCHANGED <<disk.approved, disk.sealed>>
           /\ dirty' = dirty \cap disk'.completed
  <1> DEFINE gone == Affected(target)
             m == [mem EXCEPT !.completed = @ \ gone, !.units = UnitsLeft(gone),
                              !.pendingGate = NoGate, !.questions = FALSE]
             d1 == [disk EXCEPT !.completed = @ \ gone]
             d2 == IF m.units = mem.units THEN d1 ELSE [d1 EXCEPT !.units = m.units]
             d3 == AbandonPause(d2)
  <1> HIDE DEF gone
  <1>1. /\ Agree(mem, disk) /\ mem \in RunState /\ disk \in RunState
        /\ "rollback" \in Overrides /\ dirty' = dirty \cap disk'.completed
    BY DEF Rollback, IInv, ContextOK, DurableOK, ForgetChecksums
  <1>2. UnitsLeft(gone) = IF "implementation" \in gone THEN 0 ELSE disk.units
    BY <1>1 DEF UnitsLeft, Agree
  <1>3. \/ status' = "running" /\ disk' = d3
        \/ status' = "down" /\ "torn" \in Faults /\ disk' \in {d1, d2}
    BY DEF Rollback, CrashAmid, LoseProcess, gone
  <1>4. d2 = [disk EXCEPT !.completed = @ \ gone, !.units = UnitsLeft(gone)]
    BY <1>1, <1>2 DEF Agree, RunState
  <1>5. d3 = [disk EXCEPT !.completed = @ \ gone, !.units = UnitsLeft(gone),
                          !.pendingGate = NoGate, !.questions = FALSE]
    <2> HIDE DEF d2
    <2> QED BY <1>1, <1>4 DEF AbandonPause, RunState
  <1> HIDE DEF d2, d3
  <1>6. CASE status' = "running" /\ disk' = d3
    BY <1>1, <1>2, <1>5, <1>6 DEF RunState, Untouched, gone
  <1>7. CASE status' = "down" /\ "torn" \in Faults /\ disk' \in {d1, d2}
    BY <1>1, <1>2, <1>4, <1>7 DEF RunState, Untouched, gone
  <1> QED BY <1>3, <1>6, <1>7

\* What a resume over edited artifacts changes.
LEMMA ResumeEffect ==
    ASSUME IInv, Resume
    PROVE  /\ disk'.completed = disk.completed \ Invalidated
           /\ status' = IF disk.pendingGate # NoGate THEN "awaiting_approval"
                        ELSE IF disk.questions THEN "awaiting_clarification"
                        ELSE IF status = "down" THEN "running" ELSE status
           /\ Untouched
           /\ UNCHANGED <<disk.approved, disk.pendingGate, disk.questions, disk.sealed,
                          disk.units>>
           /\ dirty' = dirty \cap disk'.completed
  <1>1. disk \in RunState /\ mem \in RunState
    BY DEF IInv, DurableOK, ContextOK
  <1>2. disk' = [disk EXCEPT !.completed = @ \ Invalidated]
        /\ dirty' = dirty \cap disk'.completed
    BY DEF Resume, ForgetChecksums
  <1>3. \A m \in RunState : m.approved = disk.approved =>
            (disk.pendingGate # NoGate /\ ~GateSatisfied(m, disk.pendingGate)
                <=> disk.pendingGate # NoGate)
    BY DEF IInv, DurableOK, GateSatisfied
  <1>4. LET m == [Rehydrated EXCEPT !.completed = disk.completed \ Invalidated]
        IN  m \in RunState /\ m.approved = disk.approved
    <2>1. Rehydrated \in RunState /\ Rehydrated.approved = disk.approved
      BY <1>1 DEF Rehydrated, RunState
    <2> HIDE DEF Rehydrated
    <2> QED BY <1>1, <2>1 DEF RunState
  <1>5. status' = IF disk.pendingGate # NoGate THEN "awaiting_approval"
                  ELSE IF disk.questions THEN "awaiting_clarification"
                  ELSE IF status = "down" THEN "running" ELSE status
    BY <1>1, <1>3, <1>4 DEF Resume, RunState
  <1> QED BY <1>1, <1>2, <1>5 DEF RunState, Untouched

\* What the operations that write nothing about phases leave alone.
LEMMA QuietEffect ==
    ASSUME IInv,
           \/ Stop \/ Crash \/ RunCompletes \/ UNCHANGED vars
           \/ \E p \in Phases : PhaseEscalates(p) \/ EditArtifact(p)
    PROVE  Quiet
  BY DEF Quiet, Stop, Crash, LoseProcess, RunCompletes, PhaseEscalates, EditArtifact,
         Dispatches, StepsTo, IInv, RestOK, vars

-----------------------------------------------------------------------------
(***************************************************************************)
(* What holds only of runs that some operations are kept from.  README.md  *)
(* tells which of the finding configurations breaks each property where    *)
(* its premise is dropped.                                                 *)
(***************************************************************************)
NeverForced     == "force-advance" \notin Overrides
NeverRolledBack == "rollback" \notin Overrides
NeverTorn       == "torn" \notin Faults
NeverEdited     == Editable = {}

\* Every operation but a dispatch, an answer, an approval, a rollback and a
\* resume leaves the disk as it was.
LEMMA NextCases ==
    ASSUME IInv, [Next]_vars
    PROVE  \/ \E p \in Phases : PauseAtPreGate(p)
           \/ \E p \in Phases, tier \in Tiers : PhaseSucceeds(p, tier)
           \/ UnitCompletes \/ IntakeAsks \/ IntakeSettles
           \/ Approve \/ ForceAdvance \/ Clarify \/ Resume
           \/ \E p \in Phases : Rollback(p)
           \/ Quiet
  BY QuietEffect DEF Next, Step

-----------------------------------------------------------------------------
\* Disk holds at most one pause, and none of a run that is not paused.
OnePause ==
    /\ EndedPauseForgotten
    /\ disk.questions => disk.pendingGate = NoGate

\* A new run waits for nothing.
LEMMA InitOnePause == Init => OnePause
  BY DEF Init, OnePause, EndedPauseForgotten, NewContext

\* No step makes a run wait for a gate and for answers at once.
LEMMA NextOnePause ==
    NeverForced /\ IInv /\ OnePause /\ [Next]_vars => OnePause'
  <1> SUFFICES ASSUME NeverForced, IInv, OnePause, [Next]_vars PROVE OnePause'
    OBVIOUS
  <1> USE DEF OnePause, EndedPauseForgotten
  <1>1. CASE \E p \in Phases : PauseAtPreGate(p)
    BY <1>1, PauseAtPreGateEffect
  <1>2. CASE \E p \in Phases, tier \in Tiers : PhaseSucceeds(p, tier)
    BY <1>2, PhaseSucceedsEffect DEF PausesAfter
  <1>3. CASE UnitCompletes
    BY <1>3, UnitCompletesEffect DEF PausesAfter
  <1>4. CASE IntakeAsks
    BY <1>4, IntakeAsksEffect
  <1>5. CASE IntakeSettles
    BY <1>5, IntakeSettlesEffect DEF PausesAfter
  <1>6. CASE Approve \/ ForceAdvance
    BY <1>6, PassesGateEffect DEF NeverForced
  <1>7. CASE Clarify
    BY <1>7, ClarifyEffect
  <1>8. CASE Resume
    BY <1>8, ResumeEffect
  <1>9. CASE \E p \in Phases : Rollback(p)
    BY <1>9, RollbackEffect
  <1>10. CASE Quiet
    BY <1>10 DEF Quiet
  <1> QED
    BY <1>1, <1>2, <1>3, <1>4, <1>5, <1>6, <1>7, <1>8, <1>9, <1>10, NextCases

-----------------------------------------------------------------------------
\* What a tier leaves out comes after the proposal that chooses it, and
\* leaves out what depends on it.
TiersAreTails ==
    \A tier \in Tiers :
        tier \subseteq Downstream["proposal"]
        /\ \A p \in tier : Downstream[p] \subseteq tier

OrderInv ==
    /\ CompletedInOrder
    /\ disk.questions => disk.completed \cap Downstream["intake"] = {}
    /\ disk.excluded = {} \/ disk.excluded \in Tiers

\* Nothing downstream of a phase that can run has completed.
LEMMA NothingDownstreamDone ==
    ASSUME CompletedInOrder, NEW p \in Phases, p \in Ready(Done(disk))
    PROVE  disk.completed \cap Downstream[p] = {}
  BY DEF CompletedInOrder, Ready

\* Everything upstream of a phase that can run is done.
LEMMA UpstreamDone ==
    ASSUME TiersAreTails, OrderInv, NEW p \in Phases, p \in Ready(Done(disk)),
           NEW u \in Phases, p \in Downstream[u]
    PROVE  u \in Done(disk)
  <1>1. Deps[p] \subseteq Done(disk) /\ p \notin Done(disk) /\ Deps[p] \subseteq Phases
    BY GraphAssumption DEF Ready
  <1>2. CASE u \in Deps[p]
    BY <1>1, <1>2
  <1>3. ASSUME NEW d \in Deps[p], d \in Downstream[u]
        PROVE  u \in Done(disk)
    <2>1. CASE d \in disk.completed
      BY <1>3, <2>1 DEF OrderInv, CompletedInOrder
    <2>2. CASE d \in disk.excluded
      <3>1. p \in Downstream[d]
        BY <1>1, DirectDependent
      <3> QED BY <1>1, <2>2, <3>1 DEF TiersAreTails, OrderInv, Done
    <2> QED BY <1>1, <2>1, <2>2 DEF Done
  <1> QED BY <1>2, <1>3, DownstreamLast

\* A phase that could run keeps the order when it completes.
LEMMA CompletionInOrder ==
    ASSUME TiersAreTails, OrderInv, NEW p \in Phases, p \in Ready(Done(disk))
    PROVE  \A u \in Phases : \A q \in (disk.completed \cup {p}) \cap Downstream[u] :
               u \in Done(disk)
  BY UpstreamDone DEF OrderInv, CompletedInOrder

\* Discarding a set that is closed downstream keeps order.
LEMMA DiscardInOrder ==
    ASSUME OrderInv, NEW gone,
           \A q \in gone : \A r \in Downstream[q] : r \in gone,
           disk'.completed = disk.completed \ gone, disk'.excluded = disk.excluded
    PROVE  CompletedInOrder'
  BY DEF OrderInv, CompletedInOrder, Done

\* What a rollback sends back is closed downstream.
LEMMA AffectedClosed ==
    ASSUME NEW p \in Phases
    PROVE  \A q \in Affected(p) : \A r \in Downstream[q] : r \in Affected(p)
  BY DownstreamTransitive DEF Affected

\* What a resume finds invalid is closed downstream.
LEMMA InvalidatedClosed ==
    ASSUME dirty \subseteq Phases
    PROVE  \A q \in Invalidated : \A r \in Downstream[q] : r \in Invalidated
  BY AffectedClosed DEF Invalidated

\* A new run has completed nothing.
LEMMA InitOrder == Init => OrderInv
  BY SupervisorAssumption DEF Init, OrderInv, CompletedInOrder, NewContext

\* Every step keeps completed phases in the order of the graph.
LEMMA NextOrder ==
    NeverForced /\ TiersAreTails /\ IInv /\ OnePause /\ OrderInv /\ [Next]_vars
        => OrderInv'
  <1> SUFFICES ASSUME NeverForced, TiersAreTails, IInv, OnePause, OrderInv, [Next]_vars
               PROVE  OrderInv'
    OBVIOUS
  <1>0. {"intake", "proposal", "implementation"} \subseteq Phases
    BY SupervisorAssumption
  <1>1. CASE \E p \in Phases : PauseAtPreGate(p)
    BY <1>1, PauseAtPreGateEffect DEF OrderInv, CompletedInOrder, Done, Untouched
  <1>2. ASSUME NEW p \in Phases, NEW tier \in Tiers, PhaseSucceeds(p, tier)
        PROVE  OrderInv'
    <2>1. /\ p \in Ready(Done(disk)) /\ status = "running"
          /\ disk'.completed = disk.completed \cup {p}
          /\ disk'.excluded = disk.excluded \/ (p = "proposal" /\ disk'.excluded = tier)
          /\ disk'.questions = disk.questions
      BY <1>2, PhaseSucceedsEffect DEF IsNext
    <2>2. ~disk'.questions
      BY <2>1 DEF OnePause, EndedPauseForgotten
    <2>3. CASE disk'.excluded = disk.excluded
      BY <2>1, <2>2, <2>3, CompletionInOrder DEF OrderInv, CompletedInOrder, Done
    <2>4. CASE p = "proposal" /\ disk'.excluded = tier
      <3>1. disk.completed \cap Downstream[p] = {}
        BY <2>1, NothingDownstreamDone DEF OrderInv
      <3>2. ASSUME NEW u \in Phases, NEW q \in disk'.completed \cap Downstream[u],
                   u \in disk.excluded
            PROVE  FALSE
        <4>1. u \in Downstream[p]
          BY <2>4, <3>2 DEF OrderInv, TiersAreTails
        <4>2. q \in Downstream[p]
          BY <4>1, <3>2, DownstreamTransitive
        <4>3. p \notin Downstream[p]
          BY DownstreamRanks, GraphAssumption
        <4> QED BY <2>1, <3>1, <4>2, <4>3
      <3>3. ASSUME NEW u \in Phases, NEW q \in disk'.completed \cap Downstream[u]
            PROVE  u \in disk'.completed
        BY <2>1, <3>2, <3>3, CompletionInOrder DEF Done
      <3> QED BY <2>2, <2>4, <3>3 DEF OrderInv, CompletedInOrder, Done
    <2> QED BY <2>1, <2>3, <2>4
  <1>3. CASE UnitCompletes
    BY <1>3, UnitCompletesEffect DEF OrderInv, CompletedInOrder, Done, Untouched
  <1>4. CASE IntakeAsks \/ IntakeSettles
    <2>1. /\ "intake" \in Ready(Done(disk)) /\ disk'.excluded = disk.excluded
          /\ \/ disk'.completed = disk.completed \cup {"intake"}
             \/ disk'.completed = disk.completed /\ disk' = disk
      BY <1>4, IntakeAsksEffect, IntakeSettlesEffect DEF IsNext, Untouched
    <2>2. "intake" \notin Downstream["intake"]
      BY <1>0, DownstreamRanks, GraphAssumption
    <2>3. disk'.completed \cap Downstream["intake"] = {}
      BY <1>0, <2>1, <2>2, NothingDownstreamDone DEF OrderInv
    <2>4. CompletedInOrder'
      BY <1>0, <2>1, CompletionInOrder DEF OrderInv, CompletedInOrder, Done
    <2> QED BY <2>1, <2>3, <2>4 DEF OrderInv
  <1>5. CASE Approve \/ ForceAdvance
    BY <1>5, PassesGateEffect DEF OrderInv, CompletedInOrder, Done, Untouched
  <1>6. CASE Clarify
    <2>1. /\ disk.questions /\ disk'.excluded = disk.excluded
          /\ disk'.completed \in {disk.completed, disk.completed \ {"intake"}}
      BY <1>6, ClarifyEffect
    <2>2. disk'.completed \cap Downstream["intake"] = {}
      BY <2>1 DEF OrderInv
    <2> QED BY <2>1, <2>2 DEF OrderInv, CompletedInOrder, Done
  <1>7. CASE Resume
    <2>1. dirty \subseteq Phases
      BY DEF IInv, RestOK, DurableOK, RunState
    <2>2. CompletedInOrder'
      BY <1>7, <2>1, ResumeEffect, InvalidatedClosed, DiscardInOrder DEF Untouched
    <2> QED BY <1>7, <2>2, ResumeEffect DEF OrderInv, Untouched
  <1>8. ASSUME NEW target \in Phases, Rollback(target)
        PROVE  OrderInv'
    <2>1. CompletedInOrder'
      BY <1>8, RollbackEffect, AffectedClosed, DiscardInOrder DEF Untouched
    <2> QED BY <1>8, <2>1, RollbackEffect DEF OrderInv, Untouched
  <1>9. CASE Quiet
    BY <1>9 DEF Quiet, OrderInv, CompletedInOrder, Done
  <1> QED
    BY <1>1, <1>2, <1>3, <1>4, <1>5, <1>6, <1>7, <1>8, <1>9, NextCases

-----------------------------------------------------------------------------
\* Every phase that comes before the implementation leads to it.
ImplementationInLine ==
    \A p \in Phases : Rank[p] < Rank["implementation"] => "implementation" \in Downstream[p]

\* Units are on disk only while the implementation phase is the one to run.
UnitsInv ==
    /\ disk.units > 0 => IsNext("implementation", Done(disk))
    /\ disk.questions => disk.units = 0
    /\ dirty = {}

\* A new run has no units.
LEMMA InitUnits == Init => UnitsInv
  BY DEF Init, UnitsInv, NewContext

\* Another phase runs only when no units are kept.
LEMMA OthersRunWithoutUnits ==
    ASSUME IInv, UnitsInv, NEW p \in Phases, p # "implementation", IsNext(p, Done(disk))
    PROVE  disk.units = 0
  <1>1. disk.units \in Nat
    BY SupervisorAssumption DEF IInv, DurableOK, RunState
  <1>2. ASSUME disk.units > 0 PROVE FALSE
    <2>1. "implementation" \in Phases /\ IsNext("implementation", Done(disk))
      BY <1>2, SupervisorAssumption DEF UnitsInv
    <2>2. Rank[p] = Rank["implementation"]
      BY <2>1, GraphAssumption DEF IsNext
    <2> QED BY <2>1, <2>2, GraphAssumption
  <1> QED BY <1>1, <1>2

\* A rollback that does not reach the implementation phase leaves it next.
LEMMA RollbackKeepsNext ==
    ASSUME ImplementationInLine, NEW target \in Phases,
           "implementation" \notin Affected(target), NEW done,
           NEW left, done \ Affected(target) \subseteq left, left \subseteq done,
           IsNext("implementation", done)
    PROVE  IsNext("implementation", left)
  <1>1. "implementation" \in Phases
    BY SupervisorAssumption
  <1>2. Rank["implementation"] < Rank[target]
    BY <1>1, GraphAssumption DEF ImplementationInLine, Affected
  <1>3. \A q \in Affected(target) : q \in Phases /\ Rank["implementation"] < Rank[q]
    BY <1>1, <1>2, DownstreamRanks, DownstreamType, GraphAssumption DEF Affected
  <1>4. "implementation" \in Ready(left)
    <2>1. Deps["implementation"] \subseteq done /\ "implementation" \notin done
      BY DEF IsNext, Ready
    <2>2. \A d \in Deps["implementation"] : d \notin Affected(target)
      BY <1>1, <1>3, GraphAssumption, OrderAssumption
    <2> QED BY <1>1, <2>1, <2>2 DEF Ready
  <1>5. ASSUME NEW q \in Ready(left)
        PROVE  Rank["implementation"] =< Rank[q]
    <2>1. CASE q \in Affected(target)
      BY <1>1, <1>3, <2>1, GraphAssumption
    <2>2. CASE q \notin Affected(target)
      <3>1. q \in Ready(done)
        BY <2>2 DEF Ready
      <3> QED BY <3>1 DEF IsNext
    <2> QED BY <2>1, <2>2
  <1> QED BY <1>4, <1>5 DEF IsNext

\* Every step keeps units only of complete inputs.
LEMMA NextUnits ==
    NeverForced /\ NeverTorn /\ NeverEdited /\ ImplementationInLine /\ IInv /\ OnePause
        /\ UnitsInv /\ [Next]_vars => UnitsInv'
  <1> SUFFICES ASSUME NeverForced, NeverTorn, NeverEdited, ImplementationInLine,
                      IInv, OnePause, UnitsInv, [Next]_vars
               PROVE  UnitsInv'
    OBVIOUS
  <1> USE DEF NeverTorn, Untouched
  <1>0. {"intake", "proposal", "implementation"} \subseteq Phases
    BY SupervisorAssumption
  <1>1. CASE \E p \in Phases : PauseAtPreGate(p)
    BY <1>1, PauseAtPreGateEffect DEF UnitsInv, Done
  <1>2. ASSUME NEW p \in Phases, NEW tier \in Tiers, PhaseSucceeds(p, tier)
        PROVE  UnitsInv'
    <2>1. disk'.units = 0
      BY <1>2, PhaseSucceedsEffect, OthersRunWithoutUnits
    <2> QED BY <1>2, <2>1, PhaseSucceedsEffect DEF UnitsInv
  <1>3. CASE UnitCompletes
    <2>1. IsNext("implementation", Done(disk)) /\ ~disk.questions
      BY <1>3, UnitCompletesEffect DEF OnePause, EndedPauseForgotten
    <2> QED BY <1>3, <2>1, UnitCompletesEffect DEF UnitsInv, Done
  <1>4. CASE IntakeAsks \/ IntakeSettles
    <2>1. disk.units = 0
      BY <1>0, <1>4, IntakeAsksEffect, IntakeSettlesEffect, OthersRunWithoutUnits
    <2> QED BY <1>4, <2>1, IntakeAsksEffect, IntakeSettlesEffect DEF UnitsInv
  <1>5. CASE Approve \/ ForceAdvance
    BY <1>5, PassesGateEffect DEF UnitsInv, Done
  <1>6. CASE Clarify
    BY <1>6, ClarifyEffect DEF UnitsInv
  <1>7. CASE Resume
    <2>1. Invalidated = {}
      BY DEF Invalidated, UnitsInv
    <2> QED BY <1>7, <2>1, ResumeEffect DEF UnitsInv, Done
  <1>8. ASSUME NEW target \in Phases, Rollback(target)
        PROVE  UnitsInv'
    <2>1. CASE "implementation" \in Affected(target)
      BY <1>8, <2>1, RollbackEffect DEF UnitsInv
    <2>2. CASE "implementation" \notin Affected(target)
      <3>1. /\ disk'.units = disk.units
            /\ disk'.questions => disk.questions
            /\ dirty' = dirty \cap disk'.completed
            /\ Done(disk) \ Affected(target) \subseteq Done(disk)'
            /\ Done(disk)' \subseteq Done(disk)
        BY <1>8, <2>2, RollbackEffect DEF Done
      <3>2. ASSUME disk.units > 0 PROVE IsNext("implementation", Done(disk)')
        BY <2>2, <3>1, <3>2, RollbackKeepsNext DEF UnitsInv
      <3> QED BY <3>1, <3>2 DEF UnitsInv, Done
    <2> QED BY <2>1, <2>2
  <1>9. CASE Quiet
    BY <1>9 DEF Quiet, UnitsInv, Done, NeverEdited
  <1> QED
    BY <1>1, <1>2, <1>3, <1>4, <1>5, <1>6, <1>7, <1>8, <1>9, NextCases

\* In memory they are what they are on disk.
LEMMA UnitsCurrentInMemory == IInv /\ UnitsInv => UnitsOnCurrentInputs
  BY DEF IInv, UnitsInv, UnitsOnCurrentInputs, ContextOK, Agree, Done, IsNext

-----------------------------------------------------------------------------
\* Every phase depends on intake.
IntakeLeads == \A p \in Phases \ {"intake"} : p \in Downstream["intake"]

SealInv == ContractPresent /\ "intake" \in disk.completed => disk.sealed \/ disk.questions

\* A new run has done no work on its contract.
LEMMA InitSeal == Init => SealInv
  BY DEF Init, SealInv, NewContext

\* Every step keeps work behind the seal.
LEMMA NextSeal ==
    NeverForced /\ NeverRolledBack /\ NeverTorn /\ IInv /\ SealInv /\ [Next]_vars
        => SealInv'
  <1> SUFFICES ASSUME NeverForced, NeverRolledBack, NeverTorn, IInv, SealInv, [Next]_vars
               PROVE  SealInv'
    OBVIOUS
  <1> USE DEF SealInv, NeverTorn
  <1>1. CASE \E p \in Phases : PauseAtPreGate(p)
    BY <1>1, PauseAtPreGateEffect
  <1>2. CASE \E p \in Phases, tier \in Tiers : PhaseSucceeds(p, tier)
    BY <1>2, PhaseSucceedsEffect
  <1>3. CASE UnitCompletes
    BY <1>3, UnitCompletesEffect
  <1>4. CASE IntakeAsks \/ IntakeSettles
    BY <1>4, IntakeAsksEffect, IntakeSettlesEffect
  <1>5. CASE Approve \/ ForceAdvance
    BY <1>5, PassesGateEffect
  <1>6. CASE Clarify
    BY <1>6, ClarifyEffect
  <1>7. CASE Resume
    BY <1>7, ResumeEffect
  <1>8. CASE \E p \in Phases : Rollback(p)
    BY <1>8, RollbackEffect DEF NeverRolledBack
  <1>9. CASE Quiet
    BY <1>9 DEF Quiet
  <1> QED
    BY <1>1, <1>2, <1>3, <1>4, <1>5, <1>6, <1>7, <1>8, <1>9, NextCases

\* What has completed besides intake has intake's seal behind it.
LEMMA SealedBehindIntake ==
    ASSUME TiersAreTails, IntakeLeads, IInv, OrderInv, SealInv
    PROVE  SealedBeforeWork
  <1> SUFFICES ASSUME ContractPresent, NEW p \in disk.completed, p # "intake",
                      disk.completed \subseteq Phases
               PROVE  disk.sealed
    BY DEF SealedBeforeWork, IInv, DurableOK, RunState
  <1>1. p \in Downstream["intake"] /\ "intake" \in Phases /\ "proposal" \in Phases
    BY SupervisorAssumption DEF IntakeLeads
  <1>2. "intake" \in Done(disk) /\ ~disk.questions
    BY <1>1 DEF OrderInv, CompletedInOrder
  <1>3. "intake" \notin disk.excluded
    <2>1. "proposal" \in Downstream["intake"]
      BY <1>1 DEF IntakeLeads
    <2>2. "intake" \notin Downstream["proposal"]
      BY <1>1, <2>1, DownstreamRanks, GraphAssumption
    <2> QED BY <2>2 DEF OrderInv, TiersAreTails
  <1> QED BY <1>2, <1>3 DEF SealInv, Done

-----------------------------------------------------------------------------
\* A run that works, or waits for answers, has no gate pending.
GateInv ==
    /\ disk.post = RunPostGates
    /\ status \in {"running", "awaiting_clarification"} => disk.pendingGate = NoGate
    /\ PostGateEnforced

\* A new run has passed no gated phase.
LEMMA InitGates == Init => GateInv
  BY DEF Init, GateInv, PostGateEnforced, NewContext

\* Every step keeps the gate of a completed phase due or passed.
LEMMA NextGates ==
    NeverRolledBack /\ NeverTorn /\ IInv /\ GateInv /\ [Next]_vars => GateInv'
  <1> SUFFICES ASSUME NeverRolledBack, NeverTorn, IInv, GateInv, [Next]_vars
               PROVE  GateInv'
    OBVIOUS
  <1> USE DEF GateInv, PostGateEnforced, NeverTorn, Untouched
  <1>0. \A p \in RunPostGates : Mode # "yolo" /\ PostGate(p) # NoGate /\ p \in Phases
    BY GatesType, SupervisorAssumption DEF RunPostGates
  <1>1. CASE \E p \in Phases : PauseAtPreGate(p)
    BY <1>1, PauseAtPreGateEffect, <1>0
  <1>2. ASSUME NEW p \in Phases, NEW tier \in Tiers, PhaseSucceeds(p, tier)
        PROVE  GateInv'
    BY <1>2, PhaseSucceedsEffect, <1>0 DEF PausesAfter, GateSatisfied
  <1>3. CASE UnitCompletes
    BY <1>3, UnitCompletesEffect, <1>0 DEF PausesAfter
  <1>4. CASE IntakeAsks
    BY <1>4, IntakeAsksEffect, <1>0
  <1>5. CASE IntakeSettles
    BY <1>5, IntakeSettlesEffect, <1>0 DEF PausesAfter, GateSatisfied
  <1>6. CASE Approve \/ ForceAdvance
    BY <1>6, PassesGateEffect, <1>0
  <1>7. CASE Clarify
    BY <1>7, ClarifyEffect, <1>0
  <1>8. CASE Resume
    BY <1>8, ResumeEffect, <1>0
  <1>9. CASE \E p \in Phases : Rollback(p)
    BY <1>9, RollbackEffect DEF NeverRolledBack
  <1>10. CASE Quiet
    BY <1>10 DEF Quiet
  <1> QED
    BY <1>1, <1>2, <1>3, <1>4, <1>5, <1>6, <1>7, <1>8, <1>9, <1>10, NextCases

-----------------------------------------------------------------------------
\* Questions are open on an unsealed contract, intake is behind the seal.
AnswerInv ==
    /\ disk.questions => ~disk.sealed /\ "intake" \in disk.completed
    /\ disk.sealed /\ ~Assuming(disk) => "intake" \in disk.completed
    /\ "intake" \in dirty => Assuming(disk)

IntakeFirst == Deps["intake"] = {}

\* Where intake comes first, intake is downstream of no phase.
LEMMA NothingAboveIntake ==
    ASSUME IntakeFirst, NEW p \in Phases
    PROVE  "intake" \notin Downstream[p]
  BY DownstreamLast DEF IntakeFirst

\* A new run asks nothing.
LEMMA InitAnswers == Init => AnswerInv
  BY DEF Init, AnswerInv, NewContext

\* The invariant says of the context in memory what the property says.
LEMMA AnswerableInMemory == IInv /\ AnswerInv => AnswerableWhenAsked
  BY DEF IInv, AnswerInv, AnswerableWhenAsked, PauseOK, ContextOK, Agree

\* Every step keeps questions answerable.
LEMMA NextAnswers ==
    NeverRolledBack /\ NeverTorn /\ IntakeFirst /\ IInv /\ AnswerInv /\ [Next]_vars
        => AnswerInv'
  <1> SUFFICES ASSUME NeverRolledBack, NeverTorn, IntakeFirst, IInv, AnswerInv, [Next]_vars
               PROVE  AnswerInv'
    OBVIOUS
  <1> USE DEF AnswerInv, NeverTorn, Untouched, Assuming, CLARIFICATION_MAX_ROUNDS
  <1>0. "intake" \in Phases /\ disk.round \in {0, 1}
    BY SupervisorAssumption DEF IInv, DurableOK, RunState
  <1>1. CASE \E p \in Phases : PauseAtPreGate(p)
    BY <1>1, PauseAtPreGateEffect
  <1>2. CASE \E p \in Phases, tier \in Tiers : PhaseSucceeds(p, tier)
    BY <1>2, PhaseSucceedsEffect
  <1>3. CASE UnitCompletes
    BY <1>3, UnitCompletesEffect
  <1>4. CASE IntakeAsks
    BY <1>0, <1>4, IntakeAsksEffect DEF IsNext, Ready, Done
  <1>5. CASE IntakeSettles
    BY <1>0, <1>5, IntakeSettlesEffect DEF IsNext, Ready, Done
  <1>6. CASE Approve \/ ForceAdvance
    BY <1>6, PassesGateEffect
  <1>7. CASE Clarify
    BY <1>0, <1>7, ClarifyEffect DEF IInv, DurableOK
  <1>8. CASE Resume
    <2>1. "intake" \in Invalidated => "intake" \in dirty
      BY NothingAboveIntake DEF Invalidated, Affected, IInv, RestOK, DurableOK, RunState
    <2>2. "intake" \in dirty => ~disk.questions
      BY DEF IInv, DurableOK
    <2> QED BY <1>8, <2>1, <2>2, ResumeEffect
  <1>9. CASE \E p \in Phases : Rollback(p)
    BY <1>9, RollbackEffect DEF NeverRolledBack
  <1>10. CASE Quiet
    BY <1>10 DEF Quiet
  <1> QED
    BY <1>1, <1>2, <1>3, <1>4, <1>5, <1>6, <1>7, <1>8, <1>9, <1>10, NextCases

-----------------------------------------------------------------------------
\* Every variable keeps its type: the round counter never passes its limit
\* and no operation leaves a malformed run state behind.
THEOREM TypeCorrect == Spec => []TypeOK
  <1>1. IInv => TypeOK
    BY DEF IInv, DurableOK, ContextOK, RestOK, TypeOK
  <1> QED BY <1>1, Invariance, PTL

\* Between operations the saved run state is the one the process works with.
THEOREM MemoryIsDurable == Spec => []MemDurable
  <1>1. IInv => MemDurable
    BY DEF IInv, ContextOK, Agree, MemDurable, RunState
  <1> QED BY <1>1, Invariance, PTL

\* No rollback, override, crash or edit gets a phase past its unapproved
\* pre-phase gate.
THEOREM PreGatesHold == Spec => []PreGateEnforced
  <1>1. IInv => PreGateEnforced
    BY DEF IInv, DurableOK, PreGateEnforced
  <1> QED BY <1>1, Invariance, PTL

\* A paused run is paused on disk too, at a gate nobody has passed.
THEOREM PausesSurvive == Spec => []ActivePauseSaved
  <1>1. IInv => ActivePauseSaved
    BY DEF IInv, PauseOK, DurableOK, ActivePauseSaved
  <1> QED BY <1>1, Invariance, PTL

\* Questions are outstanding in the first round of an attended run only.
THEOREM OneRoundOfQuestions == Spec => []AsksOnlyInFirstRound
  <1>1. IInv => AsksOnlyInFirstRound
    BY DEF IInv, DurableOK, AsksOnlyInFirstRound
  <1> QED BY <1>1, Invariance, PTL


\* In a yolo run the invariant leaves nothing to wait for.
LEMMA YoloInMemory == IInv => YoloNeverPauses
  BY DEF IInv, DurableOK, PauseOK, YoloNeverPauses, GateSatisfied

\* A yolo run waits for nobody, under any override and through any crash.
THEOREM YoloRunsThrough == Spec => []YoloNeverPauses
  BY YoloInMemory, Invariance, PTL

-----------------------------------------------------------------------------
\* A run that nobody forces on restores no pause that was answered, passed or
\* rolled back, even if the process dies while it ends it.
THEOREM PausesForgotten ==
    ASSUME NeverForced
    PROVE  Spec => []EndedPauseForgotten
  <1>1. OnePause => EndedPauseForgotten
    BY DEF OnePause
  <1>2. IInv /\ OnePause /\ [Next]_vars => OnePause'
    BY NextOnePause
  <1> QED BY <1>1, <1>2, InitOnePause, Invariance, PTL DEF Spec

\* The run keeps nothing that it would have to redo: whatever is rolled back,
\* edited, answered or lost, what a completed phase depends on is done.  The
\* tiers leave out tails of the graph, as those of the shipped pipeline do.
THEOREM OrderKept ==
    ASSUME NeverForced, TiersAreTails
    PROVE  Spec => []CompletedInOrder
  <1>1. OrderInv => CompletedInOrder
    BY DEF OrderInv
  <1>2. IInv /\ OnePause /\ [Next]_vars => OnePause'
    BY NextOnePause
  <1>3. IInv /\ OnePause /\ OrderInv /\ [Next]_vars => OrderInv'
    BY NextOrder
  <1> QED
    BY <1>1, <1>2, <1>3, InitOnePause, InitOrder, Invariance, PTL DEF Spec

\* The units a run keeps belong to an implementation phase that is next, if
\* no crash cuts a write in two and nobody edits or forces.
THEOREM UnitsBelong ==
    ASSUME NeverForced, NeverTorn, NeverEdited, ImplementationInLine
    PROVE  Spec => []UnitsOnCurrentInputs
  <1>1. IInv /\ UnitsInv => UnitsOnCurrentInputs
    BY UnitsCurrentInMemory
  <1>2. IInv /\ OnePause /\ [Next]_vars => OnePause'
    BY NextOnePause
  <1>3. IInv /\ OnePause /\ UnitsInv /\ [Next]_vars => UnitsInv'
    BY NextUnits
  <1> QED
    BY <1>1, <1>2, <1>3, InitOnePause, InitUnits, Invariance, PTL DEF Spec

\* No work is done on a contract that is still open, by a run that is neither
\* rolled back nor forced on nor cut in the middle of a write.
THEOREM SealedFirst ==
    ASSUME NeverForced, NeverRolledBack, NeverTorn, TiersAreTails, IntakeLeads
    PROVE  Spec => []SealedBeforeWork
  <1>1. IInv /\ OrderInv /\ SealInv => SealedBeforeWork
    BY SealedBehindIntake
  <1>2. IInv /\ OnePause /\ [Next]_vars => OnePause'
    BY NextOnePause
  <1>3. IInv /\ OnePause /\ OrderInv /\ [Next]_vars => OrderInv'
    BY NextOrder
  <1>4. IInv /\ SealInv /\ [Next]_vars => SealInv'
    BY NextSeal
  <1> QED
    BY <1>1, <1>2, <1>3, <1>4, InitOnePause, InitOrder, InitSeal, Invariance, PTL
    DEF Spec

\* A gated phase has completed only behind a gate that was passed or that is
\* still pending, also when clients force the run on.
THEOREM PostGatesHold ==
    ASSUME NeverRolledBack, NeverTorn
    PROVE  Spec => []PostGateEnforced
  <1>1. GateInv => PostGateEnforced
    BY DEF GateInv
  <1>2. IInv /\ GateInv /\ [Next]_vars => GateInv'
    BY NextGates
  <1> QED BY <1>1, <1>2, InitGates, Invariance, PTL DEF Spec

\* A run that waits for answers takes them, also when its input file is
\* edited and the run forced past its questions before.
THEOREM QuestionsAnswerable ==
    ASSUME NeverRolledBack, NeverTorn, IntakeFirst
    PROVE  Spec => []AnswerableWhenAsked
  <1>1. IInv /\ AnswerInv => AnswerableWhenAsked
    BY AnswerableInMemory
  <1>2. IInv /\ AnswerInv /\ [Next]_vars => AnswerInv'
    BY NextAnswers
  <1> QED BY <1>1, <1>2, InitAnswers, Invariance, PTL DEF Spec

-----------------------------------------------------------------------------
(***************************************************************************)
(* The supervisor does to each phase's failure count what StepOutcome says *)
(* a step may do, as the retry loop does (RetryLoopProofs).  A phase has   *)
(* escalated while the run has and the phase's budget is spent; a stop, a  *)
(* resume at a pause and a crash leave that state the way an override      *)
(* does.                                                                   *)
(***************************************************************************)
Outcome(p) == INSTANCE StepOutcome
                 WITH Budget <- MaxRetries,
                      failures <- failures[p],
                      status <- IF status = "escalated" /\ failures[p] = MaxRetries + 1
                                THEN "escalated" ELSE "running"

KeepsOutcome ==
    /\ \A p \in Phases : Outcome(p)!Init
    /\ [][\A p \in Phases : [Outcome(p)!Next]_(Outcome(p)!vars)]_vars

\* What an operation does to the failure count of phase q.
CountKept(q)    == failures'[q] = failures[q] /\ (status' = "escalated" => status = "escalated")
CountDropped(q) == failures'[q] = 0 /\ status' # "escalated"
CountRetried(q) == /\ status = "running" /\ status' # "escalated"
                   /\ failures'[q] \in RetriedWithinBudget(q)
CountSpent(q)   == /\ status = "running" /\ status' = "escalated"
                   /\ failures'[q] \in {failures[q], MaxRetries + 1}

\* A lost process has forgotten every failure.
LEMMA CrashCounts ==
    ASSUME LoseProcess, NEW q \in Phases
    PROVE  CountDropped(q)
  BY DEF LoseProcess, NoFailures, CountDropped

\* The check of a gate never escalates a run.
LEMMA GateCheckCounts ==
    ASSUME NEW p, NEW m, NEW d, CheckPostGate(p, m, d)
    PROVE  status' # "escalated"
  BY DEF CheckPostGate

\* No step raises a count but a retry within the budget and an escalation.
LEMMA StepCounts ==
    ASSUME IInv, [Next]_vars, NEW q \in Phases
    PROVE  CountKept(q) \/ CountDropped(q) \/ CountRetried(q) \/ CountSpent(q)
  <1> USE DEF CountKept, CountDropped
  <1>1. failures \in [Phases -> 0 .. MaxRetries + 1] /\ status \in Statuses
    BY DEF IInv, RestOK
  <1>2. ASSUME NEW p \in Phases, PauseAtPreGate(p) \/ EditArtifact(p)
        PROVE  CountKept(q)
    BY <1>2 DEF PauseAtPreGate, EditArtifact
  <1>3. ASSUME NEW p \in Phases, PhaseEscalates(p)
        PROVE  CountSpent(q)
    BY <1>1, <1>3 DEF PhaseEscalates, Dispatches, StepsTo, CountSpent
  <1>4. ASSUME NEW p \in Phases, NEW tier \in Tiers, PhaseSucceeds(p, tier)
        PROVE  CountKept(q) \/ CountDropped(q)
    <2>1. \/ status' # "escalated" /\ failures' = [failures EXCEPT ![p] = 0]
          \/ LoseProcess
      BY <1>4, GateCheckCounts DEF PhaseSucceeds, CrashAmid
    <2> QED BY <1>1, <2>1, CrashCounts
  <1>5. CASE UnitCompletes
    <2>1. /\ status = "running"
          /\ \/ /\ status' # "escalated"
                /\ \E n \in RetriedWithinBudget("implementation") :
                      failures' = [failures EXCEPT !["implementation"] = n]
             \/ LoseProcess
      BY <1>5, GateCheckCounts DEF UnitCompletes, CrashAmid, Dispatches, StepsTo
    <2> QED BY <1>1, <2>1, CrashCounts DEF CountRetried, RetriedWithinBudget
  <1>6. CASE IntakeAsks
    <2>1. \/ status' # "escalated" /\ failures' = [failures EXCEPT !["intake"] = 0]
          \/ LoseProcess
      BY <1>6 DEF IntakeAsks, CrashAmid
    <2> QED BY <1>1, <2>1, CrashCounts
  <1>7. CASE IntakeSettles
    <2>1. \/ status' # "escalated" /\ failures' = [failures EXCEPT !["intake"] = 0]
          \/ LoseProcess
      BY <1>7, GateCheckCounts DEF IntakeSettles, CrashAmid
    <2> QED BY <1>1, <2>1, CrashCounts
  <1>8. CASE Clarify
    <2>1. \/ status' # "escalated" /\ failures' = [failures EXCEPT !["intake"] = 0]
          \/ LoseProcess
      BY <1>8 DEF Clarify, CrashAmid
    <2> QED BY <1>1, <2>1, CrashCounts
  <1>9. CASE RunCompletes \/ Approve \/ Stop \/ ForceAdvance \/ UNCHANGED vars
    BY <1>9 DEF RunCompletes, Approve, Stop, ForceAdvance, vars
  <1>10. ASSUME NEW p \in Phases, Rollback(p)
         PROVE  CountKept(q) \/ CountDropped(q)
    <2>1. \/ /\ status' = "running"
             /\ failures' = [r \in Phases |-> IF r \in Affected(p) THEN 0 ELSE failures[r]]
          \/ LoseProcess
      BY <1>10 DEF Rollback, CrashAmid
    <2> QED BY <2>1, CrashCounts
  <1>11. CASE Resume
    BY <1>11, ResumeEffect DEF Resume
  <1>12. CASE Crash
    BY <1>12, CrashCounts DEF Crash
  <1> QED
    BY <1>2, <1>3, <1>4, <1>5, <1>6, <1>7, <1>8, <1>9, <1>10, <1>11, <1>12 DEF Next, Step

\* A phase's failures grow within its budget and a phase that spent it does
\* not succeed before an act from outside, in the supervisor
\* (development_manager.py, step) as in the loop that makes the dispatches,
\* for any phases and any budget.
THEOREM SupervisorKeepsOutcome == Spec => KeepsOutcome
  <1>1. Init => \A p \in Phases : Outcome(p)!Init
    <2> SUFFICES ASSUME Init, NEW p \in Phases PROVE Outcome(p)!Init
      BY Zenon
    <2>1. status = "running" /\ failures[p] = 0
      BY DEF Init, NoFailures
    <2> QED BY <2>1 DEF Outcome!Init
  <1>2. IInv /\ [Next]_vars => [\A p \in Phases : [Outcome(p)!Next]_(Outcome(p)!vars)]_vars
    <2> SUFFICES ASSUME IInv, [Next]_vars, NEW q \in Phases
                 PROVE  Outcome(q)!Next \/ UNCHANGED Outcome(q)!vars
      OBVIOUS
    <2>1. failures[q] \in 0 .. MaxRetries + 1 /\ MaxRetries \in Nat
      BY SupervisorAssumption DEF IInv, RestOK
    <2> USE DEF Outcome!vars, Outcome!Next, Outcome!PhaseSucceeds, Outcome!UnitCompletes,
                Outcome!PhaseEscalates, Outcome!ForceAdvance, Outcome!Rollback
    <2>2. CASE CountKept(q)
      BY <2>1, <2>2 DEF CountKept
    <2>3. CASE CountDropped(q)
      BY <2>1, <2>3 DEF CountDropped
    <2>4. CASE CountRetried(q)
      BY <2>1, <2>4 DEF CountRetried, RetriedWithinBudget
    <2>5. CASE CountSpent(q)
      BY <2>1, <2>5 DEF CountSpent
    <2> QED BY <2>2, <2>3, <2>4, <2>5, StepCounts
  <1> QED BY <1>1, <1>2, Invariance, PTL DEF Spec, KeepsOutcome

=============================================================================
