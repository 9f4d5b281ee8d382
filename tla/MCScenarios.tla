---------------------------- MODULE MCScenarios ----------------------------
(***************************************************************************)
(* Runs of the supervisor that differ in their mode and in what clients    *)
(* and the machine do to them, in one state graph: a behaviour is one of   *)
(* the scenarios, picked at the start.  Each property is checked where it  *)
(* is meant to hold; README.md tells what breaks it elsewhere.             *)
(*                                                                         *)
(*   forced    a secure run with a gate after implementation too; clients  *)
(*             stop it and force it on, and its input file is edited       *)
(*   sentback  a gated run that clients stop and roll back                 *)
(*   edited    a secure run that clients stop and roll back, whose         *)
(*             artifacts are edited and whose process may die anywhere     *)
(*   yolo      a yolo run, with every override and every fault             *)
(*   shipped   the pipeline as shipped: PHASE_IDS, the chain of            *)
(*             dependencies, the mandatory gates, the complexity tiers     *)
(***************************************************************************)
EXTENDS Naturals, Sequences

CONSTANT NoGate

VARIABLES scenario, status, mem, disk, failures, dirty, contract

state == <<status, mem, disk, failures, dirty, contract>>

-----------------------------------------------------------------------------
InChain(chain) == {chain[i] : i \in DOMAIN chain}
RankIn(chain) ==
    [p \in InChain(chain) |-> CHOOSE i \in DOMAIN chain : chain[i] = p]

\* _default_linear_dependencies
DepsIn(chain) ==
    [p \in InChain(chain) |-> {q \in InChain(chain) : RankIn(chain)[q] + 1 = RankIn(chain)[p]}]

Short == <<"intake", "proposal", "planning", "implementation", "deployment">>

PHASE_IDS ==
    <<"intake", "proposal", "factory-init", "specification", "architecture",
      "blueprint", "dev-plan", "implementation", "qa", "packaging",
      "documentation", "deployment", "cleanup">>

\* _GATED_BY_TIER
Auxiliary == {"packaging", "documentation", "deployment", "cleanup"}
ShippedTiers == {{"qa"} \cup Auxiliary, Auxiliary, {}}

ShortPhases == InChain(Short)
ShortDeps == DepsIn(Short)
ShortRank == RankIn(Short)
ShippedPhases == InChain(PHASE_IDS)
ShippedDeps == DepsIn(PHASE_IDS)
ShippedRank == RankIn(PHASE_IDS)

\* No gate is pending: that is no gate of a phase.
ASSUME NoGateAssumption == NoGate \notin {"pre", "post"} \X (ShortPhases \cup ShippedPhases)

-----------------------------------------------------------------------------
Forced == INSTANCE SupervisorProofs
    WITH Phases <- ShortPhases, Deps <- ShortDeps, Rank <- ShortRank,
         Mode <- "secure", SecurePre <- {"deployment"}, SecurePost <- {"proposal"},
         PhaseGates <- {"implementation"}, ContractPresent <- TRUE, Units <- 1,
         Tiers <- {{}, {"deployment"}}, MaxRetries <- 1,
         Overrides <- {"stop", "force-advance"}, Faults <- {"crash"},
         Editable <- {"intake"}

SentBack == INSTANCE SupervisorProofs
    WITH Phases <- ShortPhases, Deps <- ShortDeps, Rank <- ShortRank,
         Mode <- "gated", SecurePre <- {"deployment"}, SecurePost <- {"proposal"},
         PhaseGates <- {"planning"}, ContractPresent <- TRUE, Units <- 1,
         Tiers <- {{}, {"deployment"}}, MaxRetries <- 1,
         Overrides <- {"stop", "rollback"}, Faults <- {"crash"},
         Editable <- {}

Edited == INSTANCE SupervisorProofs
    WITH Phases <- ShortPhases, Deps <- ShortDeps, Rank <- ShortRank,
         Mode <- "secure", SecurePre <- {"deployment"}, SecurePost <- {"proposal"},
         PhaseGates <- {}, ContractPresent <- TRUE, Units <- 1,
         Tiers <- {{}, {"deployment"}}, MaxRetries <- 1,
         Overrides <- {"stop", "rollback"}, Faults <- {"crash", "torn"},
         Editable <- {"planning"}

Yolo == INSTANCE SupervisorProofs
    WITH Phases <- ShortPhases, Deps <- ShortDeps, Rank <- ShortRank,
         Mode <- "yolo", SecurePre <- {"deployment"}, SecurePost <- {"proposal"},
         PhaseGates <- {"planning"}, ContractPresent <- TRUE, Units <- 1,
         Tiers <- {{}, {"deployment"}}, MaxRetries <- 1,
         Overrides <- {"stop", "rollback", "force-advance"},
         Faults <- {"crash", "torn"}, Editable <- {"intake", "proposal"}

Shipped == INSTANCE SupervisorProofs
    WITH Phases <- ShippedPhases, Deps <- ShippedDeps, Rank <- ShippedRank,
         Mode <- "secure", SecurePre <- {"deployment"},
         SecurePost <- {"proposal", "architecture", "blueprint"},
         PhaseGates <- {"implementation"}, ContractPresent <- TRUE, Units <- 2,
         Tiers <- ShippedTiers, MaxRetries <- 2,
         Overrides <- {}, Faults <- {"crash"}, Editable <- {}

-----------------------------------------------------------------------------
Init ==
    \/ scenario = "forced" /\ Forced!Init
    \/ scenario = "sentback" /\ SentBack!Init
    \/ scenario = "edited" /\ Edited!Init
    \/ scenario = "yolo" /\ Yolo!Init
    \/ scenario = "shipped" /\ Shipped!Init

In(name) == scenario = name /\ UNCHANGED scenario

Next ==
    \/ In("forced") /\ Forced!Next
    \/ In("sentback") /\ SentBack!Next
    \/ In("edited") /\ Edited!Next
    \/ In("yolo") /\ Yolo!Next
    \/ In("shipped") /\ Shipped!Next

\* Supervisor's Fairness, in the scenario whose liveness is checked.
Fairness ==
    /\ WF_<<scenario, state>>(In("shipped") /\ Shipped!Step)
    /\ WF_<<scenario, state>>(In("shipped") /\ Shipped!Approve)
    /\ WF_<<scenario, state>>(In("shipped") /\ Shipped!Clarify)
    /\ WF_<<scenario, state>>(In("shipped") /\ Shipped!Restart)

Spec == Init /\ [][Next]_<<scenario, state>> /\ Fairness

-----------------------------------------------------------------------------
\* A run waits where it should and only there: a phase that completes stops at
\* its gate, or the gate was passed, and nobody waits for answers that would be
\* rejected, even when clients force the run on and intake is run again on an
\* edited input file; and no override or fault makes a yolo run wait.
PausesHold ==
    /\ scenario = "forced" => Forced!PostGateEnforced /\ Forced!AnswerableWhenAsked
    /\ scenario = "yolo" => Yolo!YoloNeverPauses

\* However a run is stopped, rolled back and lost, the units it keeps belong
\* to an implementation phase whose inputs are complete.
UnitsCurrent == scenario = "sentback" => SentBack!UnitsOnCurrentInputs

\* Nothing stays completed without what it depends on, whichever write of a
\* rollback, of an answer or of a resume over edited artifacts is the last.
EditedInOrder == scenario = "edited" => Edited!CompletedInOrder

\* A pause that was answered, passed or rolled back does not come back, even
\* if the process dies while it is ended.
EditedPauseForgotten == scenario = "edited" => Edited!EndedPauseForgotten

\* The shipped pipeline does no work on an unsealed contract.
ShippedSealed == scenario = "shipped" => Shipped!SealedBeforeWork

\* The shipped pipeline ends once its process stays up and pauses are answered.
ShippedSettles == scenario = "shipped" => Shipped!RunSettles

=============================================================================
