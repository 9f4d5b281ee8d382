-------------------------- MODULE ScenariosProofs --------------------------
(***************************************************************************)
(* The five kinds of run, each proved from the theorems about any run: the *)
(* constants of a scenario meet what the supervisor assumes of its graph   *)
(* and the premises of the invariants used (NeverRolledBack, NeverTorn,    *)
(* TiersAreTails and the like say which overrides and faults a run is      *)
(* spared).  A step of the state graph is a step of its scenario, so the   *)
(* invariant is that of the supervisor, scenario by scenario.              *)
(***************************************************************************)
EXTENDS MCScenarios, TLAPS

\* A list of phases without repetition.
IsChain(chain) ==
    /\ DOMAIN chain \subseteq Nat
    /\ \A i, j \in DOMAIN chain : chain[i] = chain[j] => i = j

\* In a chain, a phase's rank is its position.
LEMMA ChainRank ==
    ASSUME NEW chain, IsChain(chain), NEW i \in DOMAIN chain
    PROVE  chain[i] \in InChain(chain) /\ RankIn(chain)[chain[i]] = i
  <1>1. chain[i] \in InChain(chain)
    BY DEF InChain
  <1>2. RankIn(chain)[chain[i]] = CHOOSE j \in DOMAIN chain : chain[j] = chain[i]
    BY <1>1 DEF RankIn
  <1>3. \A j \in DOMAIN chain : chain[j] = chain[i] => j = i
    BY DEF IsChain
  <1> QED BY <1>1, <1>2, <1>3

\* A chain is a graph whose canonical order lists prerequisites first.
LEMMA ChainGraph ==
    ASSUME NEW chain, IsChain(chain)
    PROVE  /\ DepsIn(chain) \in [InChain(chain) -> SUBSET InChain(chain)]
           /\ RankIn(chain) \in [InChain(chain) -> Nat]
           /\ \A p, q \in InChain(chain) : RankIn(chain)[p] = RankIn(chain)[q] => p = q
           /\ \A p \in InChain(chain) :
                  \A d \in DepsIn(chain)[p] : RankIn(chain)[d] < RankIn(chain)[p]
  <1>1. \A p \in InChain(chain) :
            RankIn(chain)[p] \in DOMAIN chain /\ chain[RankIn(chain)[p]] = p
    BY ChainRank DEF InChain
  <1>2. RankIn(chain) \in [InChain(chain) -> Nat]
    <2>1. RankIn(chain) = [p \in InChain(chain) |-> RankIn(chain)[p]]
      BY DEF RankIn
    <2>2. \A p \in InChain(chain) : RankIn(chain)[p] \in Nat
      BY <1>1 DEF IsChain
    <2> HIDE DEF RankIn
    <2> QED BY <2>1, <2>2
  <1>3. DepsIn(chain) \in [InChain(chain) -> SUBSET InChain(chain)]
    BY DEF DepsIn
  <1>4. \A p \in InChain(chain) : \A d \in DepsIn(chain)[p] :
            RankIn(chain)[d] < RankIn(chain)[p]
    <2>1. \A p \in InChain(chain) : \A d \in DepsIn(chain)[p] :
              d \in InChain(chain) /\ RankIn(chain)[d] + 1 = RankIn(chain)[p]
      BY DEF DepsIn
    <2> HIDE DEF RankIn
    <2> QED BY <1>2, <2>1
  <1> QED BY <1>1, <1>2, <1>3, <1>4

\* The short pipeline is a chain of its five phases.
LEMMA ShortIsChain ==
    /\ IsChain(Short)
    /\ ShortPhases = {"intake", "proposal", "planning", "implementation", "deployment"}
    /\ ShortRank["intake"] = 1 /\ ShortRank["proposal"] = 2 /\ ShortRank["planning"] = 3
    /\ ShortRank["implementation"] = 4 /\ ShortRank["deployment"] = 5
  <1>1. DOMAIN Short = 1 .. 5 /\ Short[1] = "intake" /\ Short[2] = "proposal"
        /\ Short[3] = "planning" /\ Short[4] = "implementation" /\ Short[5] = "deployment"
    BY DEF Short
  <1>2. IsChain(Short)
    BY <1>1 DEF IsChain
  <1>3. ShortPhases = {Short[i] : i \in 1 .. 5}
    BY <1>1 DEF ShortPhases, InChain
  <1>4. \A i \in 1 .. 5 : ShortRank[Short[i]] = i
    BY <1>1, <1>2, ChainRank DEF ShortRank
  <1> QED BY <1>1, <1>2, <1>3, <1>4

\* PHASE_IDS is a chain of thirteen phases.
LEMMA ShippedIsChain ==
    /\ IsChain(PHASE_IDS)
    /\ ShippedPhases = {"intake", "proposal", "factory-init", "specification", "architecture",
                        "blueprint", "dev-plan", "implementation", "qa", "packaging",
                        "documentation", "deployment", "cleanup"}
    /\ ShippedRank["intake"] = 1 /\ ShippedRank["proposal"] = 2
    /\ ShippedRank["factory-init"] = 3 /\ ShippedRank["specification"] = 4
    /\ ShippedRank["architecture"] = 5 /\ ShippedRank["blueprint"] = 6
    /\ ShippedRank["dev-plan"] = 7 /\ ShippedRank["implementation"] = 8
    /\ ShippedRank["qa"] = 9 /\ ShippedRank["packaging"] = 10
    /\ ShippedRank["documentation"] = 11 /\ ShippedRank["deployment"] = 12
    /\ ShippedRank["cleanup"] = 13
  <1>1. /\ DOMAIN PHASE_IDS = 1 .. 13
        /\ PHASE_IDS[1] = "intake" /\ PHASE_IDS[2] = "proposal"
        /\ PHASE_IDS[3] = "factory-init" /\ PHASE_IDS[4] = "specification"
        /\ PHASE_IDS[5] = "architecture" /\ PHASE_IDS[6] = "blueprint"
        /\ PHASE_IDS[7] = "dev-plan" /\ PHASE_IDS[8] = "implementation"
        /\ PHASE_IDS[9] = "qa" /\ PHASE_IDS[10] = "packaging"
        /\ PHASE_IDS[11] = "documentation" /\ PHASE_IDS[12] = "deployment"
        /\ PHASE_IDS[13] = "cleanup"
    BY DEF PHASE_IDS
  <1>2. IsChain(PHASE_IDS)
    BY <1>1 DEF IsChain
  <1>3. ShippedPhases = {PHASE_IDS[i] : i \in 1 .. 13}
    BY <1>1 DEF ShippedPhases, InChain
  <1>4. \A i \in 1 .. 13 : ShippedRank[PHASE_IDS[i]] = i
    BY <1>1, <1>2, ChainRank DEF ShippedRank
  <1> QED BY <1>1, <1>2, <1>3, <1>4

-----------------------------------------------------------------------------
\* What the five scenarios assume of their constants.
LEMMA ShortGraph ==
    /\ ShortDeps \in [ShortPhases -> SUBSET ShortPhases]
    /\ ShortRank \in [ShortPhases -> Nat]
    /\ \A p, q \in ShortPhases : ShortRank[p] = ShortRank[q] => p = q
    /\ \A p \in ShortPhases : \A d \in ShortDeps[p] : ShortRank[d] < ShortRank[p]
    /\ {"intake", "proposal", "implementation"} \subseteq ShortPhases
    /\ {"deployment", "planning"} \subseteq ShortPhases
    /\ {{}, {"deployment"}} \subseteq SUBSET ShortPhases
    /\ NoGate \notin {"pre", "post"} \X ShortPhases
  <1>1. {"intake", "proposal", "planning", "implementation", "deployment"} = ShortPhases
    BY ShortIsChain
  <1> QED
    BY <1>1, ShortIsChain, ChainGraph, NoGateAssumption
    DEF ShortDeps, ShortRank, ShortPhases

\* The shipped pipeline is a graph the supervisor's theorems speak of.
LEMMA ShippedGraph ==
    /\ ShippedDeps \in [ShippedPhases -> SUBSET ShippedPhases]
    /\ ShippedRank \in [ShippedPhases -> Nat]
    /\ \A p, q \in ShippedPhases : ShippedRank[p] = ShippedRank[q] => p = q
    /\ \A p \in ShippedPhases : \A d \in ShippedDeps[p] : ShippedRank[d] < ShippedRank[p]
    /\ {"intake", "proposal", "implementation"} \subseteq ShippedPhases
    /\ {"deployment"} \subseteq ShippedPhases
    /\ {"proposal", "architecture", "blueprint"} \subseteq ShippedPhases
    /\ ShippedTiers \subseteq SUBSET ShippedPhases
    /\ NoGate \notin {"pre", "post"} \X ShippedPhases
  <1>1. ShippedTiers \subseteq SUBSET ShippedPhases
    BY ShippedIsChain DEF ShippedTiers, Auxiliary
  <1> QED
    BY <1>1, ShippedIsChain, ChainGraph, NoGateAssumption
    DEF ShippedDeps, ShippedRank, ShippedPhases

-----------------------------------------------------------------------------
\* A step of the state graph is a step of its scenario, or none.
LEMMA ScenarioSteps ==
    ASSUME [Next]_<<scenario, state>>
    PROVE  /\ scenario' = scenario
           /\ scenario = "forced" => [Forced!Next]_Forced!vars
           /\ scenario = "sentback" => [SentBack!Next]_SentBack!vars
           /\ scenario = "edited" => [Edited!Next]_Edited!vars
           /\ scenario = "yolo" => [Yolo!Next]_Yolo!vars
           /\ scenario = "shipped" => [Shipped!Next]_Shipped!vars
  BY DEF Next, In, state, Forced!vars, SentBack!vars, Edited!vars, Yolo!vars, Shipped!vars

ForcedInv == Forced!IInv /\ Forced!GateInv /\ Forced!AnswerInv

\* Runs forced on and edited, never rolled back: gates and answers hold.
LEMMA ForcedOK ==
    /\ Forced!Init => ForcedInv
    /\ ForcedInv /\ [Forced!Next]_Forced!vars => ForcedInv'
    /\ ForcedInv => Forced!PostGateEnforced /\ Forced!AnswerableWhenAsked
  <1> USE ShortGraph DEF Forced!Gates
  <1>1. Forced!NeverRolledBack /\ Forced!NeverTorn /\ Forced!IntakeFirst
    <2>1. \A q \in ShortPhases : ShortRank[q] + 1 # ShortRank["intake"]
      BY ShortIsChain
    <2>2. ShortDeps["intake"] = {}
      BY <2>1 DEF ShortDeps, DepsIn, ShortPhases, ShortRank
    <2> QED BY <2>2 DEF Forced!NeverRolledBack, Forced!NeverTorn, Forced!IntakeFirst
  <1>2. Forced!Init => ForcedInv
    BY Forced!InitIInv, Forced!InitGates, Forced!InitAnswers DEF ForcedInv
  <1>3. ForcedInv /\ [Forced!Next]_Forced!vars => ForcedInv'
    BY <1>1, Forced!NextIInv, Forced!NextGates, Forced!NextAnswers DEF ForcedInv
  <1>4. ForcedInv => Forced!PostGateEnforced /\ Forced!AnswerableWhenAsked
    BY Forced!AnswerableInMemory DEF ForcedInv, Forced!GateInv
  <1> QED BY <1>2, <1>3, <1>4

\* A yolo run under every override and fault never waits.
LEMMA YoloOK ==
    /\ Yolo!Init => Yolo!IInv
    /\ Yolo!IInv /\ [Yolo!Next]_Yolo!vars => Yolo!IInv'
    /\ Yolo!IInv => Yolo!YoloNeverPauses
  BY ShortGraph, Yolo!InitIInv, Yolo!NextIInv, Yolo!YoloInMemory DEF Yolo!Gates

SentBackInv == SentBack!IInv /\ SentBack!OnePause /\ SentBack!UnitsInv

\* Runs that are rolled back and lost between operations keep no stale unit.
LEMMA SentBackOK ==
    /\ SentBack!Init => SentBackInv
    /\ SentBackInv /\ [SentBack!Next]_SentBack!vars => SentBackInv'
    /\ SentBackInv => SentBack!UnitsOnCurrentInputs
  <1> USE ShortGraph DEF SentBack!Gates
  <1>1. SentBack!NeverForced /\ SentBack!NeverTorn /\ SentBack!NeverEdited
    BY DEF SentBack!NeverForced, SentBack!NeverTorn, SentBack!NeverEdited
  <1>2. SentBack!ImplementationInLine
    <2>1. "intake" \in ShortDeps["proposal"] /\ "proposal" \in ShortDeps["planning"]
          /\ "planning" \in ShortDeps["implementation"]
      BY ShortIsChain DEF ShortDeps, DepsIn, ShortPhases, ShortRank
    <2>2. \A p \in {"intake", "proposal", "planning"} :
              "implementation" \in SentBack!Downstream[p]
      BY <2>1, ShortIsChain
      DEF SentBack!Downstream, SentBack!DownstreamOf, SentBack!ClosedDownstream
    <2> QED BY <2>2, ShortIsChain DEF SentBack!ImplementationInLine
  <1>3. SentBack!Init => SentBackInv
    BY SentBack!InitIInv, SentBack!InitOnePause, SentBack!InitUnits DEF SentBackInv
  <1>4. SentBackInv /\ [SentBack!Next]_SentBack!vars => SentBackInv'
    BY <1>1, <1>2, SentBack!NextIInv, SentBack!NextOnePause, SentBack!NextUnits
    DEF SentBackInv
  <1>5. SentBackInv => SentBack!UnitsOnCurrentInputs
    BY SentBack!UnitsCurrentInMemory DEF SentBackInv
  <1> QED BY <1>3, <1>4, <1>5

EditedInv == Edited!IInv /\ Edited!OnePause /\ Edited!OrderInv

\* Edited, rolled back and cut anywhere: order is kept, ended pauses stay ended.
LEMMA EditedOK ==
    /\ Edited!Init => EditedInv
    /\ EditedInv /\ [Edited!Next]_Edited!vars => EditedInv'
    /\ EditedInv => Edited!CompletedInOrder /\ Edited!EndedPauseForgotten
  <1> USE ShortGraph DEF Edited!Gates
  <1>1. Edited!NeverForced
    BY DEF Edited!NeverForced
  <1>2. Edited!TiersAreTails
    <2>1. "proposal" \in ShortDeps["planning"] /\ "planning" \in ShortDeps["implementation"]
          /\ "implementation" \in ShortDeps["deployment"]
      BY ShortIsChain DEF ShortDeps, DepsIn, ShortPhases, ShortRank
    <2>2. "deployment" \in Edited!Downstream["proposal"]
      BY <2>1, ShortIsChain
      DEF Edited!Downstream, Edited!DownstreamOf, Edited!ClosedDownstream
    <2>3. Edited!Downstream["deployment"] = {}
      BY ShortIsChain, Edited!DownstreamRanks, Edited!DownstreamType
    <2> QED BY <2>2, <2>3 DEF Edited!TiersAreTails
  <1>3. Edited!Init => EditedInv
    BY Edited!InitIInv, Edited!InitOnePause, Edited!InitOrder DEF EditedInv
  <1>4. EditedInv /\ [Edited!Next]_Edited!vars => EditedInv'
    BY <1>1, <1>2, Edited!NextIInv, Edited!NextOnePause, Edited!NextOrder DEF EditedInv
  <1>5. EditedInv => Edited!CompletedInOrder /\ Edited!EndedPauseForgotten
    BY DEF EditedInv, Edited!OrderInv, Edited!OnePause
  <1> QED BY <1>3, <1>4, <1>5

ShippedInv ==
    Shipped!IInv /\ Shipped!OnePause /\ Shipped!OrderInv /\ Shipped!SealInv

\* The shipped pipeline, whose tiers cut only its tail, works on a sealed contract.
LEMMA ShippedOK ==
    /\ Shipped!Init => ShippedInv
    /\ ShippedInv /\ [Shipped!Next]_Shipped!vars => ShippedInv'
    /\ ShippedInv => Shipped!SealedBeforeWork
  <1> USE ShippedGraph DEF Shipped!Gates
  <1>1. /\ Shipped!NeverForced /\ Shipped!NeverRolledBack /\ Shipped!NeverTorn
    BY DEF Shipped!NeverForced, Shipped!NeverRolledBack, Shipped!NeverTorn
  <1>2. \A p, q \in ShippedPhases :
            ShippedRank[p] + 1 = ShippedRank[q] => p \in ShippedDeps[q]
    BY DEF ShippedDeps, DepsIn, ShippedPhases, ShippedRank
  <1>3. ASSUME NEW p \in {"intake", "proposal"}, NEW q \in ShippedPhases,
               ShippedRank[p] < ShippedRank[q]
        PROVE  q \in Shipped!Downstream[p]
    BY <1>2, <1>3, ShippedIsChain
    DEF Shipped!Downstream, Shipped!DownstreamOf, Shipped!ClosedDownstream
  <1>4. Shipped!IntakeLeads
    BY <1>3, ShippedIsChain DEF Shipped!IntakeLeads
  <1>5. Shipped!TiersAreTails
    <2>1. ASSUME NEW tier \in ShippedTiers, NEW p \in tier
          PROVE  p \in Shipped!Downstream["proposal"]
      BY <1>3, <2>1, ShippedIsChain DEF ShippedTiers, Auxiliary
    <2>2. ASSUME NEW tier \in ShippedTiers, NEW p \in tier, NEW q \in Shipped!Downstream[p]
          PROVE  q \in tier
      <3>1. p \in ShippedPhases /\ q \in ShippedPhases /\ ShippedRank[p] < ShippedRank[q]
        BY <2>2, Shipped!DownstreamRanks, Shipped!DownstreamType
      <3> QED BY <3>1, ShippedIsChain DEF ShippedTiers, Auxiliary
    <2> QED BY <2>1, <2>2 DEF Shipped!TiersAreTails
  <1>6. Shipped!Init => ShippedInv
    BY Shipped!InitIInv, Shipped!InitOnePause, Shipped!InitOrder, Shipped!InitSeal
    DEF ShippedInv
  <1>7. ShippedInv /\ [Shipped!Next]_Shipped!vars => ShippedInv'
    BY <1>1, <1>5, Shipped!NextIInv, Shipped!NextOnePause, Shipped!NextOrder,
       Shipped!NextSeal
    DEF ShippedInv
  <1>8. ShippedInv => Shipped!SealedBeforeWork
    BY <1>4, <1>5, Shipped!SealedBehindIntake DEF ShippedInv
  <1> QED BY <1>6, <1>7, <1>8

-----------------------------------------------------------------------------
\* The inductive invariant: the supervisor's, scenario by scenario.
IInv ==
    /\ scenario = "forced" => ForcedInv
    /\ scenario = "sentback" => SentBackInv
    /\ scenario = "edited" => EditedInv
    /\ scenario = "yolo" => Yolo!IInv
    /\ scenario = "shipped" => ShippedInv

\* The invariant of each scenario is an invariant of the state graph.
LEMMA Invariance == Spec => []IInv
  <1>1. Init => IInv
    BY ForcedOK, SentBackOK, EditedOK, YoloOK, ShippedOK DEF Init, IInv
  <1>2. IInv /\ [Next]_<<scenario, state>> => IInv'
    BY ScenarioSteps, ForcedOK, SentBackOK, EditedOK, YoloOK, ShippedOK DEF IInv
  <1> QED BY <1>1, <1>2, PTL DEF Spec

\* No phase completes past its gate and no question waits that clarify would reject in
\* a run that is stopped, forced on (override) and edited; and no override makes a yolo
\* run wait.  Proved of the scenario's constants, for every interleaving of clients.
THEOREM PausesHoldThroughout == Spec => []PausesHold
  <1>1. IInv => PausesHold
    BY ForcedOK, YoloOK DEF IInv, PausesHold
  <1> QED BY <1>1, Invariance, PTL

\* A rollback drops the units of an implementation whose inputs it sends back: what
\* _record_unit keeps is of complete inputs, through stops, rollbacks and restarts.
THEOREM UnitsStayCurrent == Spec => []UnitsCurrent
  <1>1. IInv => UnitsCurrent
    BY SentBackOK DEF IInv, UnitsCurrent
  <1> QED BY <1>1, Invariance, PTL

\* No phase stays completed without its prerequisites, whichever write of rollback,
\* submit_clarification or resume_run over an edited artifact is the last one made.
THEOREM EditsKeepOrder == Spec => []EditedInOrder
  <1>1. IInv => EditedInOrder
    BY EditedOK DEF IInv, EditedInOrder
  <1> QED BY <1>1, Invariance, PTL

\* A pause that was answered, approved or rolled back is not found again by resume_run,
\* although the process may die between the writes that end it.
THEOREM EditsForgetPauses == Spec => []EditedPauseForgotten
  <1>1. IInv => EditedPauseForgotten
    BY EditedOK DEF IInv, EditedPauseForgotten
  <1> QED BY <1>1, Invariance, PTL

\* With the thirteen phases, gates and tiers as shipped, no phase after intake has run
\* while the task contract is unsealed (_seal_contract).
THEOREM ShippedWorksSealed == Spec => []ShippedSealed
  <1>1. IInv => ShippedSealed
    BY ShippedOK DEF IInv, ShippedSealed
  <1> QED BY <1>1, Invariance, PTL

=============================================================================
