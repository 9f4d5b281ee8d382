---------------------------- MODULE MCSupervisor ----------------------------
(***************************************************************************)
(* A run of five phases, in the canonical order: the three the supervisor  *)
(* treats specially, one document phase between them and a gated last one. *)
(***************************************************************************)
EXTENDS Supervisor

Chain == <<"intake", "proposal", "planning", "implementation", "deployment">>

MCPhases == {Chain[i] : i \in DOMAIN Chain}

MCRank == [p \in MCPhases |-> CHOOSE i \in DOMAIN Chain : Chain[i] = p]

\* _default_linear_dependencies
MCDeps == [p \in MCPhases |-> {q \in MCPhases : MCRank[q] + 1 = MCRank[p]}]

\* A complex project runs everything, a standard one is not deployed.
MCTiers == {{}, {"deployment"}}

=============================================================================
