------------------------------ MODULE PhaseDAG ------------------------------
(***************************************************************************)
(* The phase dependency graph of core/phase_dag.py: which phases may run   *)
(* given what is done, which one runs next, and what a rollback reaches.   *)
(*                                                                         *)
(* The loops of the class are stated here by the sets they compute; module *)
(* PhaseDAGLoops runs the loops themselves against these definitions.      *)
(***************************************************************************)
EXTENDS Naturals

CONSTANTS
    Phases,     \* the phase ids of the graph
    Deps,       \* Deps[p]: the prerequisites of p
    Rank        \* the canonical order (PHASE_IDS) that breaks ties

ASSUME GraphAssumption ==
    /\ Deps \in [Phases -> SUBSET Phases]
    /\ Rank \in [Phases -> Nat]
    /\ \A p, q \in Phases : Rank[p] = Rank[q] => p = q

(***************************************************************************)
(* The canonical order lists prerequisites first.  True of the default     *)
(* chain, where each phase depends on the one before it in PHASE_IDS; it   *)
(* makes the graph acyclic, which validate() demands of every graph.       *)
(***************************************************************************)
ASSUME OrderAssumption ==
    \A p \in Phases : \A d \in Deps[p] : Rank[d] < Rank[p]

-----------------------------------------------------------------------------
\* ready_phases: not done, every prerequisite done.
Ready(done) == {p \in Phases \ done : Deps[p] \subseteq done}

\* next_phase: the first ready phase in canonical order.
IsNext(p, done) ==
    /\ p \in Ready(done)
    /\ \A q \in Ready(done) : Rank[p] =< Rank[q]

\* S contains every phase that depends on p or on a member of S.
ClosedDownstream(p, S) ==
    \A q \in Phases \ S : p \notin Deps[q] /\ Deps[q] \cap S = {}

(***************************************************************************)
(* downstream_of: every phase that depends on p, directly or not.  The     *)
(* code grows a frontier to a fixpoint; the result is the least set that   *)
(* is closed downstream of p.                                              *)
(***************************************************************************)
DownstreamOf(p) ==
    LET closed == {S \in SUBSET Phases : ClosedDownstream(p, S)}
    IN  {q \in Phases : \A S \in closed : q \in S}

Downstream == [p \in Phases |-> DownstreamOf(p)]

\* The phases a rollback to p, or a checkpoint of p found invalid, discards.
Affected(p) == {p} \cup Downstream[p]

=============================================================================
