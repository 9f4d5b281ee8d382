--------------------------- MODULE PhaseDAGLoops ---------------------------
(***************************************************************************)
(* The fixpoint loops of core/phase_dag.py, an iteration of the inner for  *)
(* at a time: validate(), which the manager's constructor runs on every    *)
(* graph it is given, then downstream_of(), which rollback and resume run. *)
(*                                                                         *)
(* Custom graphs are kept in insertion order, which need not put a         *)
(* prerequisite first, so nothing is assumed of the graph here: TLC starts *)
(* from every one, with unknown nodes, self loops and cycles.  (validate   *)
(* iterates over a set.  With every graph on the nodes tried, one order of *)
(* the nodes stands for all.)                                              *)
(***************************************************************************)
EXTENDS Naturals, Sequences

CONSTANTS
    Order,      \* _order: every node once
    Unknown     \* an id that names no phase

Nodes == {Order[i] : i \in DOMAIN Order}

\* A graph keeps each node once; Unknown is none of them.
KeptOnce ==
    /\ Order \in Seq(Nodes)
    /\ \A i, j \in DOMAIN Order : Order[i] = Order[j] => i = j
    /\ Unknown \notin Nodes

VARIABLES
    deps,       \* _dependencies
    pc,         \* the loop under way, or how it ended
    root,       \* downstream_of's argument
    found,      \* resolved, or result
    next,       \* position of the for loop
    changed     \* progressing, or changed

vars == <<deps, pc, root, found, next, changed>>

G == INSTANCE PhaseDAG
        WITH Phases <- Nodes,
             Deps <- deps,
             Rank <- [n \in Nodes |-> CHOOSE i \in DOMAIN Order : Order[i] = n]

Init ==
    /\ deps \in [Nodes -> SUBSET (Nodes \cup {Unknown})]
    /\ pc = IF \E n \in Nodes : Unknown \in deps[n] THEN "rejected" ELSE "validate"
    /\ root \in Nodes
    /\ found = {}
    /\ next = 1
    /\ changed = FALSE

-----------------------------------------------------------------------------
\* Fault: one resolved prerequisite is enough.
ResolvesOnAny(n) == deps[n] = {} \/ deps[n] \cap found # {}

Resolves(n) == deps[n] \subseteq found

\* Fault: only direct dependents are found.
ReachedDirectly(n) == n # root /\ root \in deps[n]

\* The frontier is the root and the result so far.
Reached(n) == n # root /\ deps[n] \cap (found \cup {root}) # {}

\* Whether the method that runs takes node n now.
Takes(n) == IF pc = "validate" THEN Resolves(n) ELSE Reached(n)

\* One iteration of the inner loop.
Visit ==
    /\ pc \in {"validate", "downstream"}
    /\ next \in DOMAIN Order
    /\ IF Order[next] \notin found /\ Takes(Order[next])
       THEN found' = found \cup {Order[next]} /\ changed' = TRUE
       ELSE UNCHANGED <<found, changed>>
    /\ next' = next + 1
    /\ UNCHANGED <<deps, pc, root>>

\* The outer loop goes round again.
NextPass ==
    /\ pc \in {"validate", "downstream"}
    /\ next \notin DOMAIN Order
    /\ changed
    /\ next' = 1
    /\ changed' = FALSE
    /\ UNCHANGED <<deps, pc, root, found>>

\* A pass without change: everything is resolved, or there is a cycle.
EndValidate ==
    /\ pc = "validate"
    /\ next \notin DOMAIN Order
    /\ ~changed
    /\ IF found = Nodes
       THEN pc' = "downstream" /\ found' = {} /\ next' = 1
       ELSE pc' = "rejected" /\ UNCHANGED <<found, next>>
    /\ UNCHANGED <<deps, root, changed>>

EndDownstream ==
    /\ pc = "downstream"
    /\ next \notin DOMAIN Order
    /\ ~changed
    /\ pc' = "returned"
    /\ UNCHANGED <<deps, root, found, next, changed>>

Next ==
    \/ Visit
    \/ NextPass
    \/ EndValidate
    \/ EndDownstream

Spec == Init /\ [][Next]_vars

-----------------------------------------------------------------------------
\* Every node of S has a prerequisite in S: following them never ends.
Cyclic(S) == S # {} /\ \A n \in S : deps[n] \cap S # {}

(***************************************************************************)
(* validate accepts a graph exactly if it names known phases only and has  *)
(* no cycle.                                                               *)
(***************************************************************************)
ValidatesGraph ==
    LET bad == \/ \E n \in Nodes : Unknown \in deps[n]
               \/ \E S \in SUBSET Nodes : Cyclic(S)
    IN  /\ pc = "rejected" => bad
        /\ pc \in {"downstream", "returned"} => ~bad

\* downstream_of returns the least set closed downstream of its argument:
\* the DownstreamOf that the supervisor's rollback and resume are stated with.
DownstreamIsLeast == pc = "returned" => found = G!DownstreamOf(root)

=============================================================================
