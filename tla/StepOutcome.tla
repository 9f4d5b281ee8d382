---------------------------- MODULE StepOutcome ----------------------------
(***************************************************************************)
(* What a step may do to a phase's failure count, seen from outside the    *)
(* retry loop: Supervisor.tla takes a phase's dispatches and retries in    *)
(* one action, with the outcomes allowed here.                             *)
(***************************************************************************)
EXTENDS Naturals

CONSTANT Budget     \* self-heal retries per phase

VARIABLES
    status,     \* "running" or "escalated"
    failures    \* recorded failures of the phase

vars == <<status, failures>>

Init == status = "running" /\ failures = 0

PhaseSucceeds ==
    /\ status = "running"
    /\ failures' = 0
    /\ UNCHANGED status

UnitCompletes ==
    /\ status = "running"
    /\ failures' \in {failures} \cup (failures .. Budget)
    /\ UNCHANGED status

PhaseEscalates ==
    /\ status = "running"
    /\ failures' = Budget + 1
    /\ status' = "escalated"

ForceAdvance == status' = "running" /\ UNCHANGED failures

Rollback == status' = "running" /\ failures' = 0

Next ==
    \/ PhaseSucceeds
    \/ UnitCompletes
    \/ PhaseEscalates
    \/ ForceAdvance
    \/ Rollback

Spec == Init /\ [][Next]_vars

=============================================================================
