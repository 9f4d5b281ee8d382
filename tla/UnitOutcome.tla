----------------------------- MODULE UnitOutcome -----------------------------
(***************************************************************************)
(* What the supervisor expects of the implementation phase: units recorded *)
(* one at a time, the phase completed by the dispatch after the last one.  *)
(* Supervisor's UnitCompletes and PhaseSucceeds take these steps.          *)
(***************************************************************************)
EXTENDS Naturals

VARIABLES
    due,        \* units that come before the completing dispatch
    units,      \* how many are recorded
    completed   \* the phase is

Init == units = 0 /\ ~completed

UnitCompletes ==
    /\ ~completed
    /\ units < due
    /\ units' = units + 1
    /\ UNCHANGED <<due, completed>>

PhaseSucceeds ==
    /\ ~completed
    /\ units = due
    /\ completed'
    /\ units' = 0
    /\ UNCHANGED due

\* The phase, or one before it, is sent back.
Rollback ==
    /\ ~completed'
    /\ units' = 0
    /\ UNCHANGED due

Next == UnitCompletes \/ PhaseSucceeds \/ Rollback

Spec == Init /\ [][Next]_<<due, units, completed>>

=============================================================================
