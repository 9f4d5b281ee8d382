----------------------------- MODULE ChatClient -----------------------------
(***************************************************************************)
(* The chat participant of the editor (extension/src/chat/participant.ts): *)
(* each message is a turn, turns may overlap, and all of them share the    *)
(* run started last.  A turn that starts a run drives it, one advance      *)
(* after the other; the others ask the runtime for one thing.              *)
(*                                                                         *)
(* The runtime is what its routes promise a client (api/routes_runs.py):   *)
(* a request is answered when its whole effect is there, or fails before   *)
(* or after it.  Phases are not told apart: a step ends a run or not.      *)
(***************************************************************************)
EXTENDS Naturals, FiniteSets

CONSTANTS
    Turns,      \* that may be under way at once
    Gates,      \* approval gates of a run
    Advances,   \* the bound of the driving loop (60)
    MaxRuns,    \* bound on the runs started
    MaxOverrides

Runs == 1 .. MaxRuns
NoRun == 0
NoGate == "none"

VARIABLES
    server,     \* server[r]: the run's status, pending gate and gates passed
    started,    \* runs started so far
    active,     \* activeRunId
    turn,       \* turn[t]: where it is, its run, what it read, its guard
    overrides,  \* rollbacks so far
    gaveUp      \* runs whose driving loop hit its bound or an error (history)

vars == <<server, started, active, turn, overrides, gaveUp>>

Idle == [pc |-> "idle", run |-> NoRun, status |-> "none", gate |-> NoGate, guard |-> 0]

\* TERMINAL_STATUSES
Settled == {"completed", "escalated", "stopped", "awaiting_approval", "awaiting_clarification"}

Init ==
    /\ server = [r \in Runs |-> [status |-> "none", gate |-> NoGate, passed |-> {}]]
    /\ started = 0 /\ active = NoRun /\ overrides = 0
    /\ turn = [t \in Turns |-> Idle]
    /\ gaveUp = {}

-----------------------------------------------------------------------------
\* What a run may have come to after one step, and when it cannot go on.
Stepped(run) ==
    IF run.status # "running" THEN {run}
    ELSE {run} \cup {[run EXCEPT !.status = s] : s \in {"completed", "escalated"}}
         \cup {[run EXCEPT !.status = "awaiting_approval", !.gate = g] : g \in Gates \ run.passed}
         \cup {[run EXCEPT !.status = "awaiting_clarification"]}

\* Fault: the route leaves it to the client to go on.
DriveNot(run) == {run}

\* run_until_pause
Paused(run) == {after \in Stepped(run) : after.status # "running"}

\* Fault: any decision resumes the run.
GateMatchesAny(run, gate) == run.status = "awaiting_approval"

GateMatches(run, gate) == run.status = "awaiting_approval" /\ run.gate = gate

Granted(run, gate) ==
    [run EXCEPT !.status = "running", !.gate = NoGate, !.passed = @ \cup {run.gate}]

-----------------------------------------------------------------------------
Reply(t, label) == turn' = [turn EXCEPT ![t] = [Idle EXCEPT !.pc = label]]

End(t) == turn' = [turn EXCEPT ![t] = Idle]

\* startRun with defer; the answer may be lost.
StartRun(t) ==
    /\ turn[t].pc = "idle" /\ started < MaxRuns
    /\ started' = started + 1
    /\ server' = [server EXCEPT ![started'].status = "running"]
    /\ \/ /\ active' = started'
          /\ turn' = [turn EXCEPT ![t] = [Idle EXCEPT !.pc = "driving", !.run = started',
                                                      !.status = "running"]]
          /\ UNCHANGED gaveUp
       \/ /\ gaveUp' = gaveUp \cup {started'}
          /\ End(t)
          /\ UNCHANGED active
    /\ UNCHANGED overrides

Guard(t) == turn[t].guard < Advances

Drives(t) == turn[t].pc = "driving" /\ turn[t].status \notin Settled

Advance(t) ==
    /\ Drives(t) /\ Guard(t)
    /\ \E after \in Stepped(server[turn[t].run]) :
           /\ server' = [server EXCEPT ![turn[t].run] = after]
           /\ turn' = [turn EXCEPT ![t].status = after.status,
                                   ![t].guard = (@ + 1) % (Advances + 1)]
    /\ UNCHANGED <<started, active, overrides, gaveUp>>

\* The request fails, before the step or after it: the turn ends with an error.
AdvanceFails(t) ==
    /\ Drives(t) /\ Guard(t)
    /\ \E after \in Stepped(server[turn[t].run]) :
           server' = [server EXCEPT ![turn[t].run] = after]
    /\ gaveUp' = gaveUp \cup {turn[t].run}
    /\ End(t)
    /\ UNCHANGED <<started, active, overrides>>

DrivingEnds(t) ==
    /\ turn[t].pc = "driving" /\ ~(Drives(t) /\ Guard(t))
    /\ gaveUp' = IF Drives(t) THEN gaveUp \cup {turn[t].run} ELSE gaveUp
    /\ End(t)
    /\ UNCHANGED <<server, started, active, overrides>>

-----------------------------------------------------------------------------
\* yes, no: the run is read first, and nothing is sent if no gate is pending.
ReadGate(t) ==
    /\ turn[t].pc = "idle" /\ active # NoRun /\ server[active].gate # NoGate
    /\ turn' = [turn EXCEPT ![t] = [Idle EXCEPT !.pc = "deciding", !.run = active,
                                                !.gate = server[active].gate]]
    /\ UNCHANGED <<server, started, active, overrides, gaveUp>>

Approve(t) ==
    /\ turn[t].pc = "deciding"
    /\ LET run == server[turn[t].run]
       IN IF GateMatches(run, turn[t].gate)
          THEN \E after \in Paused(Granted(run, turn[t].gate)) :
                   server' = [server EXCEPT ![turn[t].run] = after]
          ELSE UNCHANGED server
    /\ End(t)
    /\ UNCHANGED <<started, active, overrides, gaveUp>>

Deny(t) ==
    /\ turn[t].pc = "deciding"
    /\ End(t)
    /\ UNCHANGED <<server, started, active, overrides, gaveUp>>

Answer ==
    /\ active # NoRun /\ server[active].status = "awaiting_clarification"
    /\ \E after \in Paused([server[active] EXCEPT !.status = "running"]) :
           server' = [server EXCEPT ![active] = after]
    /\ UNCHANGED <<started, active, turn, overrides, gaveUp>>

Stop ==
    /\ active # NoRun
    /\ server' = [server EXCEPT ![active].status = "stopped"]
    /\ UNCHANGED <<started, active, turn, overrides, gaveUp>>

\* force-advance bypasses the gate, rollback abandons it; both resume the run.
Resume ==
    /\ active # NoRun /\ overrides < MaxOverrides
    /\ overrides' = overrides + 1
    /\ LET run == server[active]
       IN \E passed \in {run.passed, run.passed \cup ({run.gate} \ {NoGate})} :
          \E after \in Paused([status |-> "running", gate |-> NoGate, passed |-> passed]) :
              server' = [server EXCEPT ![active] = after]
    /\ UNCHANGED <<started, active, turn, gaveUp>>

Work(t) == Advance(t) \/ AdvanceFails(t) \/ DrivingEnds(t) \/ Approve(t) \/ Deny(t)

Next ==
    \/ \E t \in Turns : StartRun(t) \/ ReadGate(t) \/ Work(t)
    \/ Answer \/ Stop \/ Resume

Spec == Init /\ [][Next]_vars

-----------------------------------------------------------------------------
\* A gate is passed with an approval only by a turn that read that very gate
\* as pending: a stray "yes", or one that arrives when the run has moved on,
\* approves nothing (participant.ts:174-188, development_manager.py:701-706).
ApprovesAsRead ==
    \A t \in Turns, r \in Runs : Approve(t) =>
        server'[r].passed \subseteq
            server[r].passed \cup (IF turn[t].run = r THEN {turn[t].gate} ELSE {})

ApprovedAsRead == [][ApprovesAsRead]_vars

\* A run is running only while a turn is driving it, or if the turn that did
\* gave up: what the other turns resume, the runtime drives to its next pause
\* before it answers (participant.ts:84-90, routes_runs.py:282, 305, 326).
RunningIsDriven ==
    \A r \in Runs : server[r].status = "running" =>
        r \in gaveUp \/ \E t \in Turns : turn[t].pc = "driving" /\ turn[t].run = r

=============================================================================
