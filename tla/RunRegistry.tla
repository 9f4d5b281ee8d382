---------------------------- MODULE RunRegistry ----------------------------
(***************************************************************************)
(* The HTTP requests about one run (api/routes_runs.py): each is a thread  *)
(* of the server's pool that looks the run's manager up in app.state.runs, *)
(* and then calls the manager, whose operations take the run's lock.       *)
(*                                                                         *)
(* A lock belongs to a manager.  The run of a workspace of its own gets a  *)
(* manager of its own, built when the run starts and again by the first    *)
(* resume after a restart of the server.  What an operation does inside    *)
(* the lock is Supervisor.tla's subject: here a run is a row of phases,    *)
(* some of them gated, that several requests try to drive.                 *)
(***************************************************************************)
EXTENDS Naturals

CONSTANTS
    Requests,       \* the requests clients send, one thread each
    Kinds,          \* what they may ask for
    Homes,          \* whether the run's workspace is the server's own root
    Length,         \* phases of the run
    Gated,          \* positions of the phases with a gate after them
    MaxRestarts,    \* bound: restarts of the server
    MaxManagers,    \* bound: managers built between two of them
    Nobody          \* no request, no manager

ASSUME RegistryAssumption ==
    /\ Kinds \subseteq {"resume", "advance", "approve", "stop"}
    /\ Homes \subseteq BOOLEAN
    /\ Length \in Nat
    /\ Gated \subseteq 1 .. Length
    /\ MaxRestarts \in Nat
    /\ MaxManagers \in Nat \ {0}
    /\ Nobody \notin Requests \cup Nat

\* The default manager and those built for runs with their own workspace.
Default == 0
Managers == 0 .. MaxManagers

VARIABLES
    home,           \* the run's workspace is the server's own root
    registered,     \* app.state.runs[run_id]: its manager
    built,          \* managers built since the server started
    ctx,            \* ctx[m]: manager m's context of the run
    lock,           \* lock[m]: the request that holds the run's lock in m
    disk,           \* the run's state file
    kind,           \* kind[q]: what request q asks for
    pc,             \* pc[q]: where it is
    at,             \* at[q]: the manager it was given
    restarts,
    cut             \* gates whose pause a restart kept from being saved

vars == <<home, registered, built, ctx, lock, disk, kind, pc, at, restarts, cut>>

NoContext ==
    [status |-> "none", done |-> 0, passed |-> {}, gate |-> 0, profile |-> "restricted"]

\* Where start_run puts the run.
First == IF home THEN Default ELSE 1

\* start_run with defer=true has returned the run's id to a client.
Init ==
    /\ home \in Homes
    /\ registered = First
    /\ built = First
    /\ ctx = [m \in Managers |->
                IF m = First
                THEN [NoContext EXCEPT !.status = "running", !.profile = "open"]
                ELSE NoContext]
    /\ lock = [m \in Managers |-> Nobody]
    /\ disk = [done |-> 0, passed |-> {}, gate |-> 0]
    /\ kind \in [Requests -> Kinds]
    /\ pc = [q \in Requests |-> "new"]
    /\ at = [q \in Requests |-> Nobody]
    /\ restarts = 0
    /\ cut = {}

-----------------------------------------------------------------------------
Goto(q, label) == pc' = [pc EXCEPT ![q] = label]

\* Fault: the lock is not looked at.
FreeAlways(q) == TRUE

Free(q) == lock[at[q]] = Nobody

Acquire(q) == lock' = [lock EXCEPT ![at[q]] = q]

\* Fault: an early return leaves the lock taken.
ReleaseForgotten(q) == UNCHANGED lock

Release(q) == lock' = [lock EXCEPT ![at[q]] = Nobody]

\* get_run_manager: the registered manager, else the default one.
Lookup(q) ==
    /\ pc[q] = "new"
    /\ kind[q] # "resume"
    /\ at' = [at EXCEPT ![q] = IF registered = Nobody THEN Default ELSE registered]
    /\ Goto(q, "call")
    /\ UNCHANGED <<home, registered, built, ctx, lock, disk, kind, restarts, cut>>

\* resume: a run that is not registered gets a new manager, unless it is at
\* home.  It is not registered yet.
LookupOrBuild(q) ==
    /\ pc[q] = "new"
    /\ kind[q] = "resume"
    /\ IF registered = Nobody /\ ~home
       THEN /\ built < MaxManagers
            /\ built' = built + 1
            /\ at' = [at EXCEPT ![q] = built + 1]
       ELSE /\ at' = [at EXCEPT ![q] = IF registered = Nobody THEN Default ELSE registered]
            /\ UNCHANGED built
    /\ Goto(q, "call")
    /\ UNCHANGED <<home, registered, ctx, lock, disk, kind, restarts, cut>>

\* _require_run raises: 404.
Unknown(q) ==
    /\ pc[q] = "call"
    /\ kind[q] # "resume"
    /\ ctx[at[q]].status = "none"
    /\ Free(q)
    /\ Goto(q, "answered")
    /\ UNCHANGED <<home, registered, built, ctx, lock, disk, kind, at, restarts, cut>>

\* Fault: phases completed since are not read back.
RehydratedLess(c) == [c EXCEPT !.passed = disk.passed]

\* Fault: passed gates are not read back.
RehydratedUngated(c) == [c EXCEPT !.done = disk.done]

Rehydrated(c) == [c EXCEPT !.done = disk.done, !.passed = disk.passed]

\* resume_run.
ResumeRun(q) ==
    LET c == ctx[at[q]]
        pausedAt == disk.gate # 0 /\ disk.gate \notin disk.passed
    IN  /\ pc[q] = "call"
        /\ kind[q] = "resume"
        /\ Free(q)
        /\ ctx' = [ctx EXCEPT ![at[q]] =
                     [Rehydrated(c) EXCEPT
                        !.status = CASE pausedAt -> "awaiting_approval"
                                     [] ~pausedAt /\ c.status = "none" -> "running"
                                     [] OTHER -> c.status,
                        !.gate = IF pausedAt THEN disk.gate ELSE c.gate]]
        /\ Goto(q, "register")
        /\ UNCHANGED <<home, registered, built, lock, disk, kind, at, restarts, cut>>

\* state.runs[run_id] = handle
Register(q) ==
    /\ pc[q] = "register"
    /\ registered' = at[q]
    /\ Goto(q, "drive")
    /\ UNCHANGED <<home, built, ctx, lock, disk, kind, at, restarts, cut>>

\* submit_approval, naming the gate the run is paused at; else 409.
Approve(q) ==
    LET c == ctx[at[q]]
        passed == c.passed \cup {c.gate}
    IN  /\ pc[q] = "call"
        /\ kind[q] = "approve"
        /\ c.status # "none"
        /\ Free(q)
        /\ IF c.status = "awaiting_approval"
           THEN /\ ctx' = [ctx EXCEPT ![at[q]] =
                              [c EXCEPT !.passed = passed, !.gate = 0,
                                        !.status = "running"]]
                /\ disk' = [disk EXCEPT !.passed = passed, !.gate = 0]
                /\ Goto(q, "drive")
           ELSE UNCHANGED <<ctx, disk>> /\ Goto(q, "answered")
        /\ UNCHANGED <<home, registered, built, lock, kind, at, restarts, cut>>

\* apply_override("stop").
Stop(q) ==
    /\ pc[q] = "call"
    /\ kind[q] = "stop"
    /\ ctx[at[q]].status # "none"
    /\ Free(q)
    /\ ctx' = [ctx EXCEPT ![at[q]].status = "stopped"]
    /\ Goto(q, "answered")
    /\ UNCHANGED <<home, registered, built, lock, disk, kind, at, restarts, cut>>

-----------------------------------------------------------------------------
\* Fault: run_until_pause goes on with what it was called for.
EnterRegardless(q) ==
    /\ \/ pc[q] = "drive"
       \/ pc[q] = "call" /\ kind[q] = "advance"
    /\ ctx[at[q]].status # "none"
    /\ Free(q)
    /\ Acquire(q) /\ Goto(q, "step")
    /\ UNCHANGED <<home, registered, built, ctx, disk, kind, at, restarts, cut>>

\* run_until_pause, or one step for an advance: takes the run's lock, and
\* returns at once from a run that is not running.
Enter(q) ==
    /\ \/ pc[q] = "drive"
       \/ pc[q] = "call" /\ kind[q] = "advance"
    /\ ctx[at[q]].status # "none"
    /\ Free(q)
    /\ IF ctx[at[q]].status = "running"
       THEN Acquire(q) /\ Goto(q, "step")
       ELSE UNCHANGED lock /\ Goto(q, "answered")
    /\ UNCHANGED <<home, registered, built, ctx, disk, kind, at, restarts, cut>>

\* step: dispatch the next phase, or find that there is none.
StepBegins(q) ==
    LET c == ctx[at[q]]
    IN  /\ pc[q] = "step"
        /\ IF c.done = Length
           THEN /\ ctx' = [ctx EXCEPT ![at[q]].status = "completed"]
                /\ Release(q)
                /\ Goto(q, "answered")
           ELSE UNCHANGED <<ctx, lock>> /\ Goto(q, "executing")
        /\ UNCHANGED <<home, registered, built, disk, kind, at, restarts, cut>>

\* The phase is completed: the first of a step's two saves.
PhaseCompletes(q) ==
    LET done == ctx[at[q]].done + 1
    IN  /\ pc[q] = "executing"
        /\ ctx' = [ctx EXCEPT ![at[q]].done = done]
        /\ disk' = [disk EXCEPT !.done = IF done > @ THEN done ELSE @]
        /\ Goto(q, "check")
        /\ UNCHANGED <<home, registered, built, lock, kind, at, restarts, cut>>

\* The gate after the phase that q completed has not been passed.
GateOpen(q) == ctx[at[q]].done \in Gated /\ ctx[at[q]].done \notin ctx[at[q]].passed

\* The gate is checked, and a pause is the second save.  Without one the loop
\* goes on, the lock still held; an advance returns.
GateChecked(q) ==
    LET done == ctx[at[q]].done
    IN  /\ pc[q] = "check"
        /\ IF GateOpen(q)
           THEN /\ ctx' = [ctx EXCEPT ![at[q]].status = "awaiting_approval",
                                      ![at[q]].gate = done]
                /\ disk' = [disk EXCEPT !.gate = done]
           ELSE UNCHANGED <<ctx, disk>>
        /\ IF GateOpen(q) \/ kind[q] = "advance"
           THEN Release(q) /\ Goto(q, "answered")
           ELSE UNCHANGED lock /\ Goto(q, "step")
        /\ UNCHANGED <<home, registered, built, kind, at, restarts, cut>>

\* The retries are used up.
PhaseEscalates(q) ==
    /\ pc[q] = "executing"
    /\ ctx' = [ctx EXCEPT ![at[q]].status = "escalated"]
    /\ Release(q)
    /\ Goto(q, "answered")
    /\ UNCHANGED <<home, registered, built, disk, kind, at, restarts, cut>>

-----------------------------------------------------------------------------
\* A request that has been sent is handled.
Handle(q) ==
    \/ Unknown(q)
    \/ ResumeRun(q)
    \/ Register(q)
    \/ Approve(q)
    \/ Stop(q)
    \/ Enter(q)
    \/ StepBegins(q)
    \/ PhaseCompletes(q)
    \/ GateChecked(q)
    \/ PhaseEscalates(q)

\* The server is stopped and started: requests under way are lost, those
\* between the two saves of a step among them.
Restart ==
    /\ restarts < MaxRestarts
    /\ restarts' = restarts + 1
    /\ cut' = cut \cup {ctx[at[q]].done :
                          q \in {r \in Requests : pc[r] = "check" /\ GateOpen(r)}}
    /\ registered' = Nobody
    /\ built' = 0
    /\ ctx' = [m \in Managers |-> NoContext]
    /\ lock' = [m \in Managers |-> Nobody]
    /\ pc' = [q \in Requests |-> IF pc[q] = "new" THEN "new" ELSE "answered"]
    /\ UNCHANGED <<home, disk, kind, at>>

Next ==
    \/ \E q \in Requests : Lookup(q) \/ LookupOrBuild(q) \/ Handle(q)
    \/ Restart

(***************************************************************************)
(* A thread of the pool runs on, and an executor returns.  The locks of    *)
(* Python are not fair; a request gets one in the end because the others   *)
(* that compete for it are finitely many.                                  *)
(***************************************************************************)
Fairness == \A q \in Requests : WF_vars(Handle(q))

Spec == Init /\ [][Next]_vars
FairSpec == Spec /\ Fairness

-----------------------------------------------------------------------------
\* Every variable has its type, and only a request in the middle of a step
\* holds a lock: that of its own manager.
TypeOK ==
    /\ home \in Homes
    /\ registered \in Managers \cup {Nobody}
    /\ built \in Managers
    /\ ctx \in [Managers ->
                  [status : {"none", "running", "awaiting_approval", "completed",
                             "escalated", "stopped"},
                   done : 0 .. Length, passed : SUBSET Gated, gate : Gated \cup {0},
                   profile : {"open", "restricted"}]]
    /\ lock \in [Managers -> Requests \cup {Nobody}]
    /\ disk \in [done : 0 .. Length, passed : SUBSET Gated, gate : Gated \cup {0}]
    /\ kind \in [Requests -> Kinds]
    /\ pc \in [Requests -> {"new", "call", "register", "drive", "step", "executing",
                            "check", "answered"}]
    /\ at \in [Requests -> Managers \cup {Nobody}]
    /\ restarts \in 0 .. MaxRestarts
    /\ cut \subseteq Gated
    /\ \A m \in Managers : lock[m] # Nobody =>
           at[lock[m]] = m /\ pc[lock[m]] \in {"step", "executing", "check"}

\* A run's phases are executed by one request at a time, whoever drives it
\* (the per-run lock of _RunContext).
SingleExecutor ==
    \A q, r \in Requests : pc[q] = "executing" /\ pc[r] = "executing" => q = r

\* SingleExecutor, of a run with only the default manager.
HomeSingleExecutor == home => SingleExecutor

(***************************************************************************)
(* What a client is told of a run at home is what a restart would find:    *)
(* the context that its requests reach is not behind the file.             *)
(***************************************************************************)
HomeIsCurrent ==
    home /\ registered # Nobody /\ ctx[registered].status # "none" =>
        /\ ctx[registered].done = disk.done
        /\ ctx[registered].passed = disk.passed

\* Once a stop is answered nothing runs in the manager it reached, though a
\* request that was about to drive the run waited for the lock with it.
StoppedIsIdle ==
    \A q \in Requests : pc[q] = "executing" => ctx[at[q]].status = "running"

(***************************************************************************)
(* No phase is executed behind a gate that was not passed, by any of the   *)
(* managers the run has had, even if two of them drive it at once: but for *)
(* a gate whose phase was saved as completed when a restart came before    *)
(* its pause was.                                                          *)
(***************************************************************************)
GatesHold ==
    \A q \in Requests : pc[q] = "executing" =>
        \A g \in Gated : g =< ctx[at[q]].done => g \in ctx[at[q]].passed \cup cut

\* GatesHold, of a run with only the default manager.
HomeGatesHold == home => GatesHold

(***************************************************************************)
(* The approval checkpoints are enforced (FR-OM-009): HomeGatesHold without *)
(* the restart between two saves as an excuse.                             *)
(***************************************************************************)
HomeGatesEnforced ==
    home => \A q \in Requests : pc[q] = "executing" =>
                \A g \in Gated : g =< ctx[at[q]].done => g \in ctx[at[q]].passed

\* Every request is answered: none waits for a lock for ever.
RequestsAnswered ==
    \A q \in Requests : pc[q] \notin {"new", "answered"} ~> pc[q] = "answered"

\* A client can interrupt the run at any time (FR-OM-003): while its stop
\* waits to be served no further phase is begun.
StopInterrupts ==
    [][(\E q \in Requests : kind[q] = "stop" /\ pc[q] = "call") =>
          \A r \in Requests : pc[r] = "step" => pc'[r] # "executing"]_vars

\* A resumed run continues (FR-OM-003), or waits at its gate, or has ended.
ResumeContinues ==
    [][\A q \in Requests :
          pc[q] = "call" /\ pc'[q] = "register" => ctx'[at[q]].status # "stopped"]_vars

\* The run's own security profile is the one its phases are dispatched with.
ProfileKept == \A m \in Managers : ctx[m].status # "none" => ctx[m].profile = "open"

=============================================================================
