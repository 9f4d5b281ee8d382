----------------------------- MODULE RetryLoop -----------------------------
(***************************************************************************)
(* Self-healing: the runs of one workspace, each dispatching a phase with  *)
(* retries (_dispatch_with_retries around dispatch_phase and the           *)
(* RetryController), and the failure record that every failure leaves      *)
(* under docs/failure_records (core/failure_record.py).                    *)
(*                                                                         *)
(* A run's lock is held from StepBegins until pc is "idle" again; clients  *)
(* act between two steps.  Different runs have different locks.  What the  *)
(* executor and the checks after it return is a choice.  A failure count   *)
(* above the budget is kept at Budget + 1: should_retry compares, so the   *)
(* next failure escalates whatever the count.                              *)
(***************************************************************************)
EXTENDS Naturals, FiniteSets

CONSTANTS
    Runs,                   \* the runs of the workspace
    maxRetriesPerPhase,     \* as configured: any natural is valid
    Slugs,                  \* what failure reasons are reduced to
    MaxFailures             \* bound: no step begins that could take a run's
                            \* failures beyond it

ASSUME RetryAssumption ==
    /\ IsFiniteSet(Runs)
    /\ maxRetriesPerPhase \in Nat
    /\ MaxFailures \in Nat

DEFAULT_MAX_RETRIES_PER_PHASE == 2

\* self._config.maxRetriesPerPhase or DEFAULT_MAX_RETRIES_PER_PHASE
Budget ==
    IF maxRetriesPerPhase = 0 THEN DEFAULT_MAX_RETRIES_PER_PHASE ELSE maxRetriesPerPhase

VARIABLES
    pc,             \* pc[r]: where r's loop is; "idle" between steps
    status,         \* status[r]: "running" or "escalated"
    failures,       \* failures[r]: RetryController._attempts of the phase
    seq,            \* seq[r]: the number of the record r is writing
    records,        \* the record files: name, and the failure described
    lost,           \* history: failures whose record could not be written
    total,          \* history: total[r]: failures of r
    before,         \* history: before[r]: failures when the step began
    dispatches      \* history: dispatches[r] in the step (bound: Budget + 2)

vars == <<pc, status, failures, seq, records, lost, total, before, dispatches>>

Init ==
    /\ pc = [r \in Runs |-> "idle"]
    /\ status = [r \in Runs |-> "running"]
    /\ failures = [r \in Runs |-> 0]
    /\ seq = [r \in Runs |-> 0]
    /\ records = {}
    /\ lost = {}
    /\ total = [r \in Runs |-> 0]
    /\ before = [r \in Runs |-> 0]
    /\ dispatches = [r \in Runs |-> 0]

Goto(r, label) == pc' = [pc EXCEPT ![r] = label]

-----------------------------------------------------------------------------
StepBegins(r) ==
    /\ pc[r] = "idle"
    /\ status[r] = "running"
    /\ total[r] + Budget < MaxFailures
    /\ Goto(r, "dispatch")
    /\ before' = [before EXCEPT ![r] = failures[r]]
    /\ dispatches' = [dispatches EXCEPT ![r] = 0]
    /\ UNCHANGED <<status, failures, seq, records, lost, total>>

\* executor.run: a failure or an exception, a unit, or the finished phase.
Dispatch(r) ==
    /\ pc[r] = "dispatch"
    /\ \E label \in {"failed", "idle", "checks"} : Goto(r, label)
    /\ dispatches' =
         [dispatches EXCEPT ![r] = IF @ > Budget + 1 THEN @ ELSE @ + 1]
    /\ UNCHANGED <<status, failures, seq, records, lost, total, before>>

\* Artifact validation, then drift; an exception is a failure too.
Checks(r) ==
    /\ pc[r] = "checks"
    /\ \/ Goto(r, "idle") /\ failures' = [failures EXCEPT ![r] = 0]
       \/ Goto(r, "failed") /\ UNCHANGED failures
    /\ UNCHANGED <<status, seq, records, lost, total, before, dispatches>>

\* _next_seq: one more than the records there are.
NextSeq == Cardinality({file.name : file \in records}) + 1

\* _handle_failure: count the failure, and start its record.
HandleFailure(r) ==
    /\ pc[r] = "failed"
    /\ failures' = [failures EXCEPT ![r] = IF @ > Budget THEN @ ELSE @ + 1]
    /\ total' = [total EXCEPT ![r] = @ + 1]
    /\ seq' = [seq EXCEPT ![r] = NextSeq]
    /\ Goto(r, "record")
    /\ UNCHANGED <<status, records, lost, before, dispatches>>

\* Fault: the budget counts dispatches, not retries.
ShouldRetryFewer(count) == count < Budget

ShouldRetry(count) == count =< Budget

\* The record done with: retry after the backoff, or escalate.
RetryOrEscalate(r) ==
    IF ShouldRetry(failures[r])
    THEN Goto(r, "backoff") /\ UNCHANGED status
    ELSE Goto(r, "idle") /\ status' = [status EXCEPT ![r] = "escalated"]

\* Fault: a record is named by its slug alone.
FileNameUnnumbered(r, slug) == <<1, slug>>

\* FR-<seq>-<slug>.md
FileName(r, slug) == <<seq[r], slug>>

\* write_fr: write_text replaces a file of the same name.
WriteRecord(r, slug) ==
    /\ pc[r] = "record"
    /\ records' = {file \in records : file.name # FileName(r, slug)}
         \cup {[name |-> FileName(r, slug), run |-> r, failure |-> total[r]]}
    /\ RetryOrEscalate(r)
    /\ UNCHANGED <<failures, seq, lost, total, before, dispatches>>

\* _write_failure_record swallows whatever write_fr raises.
RecordNotWritten(r) ==
    /\ pc[r] = "record"
    /\ lost' = lost \cup {<<r, total[r]>>}
    /\ RetryOrEscalate(r)
    /\ UNCHANGED <<failures, seq, records, total, before, dispatches>>

\* The wait before a retry, backoff_seconds(failures), is over.
Backoff(r) ==
    /\ pc[r] = "backoff"
    /\ Goto(r, "dispatch")
    /\ UNCHANGED <<status, failures, seq, records, lost, total, before, dispatches>>

Loop(r) ==
    \/ Dispatch(r)
    \/ Checks(r)
    \/ HandleFailure(r)
    \/ \E slug \in Slugs : WriteRecord(r, slug)
    \/ RecordNotWritten(r)
    \/ Backoff(r)

\* force-advance revives an escalated run and keeps the count.
ForceAdvance(r) ==
    /\ pc[r] = "idle"
    /\ status' = [status EXCEPT ![r] = "running"]
    /\ UNCHANGED <<pc, failures, seq, records, lost, total, before, dispatches>>

\* Rolling back to the phase, or upstream of it, forgets its failures.
Rollback(r) ==
    /\ pc[r] = "idle"
    /\ status' = [status EXCEPT ![r] = "running"]
    /\ failures' = [failures EXCEPT ![r] = 0]
    /\ UNCHANGED <<pc, seq, records, lost, total, before, dispatches>>

Next == \E r \in Runs : StepBegins(r) \/ Loop(r) \/ ForceAdvance(r) \/ Rollback(r)

\* The executor returns or raises, and the sleep ends.
Spec == Init /\ [][Next]_vars /\ \A r \in Runs : WF_vars(Loop(r))

-----------------------------------------------------------------------------
(***************************************************************************)
(* Every failure has its record once it is handled, unless writing it      *)
(* raised, whatever records are written later (FR-REC-001).                *)
(***************************************************************************)
EveryFailureRecorded ==
    \A r \in Runs : \A n \in 1 .. total[r] :
        \/ n = total[r] /\ pc[r] = "record"
        \/ <<r, n>> \in lost
        \/ \E file \in records : file.run = r /\ file.failure = n

(***************************************************************************)
(* Seen between steps, the loop does to a run's failure count what         *)
(* Supervisor.tla lets a step do.                                          *)
(***************************************************************************)
Outcome(r) == INSTANCE StepOutcome
                 WITH status <- status[r],
                      failures <- IF pc[r] = "idle" THEN failures[r] ELSE before[r]

ImplementsOutcome ==
    /\ \A r \in Runs : Outcome(r)!Init
    /\ [][\A r \in Runs : [Outcome(r)!Next]_(Outcome(r)!vars)]_vars

\* The configured number of retries is the number made (FR-SV-018).
RetriesAsConfigured == \A r \in Runs : dispatches[r] =< maxRetriesPerPhase + 1

=============================================================================
