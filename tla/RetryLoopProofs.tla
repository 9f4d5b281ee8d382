-------------------------- MODULE RetryLoopProofs ---------------------------
(***************************************************************************)
(* The retry loop, for any number of runs, retries and failures: seen      *)
(* between steps it does to a run's failure count what the supervisor      *)
(* lets a step do, and in a workspace with one run every failure keeps its *)
(* record.  The invariant says how far the count may have come at each     *)
(* point of the loop, and that the number of the record under way is above *)
(* those of all the files there are.                                       *)
(***************************************************************************)
EXTENDS RetryLoop, FiniteSetTheorems, TLAPS

Typed ==
    /\ pc \in [Runs -> {"idle", "dispatch", "checks", "failed", "record", "backoff"}]
    /\ status \in [Runs -> {"running", "escalated"}]
    /\ failures \in [Runs -> 0 .. Budget + 1]
    /\ before \in [Runs -> 0 .. Budget + 1]
    /\ total \in [Runs -> Nat]
    /\ seq = [r \in Runs |-> seq[r]]

\* Failures of the step, within the budget.
Retried(r) == before[r] < failures[r] /\ failures[r] =< Budget

\* What the count may be, where the loop is; only a running run is in the loop.
CountOK ==
    \A r \in Runs :
        /\ pc[r] # "idle" => status[r] = "running"
        /\ pc[r] \in {"dispatch", "checks", "failed"} => failures[r] = before[r] \/ Retried(r)
        /\ pc[r] = "record" => failures[r] = Budget + 1 \/ Retried(r)
        /\ pc[r] = "backoff" => Retried(r)

CountInv == Typed /\ CountOK

-----------------------------------------------------------------------------
\* The budget is a number, also when none is configured.
LEMMA BudgetType == Budget \in Nat
  BY RetryAssumption DEF Budget, DEFAULT_MAX_RETRIES_PER_PHASE

\* A new run has no failures.
LEMMA InitCount == Init => CountInv
  BY BudgetType DEF Init, CountInv, Typed, CountOK

\* A step of one run leaves the others where they are.
LEMMA OthersUntouched ==
    ASSUME Typed, NEW r \in Runs, NEW q \in Runs, q # r,
           StepBegins(r) \/ Loop(r) \/ ForceAdvance(r) \/ Rollback(r)
    PROVE  /\ pc'[q] = pc[q] /\ status'[q] = status[q] /\ failures'[q] = failures[q]
           /\ before'[q] = before[q] /\ total'[q] = total[q] /\ seq'[q] = seq[q]
  <1> USE DEF Typed, Goto
  <1>1. CASE StepBegins(r)
    BY <1>1 DEF StepBegins
  <1>2. CASE Dispatch(r)
    BY <1>2 DEF Dispatch
  <1>3. CASE Checks(r)
    BY <1>3 DEF Checks
  <1>4. CASE HandleFailure(r)
    BY <1>4 DEF HandleFailure
  <1>5. CASE RecordNotWritten(r) \/ \E slug \in Slugs : WriteRecord(r, slug)
    BY <1>5 DEF RecordNotWritten, WriteRecord, RetryOrEscalate
  <1>6. CASE Backoff(r) \/ ForceAdvance(r) \/ Rollback(r)
    BY <1>6 DEF Backoff, ForceAdvance, Rollback
  <1> QED BY <1>1, <1>2, <1>3, <1>4, <1>5, <1>6 DEF Loop

\* What a step of a run does to it, point by point of the loop.
StepOf(r) ==
    \/ /\ pc[r] = "idle" /\ pc'[r] = "dispatch" /\ status[r] = "running"
       /\ before'[r] = failures[r]
       /\ failures'[r] = failures[r] /\ status'[r] = status[r]
    \/ /\ pc[r] = "dispatch" /\ pc'[r] \in {"failed", "idle", "checks"}
       /\ before'[r] = before[r]
       /\ failures'[r] = failures[r] /\ status'[r] = status[r]
    \/ /\ pc[r] = "checks" /\ pc'[r] = "failed"
       /\ before'[r] = before[r]
       /\ failures'[r] = failures[r] /\ status'[r] = status[r]
    \/ /\ pc[r] = "checks" /\ pc'[r] = "idle" /\ failures'[r] = 0
       /\ before'[r] = before[r] /\ status'[r] = status[r]
    \/ /\ pc[r] = "failed" /\ pc'[r] = "record"
       /\ failures'[r] = IF failures[r] > Budget THEN failures[r] ELSE failures[r] + 1
       /\ before'[r] = before[r] /\ status'[r] = status[r]
    \/ /\ pc[r] = "record" /\ failures[r] =< Budget /\ pc'[r] = "backoff"
       /\ before'[r] = before[r]
       /\ failures'[r] = failures[r] /\ status'[r] = status[r]
    \/ /\ pc[r] = "record" /\ failures[r] > Budget
       /\ pc'[r] = "idle" /\ status'[r] = "escalated"
       /\ before'[r] = before[r] /\ failures'[r] = failures[r]
    \/ /\ pc[r] = "backoff" /\ pc'[r] = "dispatch"
       /\ before'[r] = before[r]
       /\ failures'[r] = failures[r] /\ status'[r] = status[r]
    \/ /\ pc[r] = "idle" /\ pc'[r] = "idle" /\ status'[r] = "running"
       /\ before'[r] = before[r] /\ failures'[r] \in {failures[r], 0}

\* Every step keeps the types.
LEMMA StepTyped ==
    ASSUME Typed, NEW r \in Runs, StepBegins(r) \/ Loop(r) \/ ForceAdvance(r) \/ Rollback(r)
    PROVE  Typed'
  <1> USE BudgetType DEF Typed, Goto
  <1>1. CASE StepBegins(r)
    BY <1>1 DEF StepBegins
  <1>2. CASE Dispatch(r)
    BY <1>2 DEF Dispatch
  <1>3. CASE Checks(r)
    BY <1>3 DEF Checks
  <1>4. CASE HandleFailure(r)
    <2>1. /\ pc' = [pc EXCEPT ![r] = "record"] /\ total' = [total EXCEPT ![r] = @ + 1]
          /\ failures' = [failures EXCEPT ![r] = IF @ > Budget THEN @ ELSE @ + 1]
          /\ seq' = [seq EXCEPT ![r] = NextSeq] /\ UNCHANGED <<status, before>>
      BY <1>4 DEF HandleFailure
    <2>2. (IF failures[r] > Budget THEN failures[r] ELSE failures[r] + 1) \in 0 .. Budget + 1
      OBVIOUS
    <2>3. failures' \in [Runs -> 0 .. Budget + 1]
      BY <2>1, <2>2
    <2>4. total' \in [Runs -> Nat]
      BY <2>1
    <2>5. /\ pc' \in [Runs -> {"idle", "dispatch", "checks", "failed", "record", "backoff"}]
          /\ seq' = [q \in Runs |-> seq'[q]]
      BY <2>1
    <2> QED BY <2>1, <2>3, <2>4, <2>5
  <1>5. CASE RecordNotWritten(r) \/ \E slug \in Slugs : WriteRecord(r, slug)
    BY <1>5 DEF RecordNotWritten, WriteRecord, RetryOrEscalate
  <1>6. CASE Backoff(r) \/ ForceAdvance(r) \/ Rollback(r)
    BY <1>6 DEF Backoff, ForceAdvance, Rollback
  <1> QED BY <1>1, <1>2, <1>3, <1>4, <1>5, <1>6 DEF Loop

\* What a step does to the count, by where the loop is.
LEMMA StepEffect ==
    ASSUME Typed, NEW r \in Runs, StepBegins(r) \/ Loop(r) \/ ForceAdvance(r) \/ Rollback(r)
    PROVE  StepOf(r)
  <1> USE DEF Typed, Goto
  <1>1. CASE StepBegins(r)
    BY <1>1 DEF StepBegins, StepOf
  <1>2. CASE Dispatch(r)
    BY <1>2 DEF Dispatch, StepOf
  <1>3. CASE Checks(r)
    BY <1>3 DEF Checks, StepOf
  <1>4. CASE HandleFailure(r)
    BY <1>4 DEF HandleFailure, StepOf
  <1>5. CASE RecordNotWritten(r) \/ \E slug \in Slugs : WriteRecord(r, slug)
    BY <1>5, BudgetType DEF RecordNotWritten, WriteRecord, RetryOrEscalate, ShouldRetry, StepOf
  <1>6. CASE Backoff(r)
    BY <1>6 DEF Backoff, StepOf
  <1>7. CASE ForceAdvance(r) \/ Rollback(r)
    BY <1>7 DEF ForceAdvance, Rollback, StepOf
  <1> QED BY <1>1, <1>2, <1>3, <1>4, <1>5, <1>6, <1>7 DEF Loop

\* Every step keeps the count within what the loop has seen.
LEMMA NextCount == CountInv /\ [Next]_vars => CountInv'
  <1>1. CountInv /\ UNCHANGED vars => CountInv'
    BY DEF vars, CountInv, Typed, CountOK, Retried
  <1>2. ASSUME CountInv, NEW r \in Runs,
               StepBegins(r) \/ Loop(r) \/ ForceAdvance(r) \/ Rollback(r)
        PROVE  CountInv'
    <2>1. Typed'
      BY <1>2, StepTyped DEF CountInv
    <2>2. ASSUME NEW q \in Runs
          PROVE  /\ pc'[q] # "idle" => status'[q] = "running"
                 /\ pc'[q] \in {"dispatch", "checks", "failed"}
                        => failures'[q] = before'[q] \/ Retried(q)'
                 /\ pc'[q] = "record" => failures'[q] = Budget + 1 \/ Retried(q)'
                 /\ pc'[q] = "backoff" => Retried(q)'
      <3>1. CASE q = r
        <4>1. StepOf(q)
          BY <1>2, <3>1, StepEffect DEF CountInv
        <4>2. failures[q] \in 0 .. Budget + 1 /\ before[q] \in 0 .. Budget + 1
          BY <1>2 DEF CountInv, Typed
        <4> QED BY <1>2, <4>1, <4>2, BudgetType DEF CountInv, CountOK, StepOf, Retried
      <3>2. CASE q # r
        BY <1>2, <3>2, OthersUntouched DEF CountInv, CountOK, Retried
      <3> QED BY <3>1, <3>2
    <2> QED BY <2>1, <2>2 DEF CountInv, CountOK
  <1> QED BY <1>1, <1>2 DEF Next

\* The count is an invariant.
LEMMA CountInvariance == Spec => []CountInv
  BY InitCount, NextCount, PTL DEF Spec

-----------------------------------------------------------------------------
(***************************************************************************)
(* The records.                                                            *)
(***************************************************************************)
Names == {file.name : file \in records}

OneRun == \A r, q \in Runs : r = q

\* No record has a number above how many there are, so the next one is new.
NumbersOK ==
    /\ IsFiniteSet(Names)
    /\ \A file \in records : file.name[1] \in Nat /\ file.name[1] =< Cardinality(Names)
    /\ \A r \in Runs : pc[r] = "record" => seq[r] = NextSeq

RecordInv == CountInv /\ NumbersOK /\ EveryFailureRecorded

\* The next number is one more than there are files.
LEMMA NextSeqIsNumber == IsFiniteSet(Names) => NextSeq = Cardinality(Names) + 1 /\ NextSeq \in Nat
  BY FS_CardinalityType DEF NextSeq, Names

\* A new workspace has no records.
LEMMA InitRecord == Init => RecordInv
  <1> SUFFICES ASSUME Init PROVE RecordInv
    OBVIOUS
  <1>1. records = {} /\ Names = {}
    BY DEF Init, Names
  <1>2. NumbersOK
    BY <1>1, FS_EmptySet DEF Init, NumbersOK
  <1>3. EveryFailureRecorded
    BY DEF Init, EveryFailureRecorded
  <1> QED BY <1>2, <1>3, InitCount DEF RecordInv

\* What leaves the records alone and counts no failure.
LEMMA RecordsUntouched ==
    ASSUME RecordInv, CountInv', UNCHANGED <<records, lost, total, seq>>,
           \A r \in Runs : pc'[r] = "record" <=> pc[r] = "record"
    PROVE  RecordInv'
  <1>1. records' = records /\ lost' = lost /\ total' = total /\ seq' = seq
    OBVIOUS
  <1>2. Names' = Names /\ NextSeq' = NextSeq
    BY <1>1 DEF Names, NextSeq
  <1>3. NumbersOK'
    BY <1>1, <1>2 DEF RecordInv, NumbersOK
  <1>4. EveryFailureRecorded'
    <2> SUFFICES ASSUME NEW r \in Runs, NEW n \in 1 .. total'[r]
                 PROVE  \/ n = total'[r] /\ pc'[r] = "record"
                        \/ <<r, n>> \in lost'
                        \/ \E file \in records' : file.run = r /\ file.failure = n
      BY Zenon DEF EveryFailureRecorded
    <2>1. \/ n = total[r] /\ pc[r] = "record"
          \/ <<r, n>> \in lost
          \/ \E file \in records : file.run = r /\ file.failure = n
      BY <1>1, Zenon DEF RecordInv, EveryFailureRecorded
    <2> QED BY <1>1, <2>1, Zenon
  <1> QED BY <1>3, <1>4 DEF RecordInv

\* A failure is counted, and the number of its record read off the files.
LEMMA HandleRecord ==
    ASSUME RecordInv, CountInv', OneRun, NEW r \in Runs, HandleFailure(r)
    PROVE  RecordInv'
  <1>1. /\ pc[r] = "failed" /\ pc' = [pc EXCEPT ![r] = "record"]
        /\ total' = [total EXCEPT ![r] = @ + 1] /\ seq' = [seq EXCEPT ![r] = NextSeq]
        /\ UNCHANGED <<records, lost>>
    BY DEF HandleFailure, Goto
  <1>2. Names' = Names /\ NextSeq' = NextSeq
    BY <1>1 DEF Names, NextSeq
  <1>3. NumbersOK'
    BY <1>1, <1>2 DEF RecordInv, NumbersOK, OneRun, CountInv, Typed
  <1>4. \A q \in Runs : q = r
    BY DEF OneRun
  <1>5. total[r] \in Nat /\ total'[r] = total[r] + 1 /\ pc'[r] = "record"
    BY <1>1 DEF RecordInv, CountInv, Typed
  <1>6. \A n \in 1 .. total[r] :
            <<r, n>> \in lost \/ \E file \in records : file.run = r /\ file.failure = n
    BY <1>1 DEF RecordInv, EveryFailureRecorded
  <1>7. EveryFailureRecorded'
    <2>1. \A n \in 1 .. total'[r] : n = total'[r] \/ n \in 1 .. total[r]
      BY <1>5
    <2> QED BY <1>1, <1>4, <1>5, <1>6, <2>1 DEF EveryFailureRecorded
  <1> QED BY <1>3, <1>7 DEF RecordInv

\* A record is written under a name that no file has.
LEMMA WriteRecordInv ==
    ASSUME RecordInv, CountInv', OneRun, NEW r \in Runs, NEW slug \in Slugs, WriteRecord(r, slug)
    PROVE  RecordInv'
  <1> DEFINE name == FileName(r, slug)
             new == [name |-> name, run |-> r, failure |-> total[r]]
  <1>1. /\ pc[r] = "record" /\ pc'[r] # "record"
        /\ records' = {file \in records : file.name # name} \cup {new}
        /\ UNCHANGED <<total, lost>>
    BY DEF WriteRecord, RetryOrEscalate, Goto, RecordInv, CountInv, Typed
  <1>2. \A q \in Runs : q = r
    BY DEF OneRun
  <1>3. /\ IsFiniteSet(Names) /\ name[1] = Cardinality(Names) + 1 /\ Cardinality(Names) \in Nat
    BY <1>1, NextSeqIsNumber, FS_CardinalityType DEF RecordInv, NumbersOK, FileName
  <1>4. name \notin Names
    BY <1>3 DEF RecordInv, NumbersOK, Names
  <1>5. records' = records \cup {new}
    BY <1>1, <1>4 DEF Names
  <1>6. Names' = Names \cup {name}
    <2>1. new.name = name
      OBVIOUS
    <2> HIDE DEF new, name
    <2> QED BY <1>5, <2>1 DEF Names
  <1>7. IsFiniteSet(Names') /\ Cardinality(Names') = Cardinality(Names) + 1
    BY <1>3, <1>4, <1>6, FS_AddElement
  <1>8. NumbersOK'
    BY <1>1, <1>2, <1>3, <1>5, <1>7 DEF RecordInv, NumbersOK
  <1>9. EveryFailureRecorded'
    <2>1. new.run = r /\ new.failure = total[r] /\ new \in records' /\ records \subseteq records'
      BY <1>5
    <2> HIDE DEF new
    <2>2. ASSUME NEW n \in 1 .. total[r]
          PROVE  <<r, n>> \in lost \/ \E file \in records' : file.run = r /\ file.failure = n
      <3>1. CASE n = total[r]
        BY <2>1, <3>1
      <3>2. CASE n # total[r]
        BY <2>1, <3>2 DEF RecordInv, EveryFailureRecorded
      <3> QED BY <3>1, <3>2
    <2> QED BY <1>1, <1>2, <2>2 DEF EveryFailureRecorded
  <1> QED BY <1>8, <1>9 DEF RecordInv

\* Writing it raised.
LEMMA NotWrittenInv ==
    ASSUME RecordInv, CountInv', OneRun, NEW r \in Runs, RecordNotWritten(r)
    PROVE  RecordInv'
  <1>1. /\ pc[r] = "record" /\ pc'[r] # "record"
        /\ lost' = lost \cup {<<r, total[r]>>}
        /\ UNCHANGED <<records, total>>
    BY DEF RecordNotWritten, RetryOrEscalate, Goto, RecordInv, CountInv, Typed
  <1>2. \A q \in Runs : q = r
    BY DEF OneRun
  <1>3. NumbersOK'
    BY <1>1, <1>2 DEF RecordInv, NumbersOK, Names
  <1>4. EveryFailureRecorded'
    <2>1. ASSUME NEW n \in 1 .. total[r]
          PROVE  <<r, n>> \in lost' \/ \E file \in records : file.run = r /\ file.failure = n
      <3>1. CASE n = total[r]
        BY <1>1, <3>1
      <3>2. CASE n # total[r]
        BY <1>1, <3>2 DEF RecordInv, EveryFailureRecorded
      <3> QED BY <3>1, <3>2
    <2> QED BY <1>1, <1>2, <2>1 DEF EveryFailureRecorded
  <1> QED BY <1>3, <1>4 DEF RecordInv

\* With one run, every step keeps numbers of records apart.
LEMMA NextRecord == OneRun /\ RecordInv /\ [Next]_vars => RecordInv'
  <1> SUFFICES ASSUME OneRun, RecordInv, [Next]_vars PROVE RecordInv'
    OBVIOUS
  <1>1. CountInv'
    BY NextCount DEF RecordInv
  <1>2. CASE UNCHANGED vars
    BY <1>1, <1>2, RecordsUntouched DEF vars
  <1>3. ASSUME NEW r \in Runs, StepBegins(r) \/ Loop(r) \/ ForceAdvance(r) \/ Rollback(r)
        PROVE  RecordInv'
    <2> USE DEF Goto, RecordInv, CountInv, Typed
    <2>1. CASE StepBegins(r)
      BY <1>1, <2>1, RecordsUntouched DEF StepBegins
    <2>2. CASE Dispatch(r)
      BY <1>1, <2>2, RecordsUntouched DEF Dispatch
    <2>3. CASE Checks(r)
      BY <1>1, <2>3, RecordsUntouched DEF Checks
    <2>4. CASE HandleFailure(r) \/ RecordNotWritten(r) \/ \E slug \in Slugs : WriteRecord(r, slug)
      BY <1>1, <2>4, HandleRecord, NotWrittenInv, WriteRecordInv
    <2>5. CASE Backoff(r) \/ ForceAdvance(r) \/ Rollback(r)
      BY <1>1, <2>5, RecordsUntouched DEF Backoff, ForceAdvance, Rollback
    <2> QED BY <1>3, <2>1, <2>2, <2>3, <2>4, <2>5 DEF Loop
  <1> QED BY <1>2, <1>3 DEF Next

-----------------------------------------------------------------------------
\* In a workspace with one run every failure has its record once it is handled,
\* unless writing it raised: no later record takes its name, however many
\* retries, rollbacks and force-advances there are (FR-REC-001).  Two runs may
\* number their records alike: Finding_retries.cfg.
THEOREM FailuresOnRecord ==
    ASSUME OneRun
    PROVE  Spec => []EveryFailureRecorded
  <1>1. RecordInv => EveryFailureRecorded
    BY DEF RecordInv
  <1> QED BY <1>1, InitRecord, NextRecord, PTL DEF Spec

\* Seen between steps, the loop does to each run's failure count what the
\* supervisor lets a step do, for any number of runs and any budget
\* (development_manager.py, _dispatch_with_retries).
THEOREM LoopImplementsOutcome == Spec => ImplementsOutcome
  <1>1. Init => \A r \in Runs : Outcome(r)!Init
    BY DEF Init, Outcome!Init
  <1>2. CountInv /\ [Next]_vars => [\A r \in Runs : [Outcome(r)!Next]_(Outcome(r)!vars)]_vars
    <2> SUFFICES ASSUME CountInv, Next, NEW q \in Runs
                 PROVE  Outcome(q)!Next \/ UNCHANGED Outcome(q)!vars
      OBVIOUS
    <2>1. PICK r \in Runs : StepBegins(r) \/ Loop(r) \/ ForceAdvance(r) \/ Rollback(r)
      BY DEF Next
    <2>2. CASE q # r
      BY <2>1, <2>2, OthersUntouched DEF CountInv, Outcome!vars
    <2>3. CASE q = r
      <3>1. StepOf(q)
        BY <2>1, <2>3, StepEffect DEF CountInv
      <3>2. failures[q] \in 0 .. Budget + 1 /\ before[q] \in 0 .. Budget + 1
        BY DEF CountInv, Typed
      <3> QED
        BY <3>1, <3>2, BudgetType DEF CountInv, CountOK, Retried, StepOf, Outcome!vars,
           Outcome!Next, Outcome!PhaseSucceeds, Outcome!UnitCompletes, Outcome!PhaseEscalates,
           Outcome!ForceAdvance, Outcome!Rollback
    <2> QED BY <2>2, <2>3
  <1> QED BY <1>1, <1>2, CountInvariance, PTL DEF Spec, ImplementsOutcome

=============================================================================
