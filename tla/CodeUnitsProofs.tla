--------------------------- MODULE CodeUnitsProofs ---------------------------
(***************************************************************************)
(* For every number of files, every bound on the rounds and every          *)
(* configuration: the implementation phase completes on verified code      *)
(* only, tests run without a network, no pass leaves a container that      *)
(* docker names and removes as asked, recorded units are kept, and the     *)
(* supervisor sees the units it expects.                                   *)
(***************************************************************************)
EXTENDS CodeUnits, FiniteSetTheorems, TLAPS

\* The places of the verification pass.
Verifying == {"smoke", "repair", "prepare", "start", "setup", "copy", "test", "decide",
              "localize", "close"}

(***************************************************************************)
(* Where a container may be, and with which network; and that only what    *)
(* docker did not do or say, or a death of the process, leaves one.        *)
(***************************************************************************)
BoxOK ==
    /\ pc \in {"start", "setup", "copy"} => config.command = "docker"
    /\ config.command # "docker" => box = NoBox
    /\ box.net = "none" => box = NoBox
    /\ box.net = "online" => pc \in {"setup", "close"}
    /\ pc \in {"copy", "test"} /\ config.command = "docker" => box.net = "offline"
    /\ pc \notin Verifying \ {"start"} => box = NoBox
    /\ obeyed => left = {}

(***************************************************************************)
(* A pass that is about to succeed has seen the tests pass on the code as  *)
(* it is; a pass that goes on repairing has not.                           *)
(***************************************************************************)
VerifiedOK ==
    /\ completed => pc = "idle" /\ (Tested => Sound) /\ ~Violates
    /\ Passed => pc \notin Verifying \ {"decide", "close"}
    /\ Passed /\ pc \in {"decide", "close"} => Sound
    /\ pc = "validate" /\ Tested => Sound

\* On the host a round starts without a report.
ReportOK ==
    config.command = "local" =>
        /\ pc = "test" => report = "none"
        /\ pc \in {"decide", "localize"} /\ ~config.pinned => report # "old"

(***************************************************************************)
(* What is recorded, where a dispatch is: the verification pass follows    *)
(* the last unit, and without tests the last file is never a unit.         *)
(***************************************************************************)
UnitsOK ==
    /\ ~config.listed => recorded = {}
    /\ config.listed /\ ~Tested => Remaining # {}
    /\ pc = "generate" => config.listed
    /\ pc = "single" => ~config.listed
    /\ pc \in {"generate", "record", "single"} => job.todo = {} /\ job.run = "none"
    /\ pc = "record" =>
           config.listed /\ \E f \in Remaining : job.artifacts = {f} /\ ~EndsPhase(f)
    /\ pc \in Verifying => Tested /\ (config.listed => recorded = Files)
    /\ pc = "validate" /\ config.listed =>
           IF Tested THEN recorded = Files ELSE \E f \in Files : Remaining = {f}

IInv == TypeOK /\ BoxOK /\ VerifiedOK /\ ReportOK /\ UnitsOK

-----------------------------------------------------------------------------
\* A plan has files.
LEMMA FilesNonEmpty == Files # {} /\ IsFiniteSet(Files) /\ Cardinality(Files) = N
  <1>1. 1 \in Files
    BY UnitsAssumption DEF Files
  <1>2. IsFiniteSet(Files) /\ Cardinality(Files) = N
    BY FS_Interval, UnitsAssumption DEF Files
  <1> QED BY <1>1, <1>2

\* A run just started has no unit, no container and no report.
LEMMA InitIInv == Init => IInv
  <1> SUFFICES ASSUME Init PROVE IInv
    OBVIOUS
  <1>1. TypeOK
    <2>1. job \in [artifacts : SUBSET Files, todo : SUBSET Files,
                   rounds : 0 .. MaxRounds, run : Runs]
      BY UnitsAssumption DEF Init, NoJob, Runs
    <2>2. code \in [Files -> Written \cup {"absent"}]
      BY DEF Init
    <2> QED BY <2>1, <2>2 DEF Init, TypeOK, NoJob, NoBox, Reports
  <1>2. BoxOK /\ VerifiedOK /\ ReportOK
    BY DEF Init, BoxOK, VerifiedOK, ReportOK, Passed, NoJob, NoBox, Verifying
  <1>3. UnitsOK
    BY FilesNonEmpty DEF Init, UnitsOK, Remaining, Verifying
  <1> QED BY <1>1, <1>2, <1>3 DEF IInv

\* What nobody will remove is noted, with its network.
LEMMA Abandoned ==
  TypeOK /\ BoxOK /\ AbandonBox =>
      /\ box' = NoBox /\ left' \subseteq {"online", "offline"} /\ obeyed' \in BOOLEAN
      /\ obeyed' => left' = {}
  <1> SUFFICES ASSUME TypeOK, BoxOK, AbandonBox
               PROVE  /\ box' = NoBox /\ left' \subseteq {"online", "offline"}
                      /\ obeyed' \in BOOLEAN
                      /\ obeyed' => left' = {}
    OBVIOUS
  <1>1. CASE box = NoBox
    BY <1>1 DEF TypeOK, BoxOK, AbandonBox, NoBox
  <1>2. CASE box # NoBox
    BY <1>2 DEF TypeOK, BoxOK, AbandonBox
  <1> QED BY <1>1, <1>2

\* However a pass is closed, the executor knows no container afterwards.
LEMMA Closed ==
  TypeOK /\ BoxOK /\ Close =>
      /\ pc' \in {"idle", "validate"}
      /\ box' = NoBox /\ left' \subseteq {"online", "offline"} /\ obeyed' \in BOOLEAN
      /\ obeyed' => left' = {}
      /\ UNCHANGED <<config, code, recorded, completed, job, report>>
  <1> SUFFICES ASSUME TypeOK, BoxOK, Close
               PROVE  /\ pc' \in {"idle", "validate"}
                      /\ box' = NoBox /\ left' \subseteq {"online", "offline"}
                      /\ obeyed' \in BOOLEAN
                      /\ obeyed' => left' = {}
                      /\ UNCHANGED <<config, code, recorded, completed, job, report>>
    OBVIOUS
  <1>1. /\ pc' \in {"idle", "validate"}
        /\ UNCHANGED <<config, code, recorded, completed, job, report>>
    BY DEF Close
  <1>2. CASE AbandonBox
    BY <1>1, <1>2, Abandoned
  <1>3. CASE ~AbandonBox
    <2>1. box' = NoBox /\ left' = left /\ obeyed' = obeyed
      BY <1>3 DEF Close, RemoveBox
    <2> QED BY <1>1, <2>1 DEF TypeOK, BoxOK
  <1> QED BY <1>2, <1>3

\* So is what was started and not heard of.
LEMMA Unheard ==
  TypeOK /\ StartUnheard =>
      box' = box /\ left' \subseteq {"online", "offline"} /\ obeyed' = FALSE
  BY DEF TypeOK, StartUnheard, Started, NoBox

\* Every step keeps the variables in their types.
LEMMA NextTyped == IInv /\ [Next]_vars => TypeOK'
  <1> SUFFICES ASSUME IInv, [Next]_vars PROVE TypeOK'
    OBVIOUS
  <1> USE DEF IInv, TypeOK, Written, Reports, Runs, boxes
  <1>1. CASE Dispatch BY <1>1, UnitsAssumption DEF Dispatch, NoJob
  <1>2. CASE Generate
    <2>1. code' \in [Files -> Written \cup {"absent"}]
      BY <1>2 DEF Generate
    <2>2. /\ job' \in [artifacts : SUBSET Files, todo : SUBSET Files,
                       rounds : 0 .. MaxRounds, run : Runs]
          /\ job'.todo \subseteq job'.artifacts
      BY <1>2 DEF Generate, UnitsOK
    <2> QED BY <1>2, <2>1, <2>2 DEF Generate
  <1>3. CASE Record BY <1>3 DEF Record
  <1>4. CASE Single
    <2>1. code' \in [Files -> Written \cup {"absent"}]
      BY <1>4 DEF Single
    <2>2. /\ job' \in [artifacts : SUBSET Files, todo : SUBSET Files,
                       rounds : 0 .. MaxRounds, run : Runs]
          /\ job'.todo \subseteq job'.artifacts
      BY <1>4 DEF Single, UnitsOK
    <2> QED BY <1>4, <2>1, <2>2 DEF Single
  <1>5. CASE Smoke BY <1>5 DEF Smoke
  <1>6. CASE Repair BY <1>6 DEF Repair
  <1>7. CASE RepairEnds BY <1>7 DEF RepairEnds, Aged
  <1>8. CASE Prepare BY <1>8 DEF Prepare, UnlinkReport
  <1>9. CASE StartBox BY <1>9, Unheard DEF StartBox, Started, NoBox
  <1>10. CASE SetupBox BY <1>10 DEF SetupBox
  <1>11. CASE CopyIn BY <1>11 DEF CopyIn, Aged
  <1>12. CASE TestsExit BY <1>12 DEF TestsExit
  <1>13. CASE TestsTimeOut BY <1>13, Abandoned DEF TestsTimeOut, RemoveBox, NoBox
  <1>14. CASE Decide BY <1>14, UnitsAssumption DEF Decide, RoundsLeft, Counted
  <1>15. CASE Localize BY <1>15 DEF Localize, Implicated
  <1>16. CASE Close BY <1>16, Closed DEF NoBox
  <1>17. CASE Validate BY <1>17 DEF Validate
  <1>18. CASE Rollback BY <1>18 DEF Rollback
  <1>19. CASE Crash
    <2>1. /\ pc' = "idle" /\ job' = NoJob /\ report' = Aged(report)
          /\ UNCHANGED <<config, code, recorded, completed>>
      BY <1>19 DEF Crash
    <2>2. box' \in {box, NoBox} /\ left' \subseteq {"online", "offline"} /\ obeyed' \in BOOLEAN
      BY <1>19, Abandoned, Unheard DEF Crash
    <2> QED BY <2>1, <2>2, UnitsAssumption DEF NoJob, NoBox, Aged
  <1>20. CASE UNCHANGED vars BY <1>20 DEF vars
  <1>21. CASE DockerGone BY <1>21 DEF DockerGone
  <1> QED
    BY <1>1, <1>2, <1>3, <1>4, <1>5, <1>6, <1>7, <1>8, <1>9, <1>10, <1>11, <1>12, <1>13,
       <1>14, <1>15, <1>16, <1>17, <1>18, <1>19, <1>20, <1>21 DEF Next, Pass

\* Every step keeps the container where it may be.
LEMMA NextBox == IInv /\ [Next]_vars => BoxOK'
  <1> SUFFICES ASSUME IInv, [Next]_vars PROVE BoxOK'
    OBVIOUS
  <1> USE DEF IInv, TypeOK, BoxOK, Verifying, NoBox, boxes
  <1>1. CASE Dispatch BY <1>1 DEF Dispatch
  <1>2. CASE Generate BY <1>2 DEF Generate
  <1>3. CASE Record BY <1>3 DEF Record
  <1>4. CASE Single BY <1>4 DEF Single
  <1>5. CASE Smoke BY <1>5 DEF Smoke
  <1>6. CASE Repair BY <1>6 DEF Repair
  <1>7. CASE RepairEnds BY <1>7 DEF RepairEnds
  <1>8. CASE Prepare BY <1>8 DEF Prepare
  <1>9. CASE StartBox BY <1>9, Unheard DEF StartBox, Started
  <1>10. CASE SetupBox BY <1>10 DEF SetupBox
  <1>11. CASE CopyIn BY <1>11 DEF CopyIn
  <1>12. CASE TestsExit BY <1>12 DEF TestsExit
  <1>13. CASE TestsTimeOut BY <1>13, Abandoned DEF TestsTimeOut, RemoveBox
  <1>14. CASE Decide BY <1>14 DEF Decide
  <1>15. CASE Localize BY <1>15 DEF Localize, Implicated
  <1>16. CASE Close BY <1>16, Closed
  <1>17. CASE Validate BY <1>17 DEF Validate
  <1>18. CASE Rollback BY <1>18 DEF Rollback
  <1>19. CASE Crash BY <1>19, Abandoned, Unheard DEF Crash
  <1>20. CASE UNCHANGED vars BY <1>20 DEF vars
  <1>21. CASE DockerGone BY <1>21 DEF DockerGone
  <1> QED
    BY <1>1, <1>2, <1>3, <1>4, <1>5, <1>6, <1>7, <1>8, <1>9, <1>10, <1>11, <1>12, <1>13,
       <1>14, <1>15, <1>16, <1>17, <1>18, <1>19, <1>20, <1>21 DEF Next, Pass

\* Every step keeps the host's report that of the round.
LEMMA NextReport == IInv /\ [Next]_vars => ReportOK'
  <1> SUFFICES ASSUME IInv, [Next]_vars PROVE ReportOK'
    OBVIOUS
  <1> USE DEF IInv, TypeOK, ReportOK
  <1>1. CASE RepairEnds BY <1>1 DEF RepairEnds, Violates
  <1>2. CASE Prepare BY <1>2 DEF Prepare, UnlinkReport
  <1>3. CASE TestsExit BY <1>3 DEF TestsExit
  <1>4. CASE TestsTimeOut BY <1>4 DEF TestsTimeOut
  <1>5. CASE CopyIn BY <1>5 DEF CopyIn, BoxOK
  <1>6. CASE Decide BY <1>6 DEF Decide
  <1>7. CASE Dispatch \/ Generate \/ Record \/ Single \/ Smoke \/ Repair
    BY <1>7 DEF Dispatch, Generate, Record, Single, Smoke, Repair
  <1>8. CASE StartBox \/ SetupBox \/ Localize \/ Close \/ Validate \/ Rollback \/ Crash
    BY <1>8 DEF StartBox, SetupBox, Localize, Close, Validate, Rollback, Crash
  <1>9. CASE UNCHANGED vars \/ DockerGone BY <1>9 DEF vars, DockerGone
  <1> QED
    BY <1>1, <1>2, <1>3, <1>4, <1>5, <1>6, <1>7, <1>8, <1>9 DEF Next, Pass

\* Every step keeps what a pass knows of its tests.
LEMMA NextVerified == IInv /\ [Next]_vars => VerifiedOK'
  <1> SUFFICES ASSUME IInv, [Next]_vars PROVE VerifiedOK'
    OBVIOUS
  <1> USE DEF IInv, TypeOK, VerifiedOK, Verifying, Passed
  <1>1. CASE Dispatch BY <1>1 DEF Dispatch, NoJob, Tested
  <1>2. CASE Generate BY <1>2 DEF Generate, UnitsOK, EndsPhase, Tested
  <1>3. CASE Record BY <1>3 DEF Record, UnitsOK
  <1>4. CASE Single BY <1>4 DEF Single, UnitsOK, Tested
  <1>5. CASE Smoke BY <1>5 DEF Smoke
  <1>6. CASE Repair BY <1>6 DEF Repair
  <1>7. CASE RepairEnds BY <1>7 DEF RepairEnds
  <1>8. CASE Prepare BY <1>8 DEF Prepare
  <1>9. CASE StartBox BY <1>9 DEF StartBox
  <1>10. CASE SetupBox BY <1>10 DEF SetupBox
  <1>11. CASE CopyIn BY <1>11 DEF CopyIn
  <1>12. CASE TestsExit BY <1>12 DEF TestsExit, Sound
  <1>13. CASE TestsTimeOut BY <1>13 DEF TestsTimeOut
  <1>14. CASE Decide BY <1>14 DEF Decide, Sound
  <1>15. CASE Localize BY <1>15 DEF Localize, Implicated
  <1>16. CASE Close BY <1>16 DEF Close, Sound
  <1>17. CASE Validate BY <1>17 DEF Validate, Sound, Violates, Tested
  <1>18. CASE Rollback BY <1>18 DEF Rollback
  <1>19. CASE Crash BY <1>19 DEF Crash, NoJob
  <1>20. CASE UNCHANGED vars BY <1>20 DEF vars, Sound, Violates, Tested
  <1>21. CASE DockerGone BY <1>21 DEF DockerGone, Sound
  <1> QED
    BY <1>1, <1>2, <1>3, <1>4, <1>5, <1>6, <1>7, <1>8, <1>9, <1>10, <1>11, <1>12, <1>13,
       <1>14, <1>15, <1>16, <1>17, <1>18, <1>19, <1>20, <1>21 DEF Next, Pass

\* Every step keeps the recorded units where the dispatch expects them.
LEMMA NextUnits == IInv /\ [Next]_vars => UnitsOK'
  <1> SUFFICES ASSUME IInv, [Next]_vars PROVE UnitsOK'
    OBVIOUS
  <1> USE DEF IInv, TypeOK, UnitsOK, Verifying, Remaining, Tested, EndsPhase
  <1>1. CASE Dispatch
    <2>1. Remaining = {} => recorded = Files
      BY DEF Remaining
    <2>2. CASE config.listed /\ Remaining = {}
      <3>1. Tested /\ pc' = "smoke" /\ recorded' = Files /\ config' = config
        BY <1>1, <2>1, <2>2 DEF Dispatch
      <3> QED BY <2>2, <3>1
    <2>3. CASE ~(config.listed /\ Remaining = {})
      <3>1. /\ pc' = IF config.listed THEN "generate" ELSE "single"
            /\ job' = NoJob /\ recorded' = recorded /\ config' = config
        BY <1>1, <2>3 DEF Dispatch
      <3> QED BY <3>1 DEF NoJob
    <2> QED BY <2>2, <2>3
  <1>2. CASE Generate BY <1>2 DEF Generate, NextUnit
  <1>3. CASE Record BY <1>3 DEF Record
  <1>4. CASE Single BY <1>4 DEF Single
  <1>5. CASE Smoke \/ Repair \/ RepairEnds \/ Prepare \/ StartBox \/ SetupBox
    BY <1>5 DEF Smoke, Repair, RepairEnds, Prepare, StartBox, SetupBox
  <1>6. CASE CopyIn \/ TestsExit \/ TestsTimeOut \/ Decide \/ Localize \/ Close
    BY <1>6 DEF CopyIn, TestsExit, TestsTimeOut, Decide, Localize, Close
  <1>7. CASE Validate BY <1>7, FilesNonEmpty DEF Validate
  <1>8. CASE Rollback BY <1>8, FilesNonEmpty DEF Rollback
  <1>9. CASE Crash BY <1>9 DEF Crash
  <1>10. CASE UNCHANGED vars \/ DockerGone BY <1>10 DEF vars, DockerGone
  <1> QED
    BY <1>1, <1>2, <1>3, <1>4, <1>5, <1>6, <1>7, <1>8, <1>9, <1>10 DEF Next, Pass

\* The invariant holds of every reachable state.
THEOREM UnitsInvariance == Spec => []IInv
  <1>1. IInv /\ [Next]_vars => IInv'
    BY NextTyped, NextBox, NextVerified, NextReport, NextUnits DEF IInv
  <1> QED BY InitIInv, <1>1, PTL DEF Spec

-----------------------------------------------------------------------------
\* Every variable keeps its type.
THEOREM UnitsTyped == Spec => []TypeOK
  <1>1. IInv => TypeOK
    BY DEF IInv
  <1> QED BY <1>1, UnitsInvariance, PTL

\* The phase completes on files that keep the manifest and that the
\* configured tests passed on.
THEOREM VerifiedOnly == Spec => []CompletedIsVerified
  <1>1. IInv => CompletedIsVerified
    BY DEF IInv, VerifiedOK, CompletedIsVerified
  <1> QED BY <1>1, UnitsInvariance, PTL

\* No test runs in a container that has the network.
THEOREM TestedOffline == Spec => []TestsOffline
  <1>1. IInv => TestsOffline
    BY DEF IInv, BoxOK, TestsOffline
  <1> QED BY <1>1, UnitsInvariance, PTL

\* After every way out of a dispatch the executor knows no container any more, and
\* none was left behind unless docker failed at what it was asked or was not heard
\* to do it, or the server died (docker_executor.py:153-156).
THEOREM NothingLeft == Spec => []BoxRemoved
  <1>1. IInv => BoxRemoved
    BY DEF IInv, BoxOK, BoxRemoved, Verifying
  <1> QED BY <1>1, UnitsInvariance, PTL

\* On the host, without a manifest, a repair reads this round's report.
THEOREM HostReports == Spec => []HostReportCurrent
  <1>1. IInv => HostReportCurrent
    BY DEF IInv, ReportOK, HostReportCurrent, ReportCurrent
  <1> QED BY <1>1, UnitsInvariance, PTL

\* No dispatch generates a recorded unit again.
THEOREM UnitsStay == Spec => UnitsKept
  <1>1. IInv /\ [Next]_vars =>
            [pc = "generate" => \A f \in recorded : code'[f] = code[f]]_vars
    <2> SUFFICES ASSUME IInv, Next, pc = "generate", NEW f \in recorded
                 PROVE  code'[f] = code[f]
      BY DEF vars
    <2>1. CASE Generate
      BY <2>1 DEF Generate, NextUnit, Remaining, IInv, TypeOK
    <2>2. CASE Crash
      BY <2>2 DEF Crash
    <2> QED
      BY <2>1, <2>2
      DEF Next, Pass, Dispatch, Record, Single, Smoke, Repair, RepairEnds, Prepare, StartBox,
          SetupBox, CopyIn, TestsExit, TestsTimeOut, DockerGone, Decide, Localize, Close,
          Validate, Rollback
  <1> QED BY <1>1, UnitsInvariance, PTL DEF Spec, UnitsKept

-----------------------------------------------------------------------------
\* How many units are recorded when one more is, or when the phase ends.
LEMMA CountUnits ==
  ASSUME IInv
  PROVE  /\ Cardinality(recorded) \in 0 .. N
         /\ Cardinality({}) = 0
         /\ \A f \in Remaining :
                /\ Cardinality(recorded \cup {f}) = Cardinality(recorded) + 1
                /\ Cardinality(recorded) < N
                /\ Remaining # {f} => Cardinality(recorded) < N - 1
                /\ Remaining = {f} => Cardinality(recorded) = N - 1
         /\ Remaining = {} => Cardinality(recorded) = N
  <1> USE DEF Remaining
  <1>1. recorded \subseteq Files
    BY DEF IInv, TypeOK
  <1>2. \A S \in SUBSET Files : IsFiniteSet(S) /\ Cardinality(S) \in Nat /\ Cardinality(S) =< N
    BY FilesNonEmpty, FS_Subset, FS_CardinalityType
  <1>3. ASSUME NEW f \in Remaining
        PROVE  /\ Cardinality(recorded \cup {f}) = Cardinality(recorded) + 1
               /\ Cardinality(recorded \cup {f}) =< N
    BY <1>1, <1>2, FS_AddElement
  <1>4. ASSUME NEW f \in Remaining, Remaining # {f}
        PROVE  Cardinality(recorded) + 1 < N
    <2>1. PICK g \in Remaining : g # f
      BY <1>4
    <2>2. Cardinality((recorded \cup {f}) \cup {g}) = Cardinality(recorded \cup {f}) + 1
      BY <1>1, <1>2, <2>1, FS_AddElement
    <2>3. Cardinality((recorded \cup {f}) \cup {g}) =< N
      BY <1>1, <1>2, <2>1
    <2> QED BY <1>1, <1>2, <1>3, <2>2, <2>3, UnitsAssumption
  <1>5. ASSUME NEW f \in Remaining, Remaining = {f}
        PROVE  Cardinality(recorded) + 1 = N
    <2>1. recorded \cup {f} = Files
      BY <1>1, <1>5
    <2> QED BY <1>3, <2>1, FilesNonEmpty
  <1>6. Remaining = {} => Cardinality(recorded) = N
    <2>1. Remaining = {} => recorded = Files
      BY <1>1
    <2> QED BY <2>1, FilesNonEmpty
  <1>7. Cardinality(recorded) \in 0 .. N
    BY <1>1, <1>2, UnitsAssumption
  <1> QED BY <1>1, <1>2, <1>3, <1>4, <1>5, <1>6, <1>7, FS_EmptySet, UnitsAssumption

\* What the supervisor sees of the backend is one unit after another, and the
\* phase completed by the dispatch after the last.
THEOREM UnitsRefine == Spec => ImplementsOutcome
  <1> USE DEF Due
  <1>1. Init => Outcome!Init
    BY FS_EmptySet DEF Init, Outcome!Init
  <1>2. IInv /\ [Next]_vars => [Outcome!Next]_<<Due, Cardinality(recorded), completed>>
    <2> SUFFICES ASSUME IInv, [Next]_vars
                 PROVE  [Outcome!Next]_<<Due, Cardinality(recorded), completed>>
      OBVIOUS
    <2>1. config' = config
      BY DEF Next, Pass, vars, Dispatch, Generate, Record, Single, Smoke, Repair, RepairEnds,
             Prepare, StartBox, SetupBox, CopyIn, TestsExit, TestsTimeOut, DockerGone, Decide,
             Localize, Close, Validate, Rollback, Crash
    <2>2. Due' = Due
      BY <2>1 DEF Tested
    <2>3. CASE Record
      <3>1. PICK f \in Remaining : job.artifacts = {f} /\ ~EndsPhase(f)
        BY <2>3 DEF Record, IInv, UnitsOK
      <3>2. config.listed /\ ~completed /\ completed' = completed
        BY <2>3 DEF Record, IInv, UnitsOK, VerifiedOK
      <3>3. Cardinality(recorded') = Cardinality(recorded) + 1
        BY <2>3, <3>1, CountUnits DEF Record
      <3>4. Cardinality(recorded) < Due
        BY <3>1, <3>2, CountUnits DEF EndsPhase
      <3> QED BY <2>2, <3>2, <3>3, <3>4 DEF Outcome!Next, Outcome!UnitCompletes
    <2>4. CASE Validate /\ completed'
      <3>1. ~completed /\ pc = "validate" /\ recorded' = {}
        BY <2>4 DEF Validate, IInv, VerifiedOK
      <3>2. Cardinality(recorded) = Due
        BY <3>1, CountUnits DEF IInv, UnitsOK, Remaining
      <3> QED BY <2>2, <2>4, <3>1, <3>2, CountUnits DEF Outcome!Next, Outcome!PhaseSucceeds
    <2>5. CASE Rollback
      BY <2>2, <2>5, CountUnits DEF Rollback, Outcome!Next, Outcome!Rollback
    <2>6. CASE UNCHANGED <<recorded, completed>>
      BY <2>2, <2>6
    <2> QED
      BY <2>3, <2>4, <2>5, <2>6
      DEF Next, Pass, vars, Dispatch, Generate, Single, Smoke, Repair, RepairEnds, Prepare,
          StartBox, SetupBox, CopyIn, TestsExit, TestsTimeOut, DockerGone, Decide, Localize, Close,
          Validate, Crash
  <1> QED BY <1>1, <1>2, UnitsInvariance, PTL DEF Spec, ImplementsOutcome, Outcome!Spec

=============================================================================
