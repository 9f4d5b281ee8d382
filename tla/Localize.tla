------------------------------ MODULE Localize ------------------------------
(***************************************************************************)
(* What a round of repair reads off the report of a red test run           *)
(* (verify/localize.py; localize() of sdk/openhands_adapter.py): each      *)
(* failure implicates the artifact that its deepest line names, failures   *)
(* of one error and one artifact are one cluster, and the artifacts are    *)
(* repaired largest cluster first, each shown its own cluster.             *)
(***************************************************************************)
EXTENDS Naturals, Sequences, FiniteSets, SequencesExt, Ordered

CONSTANTS
    Artifacts,      \* the pass's artifacts, in the order they were written, one
                    \* of them twice if one completion had it twice
    BasenameOf,     \* BasenameOf[a]: what a line has to have in it to name a
    Sources,        \* files that a frame may be in: artifacts, tests
    NamesIn,        \* NamesIn[s]: the basenames that a line about s has in it
    Errors,         \* error types
    MaxFailures,    \* bound on the failures of a run
    MaxDepth,       \* bound on the lines of a traceback
    NoFile          \* file = None: a failure implicates nothing

VARIABLES
    report,     \* the failures reported, in order; none if there is no report
    output,     \* the files that the command's output is about
    todo,       \* the artifacts to repair, in order, once localized
    excerpt     \* excerpt[a]: the failures in a's prompt; no entry: the tail

vars == <<report, output, todo, excerpt>>

Traces == UNION {[1 .. n -> Sources] : n \in 0 .. MaxDepth}
Failures == [error : Errors, trace : Traces]
Reports == UNION {[1 .. n -> Failures] : n \in 0 .. MaxFailures}

Init ==
    /\ report \in Reports
    /\ output \in {{s} : s \in Sources} \cup {{}}
    /\ todo = <<>>
    /\ excerpt = <<>>

Written == ToSet(Artifacts)

-----------------------------------------------------------------------------
\* names: a basename stands for the last artifact that has it.
LastNamed(name) == SelectLastInSeq(Artifacts, LAMBDA a : BasenameOf[a] = name)
NamedBy(source) ==
    {Artifacts[LastNamed(name)] : name \in NamesIn[source] \cap {BasenameOf[a] : a \in Written}}

\* Within a line, the name that was put into the dict last.
FirstPut(a) == SelectInSeq(Artifacts, LAMBDA b : BasenameOf[b] = BasenameOf[a])
LastOf(named) == CHOOSE a \in named : \A b \in named : FirstPut(b) <= FirstPut(a)

\* _implicated_target: the deepest line that names an artifact
ImplicatedTarget(trace) ==
    LET deepest == SelectLastInSeq(trace, LAMBDA s : NamedBy(s) # {})
    IN IF deepest = 0 THEN NoFile ELSE LastOf(NamedBy(trace[deepest]))

Key(failure) == <<failure.error, ImplicatedTarget(failure.trace)>>

\* A cluster, as the positions of its failures in the report.
Alike(failures, i) == {j \in DOMAIN failures : Key(failures[j]) = Key(failures[i])}
SizeAt(failures, i) == Cardinality(Alike(failures, i))
Firsts(failures) == {i \in DOMAIN failures : \A j \in Alike(failures, i) : i <= j}

\* Fault: clusters come in the order their failures do.
SortsBeforeAsSeen(failures, i, j) == i < j

\* cluster: by size, and as they were seen among those of one size
SortsBefore(failures, i, j) ==
    LET m == SizeAt(failures, i)
        n == SizeAt(failures, j)
    IN m > n \/ (m = n /\ i < j)

\* The files of the clusters, and for each the first of its clusters.
FileOf(failures, i) == ImplicatedTarget(failures[i].trace)
Leading(failures) ==
    LET firsts == Firsts(failures)
    IN {i \in firsts :
           /\ FileOf(failures, i) # NoFile
           /\ \A j \in firsts :
                 FileOf(failures, j) = FileOf(failures, i) => ~SortsBefore(failures, j, i)}

Leads(failures) == Ranked(Leading(failures), LAMBDA i, j : SortsBefore(failures, i, j))

\* implicated_files: the artifacts that the output names, or all of them
Fallback ==
    LET named == At(Artifacts,
                    {i \in DOMAIN Artifacts :
                        \E s \in output : BasenameOf[Artifacts[i]] \in NamesIn[s]})
    IN IF named = <<>> THEN Artifacts ELSE named

Localized == todo # <<>>

\* The report says which artifacts.
ByReport ==
    /\ ~Localized
    /\ Leading(report) # {}
    /\ LET leads == Leads(report)
       IN todo' = [n \in DOMAIN leads |-> FileOf(report, leads[n])]
    /\ excerpt' = [a \in {FileOf(report, i) : i \in Leading(report)} |->
                      Alike(report, CHOOSE i \in Leading(report) : FileOf(report, i) = a)]
    /\ UNCHANGED <<report, output>>

\* No report, or one that names no artifact.
ByOutput ==
    /\ ~Localized
    /\ Leading(report) = {}
    /\ todo' = Fallback
    /\ UNCHANGED <<report, output, excerpt>>

Next == ByReport \/ ByOutput

Spec == Init /\ [][Next]_vars

-----------------------------------------------------------------------------
Blaming(a) == {i \in DOMAIN report : FileOf(report, i) = a}

(***************************************************************************)
(* A round repairs artifacts only, none of them twice that is not listed   *)
(* twice, and, when the report names any, exactly those it names, once     *)
(* each; the one that comes first has the most failures of one error; and  *)
(* what an artifact's prompt shows is one error, in that artifact, and no  *)
(* rarer one than its others (FR-JL-003 and 004, localize.py:15-18).       *)
(* CodeUnits relies on the first of these.                                 *)
(***************************************************************************)
LargestCauseFirst ==
    Localized =>
        /\ ToSet(todo) \subseteq Written
        /\ IsInjective(Artifacts) => IsInjective(todo)
        /\ (\E a \in Written : Blaming(a) # {}) =>
            /\ IsInjective(todo) /\ ToSet(todo) = {a \in Written : Blaming(a) # {}}
            /\ \A a \in ToSet(todo) :
                /\ excerpt[a] \subseteq Blaming(a)
                /\ \A i, j \in excerpt[a] : report[i].error = report[j].error
                /\ \A i \in Blaming(a) : SizeAt(report, i) <= Cardinality(excerpt[a])
                /\ Cardinality(excerpt[a]) <= Cardinality(excerpt[Head(todo)])

\* FR-JL-003: the implicated frame is the "deepest traceback frame whose file
\* matches a generated artifact".
DeepestFrameBlamed ==
    Localized =>
        \A i \in DOMAIN report :
            LET trace == report[i].trace
                deepest == SelectLastInSeq(trace, LAMBDA s : s \in Written)
            IN deepest # 0 => FileOf(report, i) = trace[deepest]

\* FR-RL-008: "Each implicated file gets ONE repair completion per round" (spec.md
\* of v0.1.4, line 67).
OneRepairPerFile == Localized => IsInjective(todo)

=============================================================================
