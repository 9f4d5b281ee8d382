------------------------------ MODULE Commit0 ------------------------------
(***************************************************************************)
(* The Commit0 benchmark (benchmarks/commit0/commit0_adapter): a library   *)
(* whose functions were stubbed is staged, Anvil writes modules under src, *)
(* and their functions are grafted into the package that the library's     *)
(* tests import: by every test round of the run (graft_and_test.py), which *)
(* starts from a pristine copy, and once for the score (cli.py), which     *)
(* starts from the package as it is.                                       *)
(*                                                                         *)
(* What a function holds is a number: nothing, a stub, the code it was     *)
(* shipped with, or what the run's n-th write gave it.  When the run       *)
(* writes and tests is module CodeUnits' matter: here it may at any time.  *)
(***************************************************************************)
EXTENDS Naturals, TLC

CONSTANTS
    Modules,    \* of the package
    ModuleOf,   \* ModuleOf[f]: where function f belongs
    Skeleton,   \* Skeleton[f]: what the branch commit0_combined has of f
    MaxWrites,  \* bound on the modules written by the runs
    MaxFetches  \* bound on the attempts at the benchmark

Absent == 0
Stub == 1
Given == 2
Generated(n) == n + 2

Functions == DOMAIN ModuleOf

VARIABLES
    clone,      \* modules in skeletons/<repo>, or "none" without a .git there
    pc,         \* where the attempt is
    repairing,  \* the server runs graft_and_test (no --no-repair)
    staged,     \* modules staged: those of .commit0-pristine, too
    package,    \* the package in the stage: its modules, their functions
    src,        \* src[m]: what is under src for module m, and how far it parses
    todo,       \* modules still to be grafted
    writes, fetches,
    unproven    \* since the last test round that ran to its end, if there was
                \* one, something was written or a round was killed (history)

stage == <<staged, package, src, todo>>
vars  == <<clone, pc, repairing, stage, writes, fetches, unproven>>

NoClone == {"none"}
Empty == [f \in Functions |-> Absent]
\* Python may parse the module, and that alone, or merged with the skeleton, too.
Parses == {"no", "alone", "merged"}
NoFile == [parses |-> "no", body |-> Empty]
NoPackage == [modules |-> {}, body |-> Empty]

Of(m) == {f \in Functions : ModuleOf[f] = m}
Cut(body, modules) == [f \in Functions |-> IF ModuleOf[f] \in modules THEN body[f] ELSE Absent]
Pristine == [modules |-> staged, body |-> Cut(Skeleton, staged)]

Init ==
    /\ clone = NoClone /\ pc = "fetch" /\ repairing \in BOOLEAN
    /\ staged = {} /\ package = NoPackage /\ todo = {}
    /\ src = [m \in Modules |-> NoFile]
    /\ writes = 0 /\ fetches = 0 /\ unproven = FALSE

-----------------------------------------------------------------------------
\* A directory with a .git is taken for a clone; a clone that takes too long
\* is killed, and leaves what it has checked out.
Fetch ==
    /\ pc = "fetch"
    /\ \/ clone # NoClone /\ pc' = "stage" /\ UNCHANGED clone
       \/ clone = NoClone /\ clone' = Modules /\ pc' = "stage"
       \/ clone = NoClone /\ clone' \in {NoClone} \cup SUBSET Modules /\ pc' = "failed"
    /\ UNCHANGED <<repairing, stage, writes, fetches, unproven>>

\* Modules that need work are laid out under src as they are.
NeedsWork(m) == \E f \in Of(m) : Skeleton[f] \in {Absent, Stub}

Stage ==
    /\ pc = "stage"
    /\ staged' = clone
    /\ package' = [modules |-> staged', body |-> Cut(Skeleton, staged')]
    /\ src' = [m \in Modules |->
                  IF m \in staged' /\ NeedsWork(m)
                  THEN [parses |-> "merged", body |-> Cut(Skeleton, {m})] ELSE NoFile]
    /\ pc' = "running"
    /\ unproven' = FALSE
    /\ UNCHANGED <<clone, repairing, todo, writes, fetches>>

\* The run writes a module: it need not parse, alone or merged, and may lack, leave or change
\* any of its functions, those it was not asked for included.
Write(m) ==
    /\ pc = "running" /\ m \in staged /\ writes < MaxWrites
    /\ writes' = writes + 1
    /\ \E body \in [Of(m) -> {Absent, Stub, Generated(writes')}], parses \in Parses :
           src' = [src EXCEPT ![m] = [parses |-> parses, body |-> body @@ Empty]]
    /\ unproven' = TRUE
    /\ UNCHANGED <<clone, pc, repairing, staged, package, todo, fetches>>

-----------------------------------------------------------------------------
\* Fault: what the generated module has, it has better.
FillsAny(body) == TRUE

\* graft_module fills stubs and inserts what the skeleton lost.  A module that
\* does not parse is skipped, and one that does not when merged is not kept.
Fills(body) == body \in {Stub, Absent}

Grafted(p, m) ==
    IF m \in p.modules /\ src[m].parses = "merged"
    THEN [p EXCEPT !.body = [f \in Functions |->
             IF f \in Of(m) /\ Fills(@[f]) /\ src[m].body[f] # Absent
             THEN src[m].body[f] ELSE @[f]]]
    ELSE p

\* The module has an earlier graft in it: what parsed when merged with the
\* skeleton need not with that.
Overlaid(m) == \E f \in Of(m) : package.body[f] # Pristine.body[f]

\* apply_generated, one module after the other.
Graft(m) ==
    /\ pc \in {"grafting", "applying"} /\ m \in todo
    /\ \/ package' = Grafted(package, m)
       \/ Overlaid(m) /\ UNCHANGED package
    /\ todo' = todo \ {m}
    /\ UNCHANGED <<clone, pc, repairing, staged, src, writes, fetches, unproven>>

\* graft_module parses the merged module before it is ready to catch that it does
\* not parse: the round fails without its tests, or the score is not taken.
GraftRaises(m) ==
    /\ pc \in {"grafting", "applying"} /\ m \in todo
    /\ src[m].parses = "alone" \/ (src[m].parses = "merged" /\ Overlaid(m))
    /\ pc' = IF pc = "grafting" THEN "running" ELSE "failed"
    /\ todo' = {}
    /\ unproven' = TRUE
    /\ UNCHANGED <<clone, repairing, staged, package, src, writes, fetches>>

BeginRound ==
    /\ pc = "running" /\ repairing
    /\ pc' = "removing"
    /\ UNCHANGED <<clone, repairing, stage, writes, fetches, unproven>>

Remove ==
    /\ pc = "removing"
    /\ package' = NoPackage
    /\ pc' = "copying"
    /\ UNCHANGED <<clone, repairing, staged, src, todo, writes, fetches, unproven>>

\* Fault: a package that is there is not copied again.
RestoreNot ==
    /\ pc \in {"removing", "copying"}
    /\ pc' = "grafting" /\ todo' = Modules
    /\ package' = IF pc = "copying" THEN Pristine ELSE package
    /\ UNCHANGED <<clone, repairing, staged, src, writes, fetches, unproven>>

Restore ==
    /\ pc = "copying"
    /\ pc' = "grafting" /\ todo' = Modules
    /\ package' = Pristine
    /\ UNCHANGED <<clone, repairing, staged, src, writes, fetches, unproven>>

\* The tests ran to their end, whatever they found.
RoundEnds ==
    /\ pc = "grafting" /\ todo = {}
    /\ pc' = "running"
    /\ unproven' = FALSE
    /\ UNCHANGED <<clone, repairing, stage, writes, fetches>>

\* testTimeoutSeconds: the command is killed where it is.
RoundKilled ==
    /\ pc \in {"removing", "copying", "grafting"}
    /\ \E modules \in SUBSET staged :
           package' = CASE pc = "removing" -> [modules |-> package.modules \cap modules,
                                               body |-> Cut(package.body, modules)]
                        [] pc = "copying"  -> [modules |-> modules, body |-> Cut(Skeleton, modules)]
                        [] pc = "grafting" -> package
    /\ pc' = "running" /\ todo' = {}
    /\ unproven' = TRUE
    /\ UNCHANGED <<clone, repairing, staged, src, writes, fetches>>

-----------------------------------------------------------------------------
\* The run is settled or out of time.
DriveEnds ==
    /\ pc = "running"
    /\ pc' = "applying" /\ todo' = Modules
    /\ UNCHANGED <<clone, repairing, staged, package, src, writes, fetches, unproven>>

\* A request to the runtime failed: recorded as an error, not scored.
ClientError ==
    /\ pc = "running"
    /\ pc' = "failed"
    /\ UNCHANGED <<clone, repairing, stage, writes, fetches, unproven>>

Score ==
    /\ pc = "applying" /\ todo = {}
    /\ pc' = "scored"
    /\ UNCHANGED <<clone, repairing, stage, writes, fetches, unproven>>

\* The benchmark is run again, over the same clones.
Again ==
    /\ pc \in {"scored", "failed"} /\ fetches < MaxFetches
    /\ fetches' = fetches + 1
    /\ pc' = "fetch" /\ repairing' \in BOOLEAN
    /\ UNCHANGED <<clone, stage, writes, unproven>>

Next ==
    \/ Fetch \/ Stage \/ BeginRound \/ Remove \/ Restore \/ RoundEnds \/ RoundKilled
    \/ \E m \in Modules : Write(m) \/ Graft(m) \/ GraftRaises(m)
    \/ DriveEnds \/ ClientError \/ Score \/ Again

Spec == Init /\ [][Next]_vars

-----------------------------------------------------------------------------
\* What was asked for: provided code as shipped, and every other function as
\* the run has it now, if it has it in a module that can be merged.
Fresh ==
    [f \in Functions |->
        LET m == ModuleOf[f]
        IN IF m \notin staged THEN Absent
           ELSE IF /\ Skeleton[f] # Given
                   /\ src[m].parses = "merged" /\ src[m].body[f] # Absent
           THEN src[m].body[f] ELSE Skeleton[f]]

\* Every test round tests what the run has written so far on top of the
\* untouched skeleton, whatever earlier rounds grafted and wherever they were
\* killed (graft_and_test.py:48-69).
RoundIsFresh == pc = "grafting" /\ todo = {} => package.body = Fresh

\* So does the score, after a run without test rounds and after one whose last
\* round ended with nothing written since (cli.py:85).
ScoreIsFresh == pc = "scored" /\ (~repairing \/ ~unproven) => package.body = Fresh

\* graft.py:77: "Never raises on model output".
GraftsWithoutError == pc = "applying" => pc' # "failed"


=============================================================================
