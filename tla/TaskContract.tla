---------------------------- MODULE TaskContract ----------------------------
(***************************************************************************)
(* The task's binding facts (contract/resolver.py): sections of the run's  *)
(* domain-knowledge file that go verbatim into every prompt, while the     *)
(* rest is an input like others, cut at a limit (sdk/openhands_adapter.py).*)
(* What clients answer and what intake assumes is appended to the file     *)
(* (core/development_manager.py) until intake settles and seals it.        *)
(*                                                                         *)
(* A line is a marker on a line of its own, a line that only mentions the  *)
(* contract marker, or a fact.  Lengths are in lines.                      *)
(***************************************************************************)
EXTENDS Naturals, Sequences, Ordered

CONSTANTS
    MaxLines,   \* bound on the lines of the file that a run is given
    MaxFacts,   \* bound on what is appended to it
    Cap,        \* contractMaxChars
    Limit       \* inputCharLimit

Marker  == <<"contract", 0>>
Closer  == <<"context", 0>>
Mention == <<"mention", 0>>
Fact(i) == <<"fact", i>>
Added(i) == <<"added", i>>

\* Files to begin with; fact i is on line i.
Given(n) == {file \in [1 .. n -> {Marker, Closer, Mention} \cup {Fact(i) : i \in 1 .. n}] :
                \A i \in 1 .. n : file[i] = Fact(file[i][2]) => file[i][2] = i}

VARIABLES
    given,      \* the file as the run was given it
    yolo,       \* the mode: a yolo run assumes where another asks
    file,       \* domain-knowledge/background-information.md
    round,      \* clarification_round
    status,     \* "intake", "asking", "phases", "failed"
    sealed,     \* contract_sealed
    facts,      \* answers and assumptions recorded so far
    prompt      \* the last prompt: its contract, its context

vars == <<given, yolo, file, round, status, sealed, facts, prompt>>

NoPrompt == [of |-> "none", contract |-> <<>>, context |-> <<>>, cut |-> FALSE]

Init ==
    /\ given \in UNION {Given(n) : n \in 0 .. MaxLines}
    /\ yolo \in BOOLEAN
    /\ file = given
    /\ round = 0 /\ status = "intake" /\ sealed = FALSE /\ facts = 0
    /\ prompt = NoPrompt

-----------------------------------------------------------------------------
\* The last marker above line i opens a section.
Opened(text, i) ==
    \E j \in 1 .. i - 1 :
        /\ text[j] = Marker
        /\ \A k \in j + 1 .. i - 1 : text[k] # Closer

Contents(text, inside) ==
    At(text, {i \in DOMAIN text : text[i] \notin {Marker, Closer} /\ Opened(text, i) = inside})

Marked(text) == \E i \in DOMAIN text : text[i] \in {Marker, Mention}

\* split_contract
ContractOf(text) == IF Marked(text) THEN Contents(text, TRUE) ELSE <<>>

ContextOf(text) == IF Marked(text) THEN Contents(text, FALSE) ELSE text

\* Where the last section ends, or 0 if there is none.
InsertAt(text) ==
    LET ends == {i \in 1 .. Len(text) + 1 :
                    /\ i = Len(text) + 1 \/ text[i] = Closer
                    /\ Opened(text, i)}
    IN IF ends = {} THEN 0 ELSE CHOOSE i \in ends : \A j \in ends : j <= i

\* Fault: what is recorded goes to the end of the file.
AppendBlockAtEnd(text, line) == Append(text, line)

AppendBlock(text, line) ==
    LET at == InsertAt(text)
    IN IF at = 0 THEN Append(text, line)
       ELSE SubSeq(text, 1, at - 1) \o <<line>> \o SubSeq(text, at, Len(text))

Record == file' = AppendBlock(file, Added(facts + 1)) /\ facts' = facts + 1

-----------------------------------------------------------------------------
\* A prompt of intake or proposal has the context, too; later ones do not.
Prompt(of, reads) ==
    LET context == IF reads THEN ContextOf(file) ELSE <<>>
    IN [of |-> of, contract |-> ContractOf(file),
        context |-> IF Len(context) > Limit THEN SubSeq(context, 1, Limit) ELSE context,
        cut |-> Len(context) > Limit]

OverCap == Len(ContractOf(file)) > Cap

IntakeRefuses ==
    /\ status = "intake" /\ OverCap
    /\ status' = "failed"
    /\ UNCHANGED <<given, yolo, file, round, sealed, facts, prompt>>

Assuming == yolo \/ round > 0     \* _clarification_mode

\* Questions in the first round only; prompt, then pause.
IntakeAsks ==
    /\ status = "intake" /\ ~OverCap /\ ~Assuming
    /\ prompt' = Prompt("intake", TRUE)
    /\ status' = "asking"
    /\ UNCHANGED <<given, yolo, file, round, sealed, facts>>

\* _seal_contract: a section with nothing in it is not sealed.
Seal(text) == sealed' = (sealed \/ ContractOf(text) # <<>>)

\* A run that does not ask records what it assumes, if anything.
IntakeSettles ==
    /\ status = "intake" /\ ~OverCap
    /\ prompt' = Prompt("intake", TRUE)
    /\ \/ Assuming /\ facts < MaxFacts /\ Record
       \/ UNCHANGED <<file, facts>>
    /\ Seal(file')
    /\ status' = "phases"
    /\ UNCHANGED <<given, yolo, round>>

Clarify ==
    /\ status = "asking" /\ ~sealed /\ facts < MaxFacts
    /\ Record
    /\ round' = round + 1
    /\ status' = "intake"
    /\ UNCHANGED <<given, yolo, sealed, prompt>>

Phase ==
    /\ status = "phases"
    /\ \E of \in {"proposal", "later"} : prompt' = Prompt(of, of = "proposal")
    /\ UNCHANGED <<given, yolo, file, round, status, sealed, facts>>

\* A rollback to intake.  In round 0 it would ask again, sealed or not.
Rollback ==
    /\ status = "phases"
    /\ status' = "intake"
    /\ UNCHANGED <<given, yolo, file, round, sealed, facts, prompt>>

Next == IntakeRefuses \/ IntakeAsks \/ IntakeSettles \/ Clarify \/ Phase \/ Rollback

Spec == Init /\ [][Next]_vars

-----------------------------------------------------------------------------
Recorded == [i \in 1 .. facts |-> Added(i)]
Sectioned == \E i \in DOMAIN given : given[i] = Marker

\* Every prompt of a later phase has all that was pinned and all that was
\* recorded since, unclipped and in order, if the file had a section at all; of
\* a file without one nothing is pinned (FR-CT-002, 003, 004, 008).  What is
\* pinned does not leak into the context, and the context that was given is
\* lost to no append (resolver.py:108-135).
PinnedReachesPhases ==
    status = "phases" =>
        /\ prompt.of \in {"proposal", "later"} =>
             prompt.contract = IF Sectioned THEN ContractOf(given) \o Recorded ELSE <<>>
        /\ prompt.of = "proposal" /\ ~prompt.cut =>
             prompt.context = ContextOf(given) \o (IF Sectioned THEN <<>> ELSE Recorded)

\* schema.py:33-37: the contract is never truncated, "an over-cap contract
\* fails the run at intake instead": what is sealed is within the cap.
SealedWithinCap == status = "phases" /\ sealed => ~OverCap

=============================================================================
