----------------------------- MODULE Workspace ------------------------------
(***************************************************************************)
(* What the phases of a run leave in its workspace: the documents of the   *)
(* document phases, the code that the implementation phase takes out of    *)
(* one completion when no file list is known, what the validator makes of  *)
(* them, and what a resume finds of the checksums.                         *)
(*                                                                         *)
(* A file is known by what it is (a document with its metadata, code, or   *)
(* an answer kept as it came), by the sections its heading lines name and  *)
(* by whether a model wrote anything of it.  A checksum is kept as whether *)
(* it still holds: documents carry their time, so a file that is written   *)
(* again differs.  Phases depend on one another in a line; the intake has  *)
(* a model of its own (TaskContract), and so have the units of an          *)
(* implementation phase with a file list (CodeUnits).                      *)
(***************************************************************************)
EXTENDS Naturals, Sequences

CONSTANTS
    Pipeline,          \* the phases, in order
    AllowedOutputs,    \* PHASE_CONTRACTS
    ArtifactSchemas,   \* ARTIFACT_SCHEMAS
    Replies,           \* lists of paths that a model names files by
    Pinned             \* whether the task contract pins a manifest

VARIABLES
    files,             \* the workspace: contents by path
    sums,              \* of each completed phase, by recorded path: does it hold
    dispatch           \* the step under way: what it has to write and has written

workspace == <<files, sums, dispatch>>

-----------------------------------------------------------------------------
CODE_PHASE == "implementation"
NoName == ""     \* of an output that is a directory

Idle == [pc |-> "idle", queue |-> <<>>, written |-> {}]
Failed == [Idle EXCEPT !.pc = "failed"]

Due == Pipeline[Len(sums) + 1]
Outputs == AllowedOutputs[Due]

Required(p) ==
    IF p \in DOMAIN ArtifactSchemas THEN ArtifactSchemas[p].required_sections ELSE {}

Within(dir, top) == Len(top) =< Len(dir) /\ SubSeq(dir, 1, Len(top)) = top

\* A directory that is declared as an output receives a GENERATED.md.
Target(out) == IF out.name = NoName THEN [out EXCEPT !.name = "GENERATED"] ELSE out

(***************************************************************************)
(* The tables of phases agree: what a schema requires its phase writes, no *)
(* two phases write one file, and where code goes only a GENERATED.md of   *)
(* an earlier phase may lie.                                               *)
(***************************************************************************)
Path == [dir : Seq(STRING), name : STRING]
FilesOf(p) == {Target(AllowedOutputs[p][i]) : i \in DOMAIN AllowedOutputs[p]}
InCode(f) ==
    \E i \in DOMAIN AllowedOutputs[CODE_PHASE] :
        Within(f.dir, AllowedOutputs[CODE_PHASE][i].dir)

TablesAgree ==
    /\ Pipeline \in Seq(DOMAIN AllowedOutputs)
    /\ Replies \subseteq Seq([dir : Seq(STRING), name : STRING, up : BOOLEAN])
    /\ \A p \in DOMAIN AllowedOutputs : AllowedOutputs[p] \in Seq(Path) \ {<<>>}
    /\ \A p \in DOMAIN ArtifactSchemas :
          p # CODE_PHASE /\ ArtifactSchemas[p].path \in FilesOf(p)
    /\ \A i \in DOMAIN AllowedOutputs[CODE_PHASE] :
          AllowedOutputs[CODE_PHASE][i].name = NoName
    /\ \A i, j \in DOMAIN Pipeline : i # j =>
          /\ Pipeline[i] # Pipeline[j]
          /\ CODE_PHASE \notin {Pipeline[i], Pipeline[j]} =>
                FilesOf(Pipeline[i]) \cap FilesOf(Pipeline[j]) = {}
          /\ Pipeline[j] = CODE_PHASE => \A f \in FilesOf(Pipeline[i]) :
                InCode(f) => /\ i < j
                             /\ f.name = "GENERATED"
                             /\ Pipeline[i] \notin DOMAIN ArtifactSchemas

\* A file block goes where it says, if that is within the outputs.
Sandbox(path) ==
    IF path.up \/ \A i \in DOMAIN Outputs : ~Within(path.dir, Outputs[i].dir)
    THEN [dir |-> Outputs[1].dir, name |-> path.name]
    ELSE [dir |-> path.dir, name |-> path.name]

\* Fault: a section counts as there if the prose mentions it.
HasHeadingAnywhere(reply, section) == section \in reply.mentions

\* Only a heading line has a section's heading, whatever the prose mentions.
HasHeading(reply, section) == section \in reply.headings

\* Each heading the model left out is added, with a reference to the above.
Document(p, reply) ==
    [kind |-> "document",
     headings |-> reply.headings \cup {s \in Required(p) : ~HasHeading(reply, s)},
     authored |-> reply.prose]

DocumentReplies ==
    {r \in [headings : SUBSET Required(Due), mentions : SUBSET Required(Due),
            prose : BOOLEAN, tier : BOOLEAN] :
        /\ r.headings \subseteq r.mentions
        /\ r.mentions # {} => r.prose
        /\ Due # "proposal" => r.prose /\ ~r.tier
        /\ r.prose \/ r.tier}

-----------------------------------------------------------------------------
Init == files = <<>> /\ sums = <<>> /\ dispatch = Idle

Dispatched == dispatch = Idle /\ Len(sums) < Len(Pipeline)

\* An empty or truncated completion, or a provider that raises.
Unusable ==
    /\ Dispatched
    /\ dispatch' = Failed
    /\ UNCHANGED <<files, sums>>

\* The marker of the complexity tier is taken out of the proposal first.
RunDoc(reply) ==
    /\ Dispatched /\ Due # CODE_PHASE
    /\ dispatch' = [Idle EXCEPT
                  !.pc = "writing",
                  !.queue = [i \in DOMAIN Outputs |->
                                [path |-> Target(Outputs[i]), text |-> Document(Due, reply)]]]
    /\ UNCHANGED <<files, sums>>

\* Without a file block the answer is kept as it came.
RunCode(blocks) ==
    /\ Dispatched /\ Due = CODE_PHASE
    /\ LET code == [kind |-> "code", headings |-> {}, authored |-> TRUE]
           found == [i \in DOMAIN blocks |-> [path |-> Sandbox(blocks[i]), text |-> code]]
           raw == <<[path |-> Target(Outputs[1]), text |-> [code EXCEPT !.kind = "raw"]]>>
       IN dispatch' = [Idle EXCEPT !.pc = "writing",
                               !.queue = IF blocks = <<>> THEN raw ELSE found]
    /\ UNCHANGED <<files, sums>>

WriteNext ==
    /\ dispatch.pc = "writing" /\ dispatch.queue # <<>>
    /\ LET next == Head(dispatch.queue) IN
       /\ files' = [f \in DOMAIN files \cup {next.path} |->
                       IF f = next.path THEN next.text ELSE files[f]]
       /\ sums' = [i \in DOMAIN sums |->
                       [f \in DOMAIN sums[i] |-> sums[i][f] /\ f # next.path]]
       /\ dispatch' = [dispatch EXCEPT !.queue = Tail(dispatch.queue),
                               !.written = dispatch.written \cup {next.path}]

\* The disk is full, or a block names a directory: the step raises.
WriteFails ==
    /\ dispatch.pc = "writing" /\ dispatch.queue # <<>>
    /\ dispatch' = Failed
    /\ UNCHANGED <<files, sums>>

ValidDocument(schema) ==
    /\ schema.path \in DOMAIN files
    /\ schema.require_metadata => files[schema.path].kind = "document"
    /\ schema.required_sections \subseteq files[schema.path].headings

Valid ==
    IF Due \in DOMAIN ArtifactSchemas
    THEN ValidDocument(ArtifactSchemas[Due])
    ELSE dispatch.written \subseteq DOMAIN files

Written == dispatch.pc = "writing" /\ dispatch.queue = <<>>

Completes ==
    /\ Written /\ Valid
    /\ sums' = Append(sums, [f \in dispatch.written |-> TRUE])
    /\ dispatch' = Idle
    /\ UNCHANGED files

\* Invalid, or code that is not what the contract's manifest says.
Refused ==
    /\ Written
    /\ ~Valid \/ (Due = CODE_PHASE /\ Pinned)
    /\ dispatch' = Failed
    /\ UNCHANGED <<files, sums>>

Retry == dispatch = Failed /\ dispatch' = Idle /\ UNCHANGED <<files, sums>>

\* The supervisor keeps the first k phases and sends the others back.
Keep(k) == sums' = SubSeq(sums, 1, k) /\ dispatch' = Idle /\ UNCHANGED files

Rollback == dispatch \in {Idle, Failed} /\ \E k \in 0 .. Len(sums) - 1 : Keep(k)

CheckpointValid(i) == \A f \in DOMAIN sums[i] : f \in DOMAIN files /\ sums[i][f]

\* The process died, anywhere, and the run is resumed.
Resume ==
    \E k \in 0 .. Len(sums) :
        /\ \A i \in 1 .. k : CheckpointValid(i)
        /\ k < Len(sums) => ~CheckpointValid(k + 1)
        /\ Keep(k)

Next ==
    \/ Unusable \/ WriteNext \/ WriteFails \/ Completes \/ Refused
    \/ Retry \/ Rollback \/ Resume
    \/ Dispatched /\ \E reply \in DocumentReplies : RunDoc(reply)
    \/ \E blocks \in Replies : RunCode(blocks)

-----------------------------------------------------------------------------
\* A document that was written is never refused: the headings the writer adds are
\* those the validator looks for (_has_heading "mirrors the artifact validator's
\* heading check"), so no retry is spent on a model that left one out.
SuccessAccepted ==
    Written /\ Due \in DOMAIN ArtifactSchemas => ValidDocument(ArtifactSchemas[Due])

\* While nobody edits the workspace a checkpoint stays valid, through retries, partial
\* writes, rollbacks and resumes, but for one: code, or an answer that held none, takes
\* the place of the GENERATED.md that an earlier phase left where code goes.
ChecksumsStand ==
    \A i \in DOMAIN sums : \A f \in DOMAIN sums[i] :
        ~sums[i][f] =>
            /\ Pipeline[i] \notin DOMAIN ArtifactSchemas \cup {CODE_PHASE}
            /\ f.name = "GENERATED"
            /\ files[f].kind # "document"

\* "allowed_outputs is the closed set of paths/prefixes a phase agent may write"
\* (phase_contracts.py:56): a step changes no file outside those of its phase.
Owned(f) ==
    \E i \in DOMAIN Outputs :
        \/ f = Outputs[i]
        \/ Outputs[i].name = NoName /\ Within(f.dir, Outputs[i].dir)
SingleWriter ==
    \A f \in DOMAIN files' :
        f \notin DOMAIN files \/ files'[f] # files[f] => Owned(f)

(***************************************************************************)
(* What comments say and the code does not keep: README.md, section 5.     *)
(***************************************************************************)
\* "An empty or max_tokens-truncated response must fail the step [...] rather than be
\* papered over with placeholder artifacts that pass validation".
NothingPaperedOver ==
    \A i \in DOMAIN sums :
        \A f \in DOMAIN sums[i] : sums[i][f] => files[f].authored

\* An answer without a file is kept "(validation then drives a retry)".
RawAnswerRetried ==
    \A i \in DOMAIN sums :
        \A f \in DOMAIN sums[i] : sums[i][f] => files[f].kind # "raw"

\* A run that nobody edited resumes behind its last completed phase.
ResumeKeepsAll == \A i \in DOMAIN sums : CheckpointValid(i)

=============================================================================
