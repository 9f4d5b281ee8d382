--------------------------- MODULE PhaseContracts ---------------------------
(***************************************************************************)
(* The pipeline as shipped: its phases, the outputs that each may write,   *)
(* in the order of writing, and what is required of the document that a    *)
(* phase owns.  An output without a name is a directory.                   *)
(***************************************************************************)
PHASE_IDS ==
    <<"intake", "proposal", "factory-init", "specification", "architecture",
      "blueprint", "dev-plan", "implementation", "qa", "packaging",
      "documentation", "deployment", "cleanup">>

NoName == ""

LOCAL InDocs(name) == [dir |-> <<"docs">>, name |-> name]
LOCAL Directory(dir) == [dir |-> dir, name |-> NoName]

\* allowed_outputs of the phases behind intake
PHASE_CONTRACTS ==
    [p \in {"proposal", "factory-init", "specification", "architecture", "blueprint",
            "dev-plan", "implementation", "qa", "packaging", "documentation",
            "deployment", "cleanup"} |->
        CASE p = "proposal"       -> <<InDocs("proposal")>>
          [] p = "factory-init"   -> <<Directory(<<"docs">>), Directory(<<"src">>),
                                       Directory(<<"tests">>), Directory(<<"logs">>)>>
          [] p = "specification"  -> <<InDocs("spec")>>
          [] p = "architecture"   -> <<InDocs("architecture")>>
          [] p = "blueprint"      -> <<InDocs("blueprint")>>
          [] p = "dev-plan"       -> <<InDocs("plan")>>
          [] p = "implementation" -> <<Directory(<<"src">>)>>
          [] p = "qa"             -> <<InDocs("qa-test-plan"),
                                       Directory(<<"tests", "unit">>),
                                       Directory(<<"tests", "integration">>),
                                       Directory(<<"tests", "e2e">>)>>
          [] p = "packaging"      -> <<InDocs("packaging-plan")>>
          [] p = "documentation"  -> <<InDocs("documentation-plan")>>
          [] p = "deployment"     -> <<InDocs("deployment-plan")>>
          [] p = "cleanup"        -> <<InDocs("phase-summary-log")>>]

LOCAL Schema(name, sections, metadata) ==
    [path |-> InDocs(name), required_sections |-> sections, require_metadata |-> metadata]

ARTIFACT_SCHEMAS ==
    [p \in {"proposal", "specification", "architecture", "blueprint", "dev-plan", "qa",
            "packaging", "documentation", "deployment", "cleanup"} |->
        CASE p = "proposal" ->
                 Schema("proposal", {"Problem Statement", "Scope"}, TRUE)
          [] p = "specification" -> Schema("spec", {"Requirements"}, TRUE)
          [] p = "architecture"  -> Schema("architecture", {"Components"}, TRUE)
          [] p = "blueprint"     -> Schema("blueprint", {"Module Structure"}, TRUE)
          [] p = "dev-plan"      -> Schema("plan", {"Implementation Slices"}, TRUE)
          [] p = "qa"            -> Schema("qa-test-plan", {"Test"}, TRUE)
          [] p = "packaging"     -> Schema("packaging-plan", {}, TRUE)
          [] p = "documentation" -> Schema("documentation-plan", {}, TRUE)
          [] p = "deployment"    -> Schema("deployment-plan", {}, TRUE)
          [] p = "cleanup"       -> Schema("phase-summary-log", {}, FALSE)]

=============================================================================
