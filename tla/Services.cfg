\* Every service of a phase, each in its own part of the state graph.
SPECIFICATION Spec
CONSTANTS
    Threads = {"t1", "t2"}
    Mine = {1, 3}
    Wide = {1}
    MaxEvents = 3
    MaxCrashes = 2
    Models = {"a", "b", "c"}
    Policies <- ShortPolicies
    MAX_RETRIES = 4
    Budget = 2
    MaxCalls = 3
    MaxUsage = 5
    Servers = 2
    Tools = {"core", "a", "b"}
    HostOf <- ToolHosts
    CoreTools = {"core"}
    MaxLines = 3
    MaxFacts = 3
    ContractCap = 3
    Limit = 2
    Artifacts <- Written
    BasenameOf <- Names
    Sources = {"a", "b", "inner", "test_ab"}
    NamesIn <- NamesInLine
    Errors = {"e1", "e2"}
    MaxFailures = 3
    MaxDepth = 1
    NoFile = "none"
    Siblings = 3
    Sizes = {1, 3}
    Broken = 1
    Note = 2
    MapCap = 3
    Pipeline <- ShippedPipeline
    AllowedOutputs <- ShippedOutputs
    ArtifactSchemas <- ShippedSchemas
    Replies <- CodeReplies
    Pinned = TRUE
    Order <- MCOrder
    Unknown = "unknown"
INVARIANTS
    OneLostPerCrash
    SeenAsKept
    OnlyAllowedModels
    AnswersAccounted
    FallbackIsLastListing
    KnownToolsValidated
    PinnedReachesPhases
    LargestCauseFirst
    ClosestShown
    ArtifactsStand
    ValidatesGraph
    DownstreamIsLeast
CHECK_DEADLOCK FALSE
