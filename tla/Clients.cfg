\* The editor's chat, the evaluation harness and the Commit0 benchmark.
SPECIFICATION Spec
CONSTANTS
    Turns = {"t1", "t2"}
    Gates = {"proposal", "deployment"}
    Advances = 2
    MaxRuns = 2
    MaxOverrides = 1
    Tasks = 2
    Modules = {"m1", "m2"}
    ModuleOf <- Library
    Skeleton <- Stubbed
    MaxWrites = 2
    MaxFetches = 1
INVARIANTS
    RunningIsDriven
    ResolvedIsFinal
    GraftsAreFresh
PROPERTIES
    ApprovedAsRead
    SuiteEnds
CHECK_DEADLOCK FALSE
