SPECIFICATION Spec
CONSTANTS
    Configs <- MCConfigs
    N = 2
    MaxRounds = 2
INVARIANTS
    CompletedIsVerified
    HostReportCurrent
    TestsOffline
    BoxRemoved
PROPERTIES
    PassEnds
    ImplementsOutcome
