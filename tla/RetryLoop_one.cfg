SPECIFICATION Spec
CONSTANTS
    Runs = {r1}
    maxRetriesPerPhase = 2
    Slugs = {s1, s2}
    MaxFailures = 6
INVARIANTS
    EveryFailureRecorded
PROPERTIES
    ImplementsOutcome
