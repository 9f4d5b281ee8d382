SPECIFICATION Spec
CONSTANTS
    Requests = {q1, q2}
    Kinds = {"resume"}
    Homes = {FALSE}
    Length = 3
    Gated = {2}
    MaxRestarts = 1
    MaxManagers = 5
    Nobody = Nobody
INVARIANTS
    SingleExecutor
CHECK_DEADLOCK FALSE
