SPECIFICATION FairSpec
CONSTANTS
    Requests = {q1, q2, q3}
    Kinds = {"resume", "advance", "approve", "stop"}
    Homes = {TRUE, FALSE}
    Length = 3
    Gated = {1, 2}
    MaxRestarts = 1
    MaxManagers = 4
    Nobody = Nobody
INVARIANTS
    HomeSingleExecutor
    HomeIsCurrent
    StoppedIsIdle
    HomeGatesHold
PROPERTIES
    RequestsAnswered
CHECK_DEADLOCK FALSE
