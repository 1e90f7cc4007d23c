\* Two calls of start in the same or in other roots, with cancels and restarts.
SPECIFICATION FairSpec
CONSTANTS
    r1 = r1
    r2 = r2
    r3 = r3
    x = x
    y = y
    Calls = {c1, c2}
    Roots <- ThreeRoots
    Ids <- TwoIds
    IdOf <- Names
    None = None
CHECK_DEADLOCK FALSE
INVARIANTS
    ReceiptsAreTrue
    RestartIsReachable
PROPERTIES
    AbortedAttemptsSettle
