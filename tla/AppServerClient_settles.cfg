\* Two requests, two waiters on two kinds, a buffer of one, two lines; fair
\* timers and events, a child that need not cooperate.
SPECIFICATION FairSpec
CONSTANTS
    MaxRequests = 2
    Waiters = {w1, w2}
    Kinds = {turn, other}
    MaxNotifications = 1
    MaxLines = 2
CHECK_DEADLOCK FALSE
INVARIANTS
    NobodyLeftBehind
    NothingMissed
PROPERTIES
    EverythingSettles
    CloseReturns
