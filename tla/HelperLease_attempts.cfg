\* Two attempts in a row, two pids so that one can be taken over by a foreign
\* process, a client in cancel, exits that may cut the file short.  A handler
\* set after the exit of its helper is still called.
SPECIFICATION FairSpec
CONSTANTS
    Leases = {l1, l2}
    Pids = {p1, p2}
    OldLeases = {l1}
    OldPids = {p1}
    Foreigners = {f1}
    Threads = {t1}
    Notes = {n1}
    None = None
    LateHandler = {TRUE}
    TornWrites = TRUE
    WritesFail = TRUE
CHECK_DEADLOCK FALSE
INVARIANTS
    HelperAccounted
    CheckedSignalsHitHelpers
    AnswersStayTrue
    StoreIsSound
PROPERTIES
    AttemptsStand
    CommandsAndAttemptsEnd
