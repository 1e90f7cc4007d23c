\* Two turns, three requests of either, two evaluations kept.
SPECIFICATION ApprovalSpec
CONSTANTS
    snapshot = snapshot
    edit = edit
    other = other
    Params <- SomeParams
    Calls <- TwoCalls
    MaxTurns = 2
    MaxAsks = 3
    MaxEvaluations = 2
CHECK_DEADLOCK FALSE
INVARIANTS
    ApprovedInSequence
PROPERTIES
    NextCallApproved
