\* Two masterings of one output path, a third program, failures everywhere.
SPECIFICATION FairMastering
CONSTANTS
    Attempts = {a1, a2}
    Other = Other
    None = None
CHECK_DEADLOCK FALSE
INVARIANTS
    VerdictMatchesOutput
PROPERTIES
    OnlyMeasuredIsPublished
    AbortsAreHeeded
