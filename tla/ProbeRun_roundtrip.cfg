\* The driver against a model that calls up to three tools, failures everywhere.
SPECIFICATION FairSpec
CONSTANTS
    live = live
    old = old
    bad = bad
    other = other
    s1 = s1
    s2 = s2
    new = new
    wrong = wrong
    blank = blank
    fields = fields
    CommandIDs <- IDs
    Scenes = {s1, s2}
    Texts = {new, wrong}
    BadTexts = {blank}
    Original = original
    PROPOSAL <- Asked
    stale <- Stale
    empty <- Blank
    ModelProposals <- FromModel
    MaxRevision = 2
    MaxCalls = 3
    None = None
CHECK_DEADLOCK FALSE
INVARIANTS
    OnlyTheRoundTripCounts
PROPERTIES
    RunsEnd
