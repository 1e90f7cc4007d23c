\* Edits of six to nine frames of the three fixtures.
SPECIFICATION Spec
CONSTANTS
    Plans <- SmallPlans
    Expected <- Expectations
    Attack <- Attack1
    Release <- Release1
    TransitionFrames = 2
    ChapterCount = 3
    Null = Null
CHECK_DEADLOCK FALSE
INVARIANTS
    AcceptedPlansRender
    DuckedWhileHeard
    MusicIsGradual
    ChaptersGoOnWhereTheyFadedIn
    ReportFollowsFrames
