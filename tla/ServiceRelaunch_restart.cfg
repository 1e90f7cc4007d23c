\* Polls that may overlap, three services, kills at any stage.
SPECIFICATION FairRelaunch
CONSTANTS
    Services = {1, 2, 3}
    Polls = {p1, p2}
    MaxAttempts = 1
    MaxKills = 1
    NoOne = NoOne
CHECK_DEADLOCK FALSE
INVARIANTS
    OneVerdict
PROPERTIES
    ConnectedAgain
    LeftoversEnd
