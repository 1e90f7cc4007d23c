\* The browser probe and the doctor, their children and timers in every order.
SPECIFICATION ChecksFairSpec
CONSTANTS
    Helpers = {browser, renderer}
    Null = Null
CHECK_DEADLOCK FALSE
INVARIANTS
    SettledMeansReaped
    ReportsAreTrue
PROPERTIES
    ProgramsEnd
