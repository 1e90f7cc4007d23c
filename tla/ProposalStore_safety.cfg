\* Three commands and two revisions to be stale against.
SPECIFICATION Spec
CONSTANTS
    CommandIDs = {c1, c2, c3}
    Scenes = {s1, s2}
    Texts = {x, y}
    BadTexts = {blank}
    KeyOrders = {o1}
    Original = original
    Agents = {a1, a2}
    Creators = {k1}
    MaxRevision = 2
SYMMETRY Symmetry
CHECK_DEADLOCK FALSE
INVARIANTS
    InspectedIsWhatCounts
    RetriedAcceptSucceeds
PROPERTIES
    ImplementsHistory
