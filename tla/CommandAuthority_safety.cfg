\* Three requests, any of them a retry or a race of another; an exit may come
\* anywhere and may cut either file short.
SPECIFICATION Spec
CONSTANTS
    Connections = {t1, t2, t3}
    CommandIDs = {c1, c2}
    Old = Old
    None = None
    GrantDelays = {TRUE, FALSE}
    MaxLosses = 1
SYMMETRY Symmetry
CHECK_DEADLOCK FALSE
INVARIANTS
    OneSessionPerRequest
    AnswersAreDurable
    SameIDSameReceipt
PROPERTIES
    RevokedStaysOut
