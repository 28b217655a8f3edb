SPECIFICATION Spec
CONSTANTS
    Requests = {r1, r2}
    Sessions = {s1}
    MaxVersion = 2
    MaxTokens = 3
    MaxLinks = 2
SYMMETRY Symmetry
INVARIANTS AcceptedIsCurrent ExchangedOnce
PROPERTIES RevokedStaysOut
CHECK_DEADLOCK FALSE
