CONSTANTS
    Calls = {c1, c2}
    Sessions = {s1, s2}
    None = None
    MaxExpiries = 1
    MaxFaults = 1
    MaxKills = 1
    MaxMistakes = 1
SYMMETRY Symmetry
SPECIFICATION Spec
INVARIANTS
    TypeOK
    NobodyStranded
    OneRefresh
    RetryUsesNewToken
    SpentTokenUnused
    StorageIsPair
    UserIsOwner
PROPERTIES
    SessionKept
CHECK_DEADLOCK FALSE
