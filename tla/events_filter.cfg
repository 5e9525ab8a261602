CONSTANTS
    MaxEvents = 1
    PageSize = 1
    Loads = {l1}
    None = None
    Outcomes = {"processed", "failed"}
    Picks = {None, "pending"}
    EventCounts = {}
    MaxRounds = 1
    MaxFaults = 0
    MaxRetries = 0
SPECIFICATION Spec
INVARIANTS
    RowsAreFiltered
CHECK_DEADLOCK FALSE
