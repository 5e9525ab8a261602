CONSTANTS
    MaxEvents = 2
    PageSize = 1
    Loads = {l1, l2}
    None = None
    Outcomes = {"failed"}
    Picks = {None}
    EventCounts = {1}
    MaxRounds = 1
    MaxFaults = 1
    MaxRetries = 1
SPECIFICATION FairSpec
PROPERTIES
    EventuallyShown
    DemoEnds
    ClosedIsSilent
CHECK_DEADLOCK FALSE
