CONSTANTS
    ann = ann
    bob = bob
    e1 = e1
    e2 = e2
    r1 = r1
    r2 = r2
    a1 = a1
    a2 = a2
    b1 = b1
    i1 = i1
    i1x = i1x
    i2 = i2
    Calls = {l1, l2}
    Items = {x1}
    Users = {ann, bob}
    Clients = {ann}
    Events = {e1, e2}
    Rules = {r1, r2}
    Names = {a1, a2, b1}
    Owner <- MCOwner
    Ids = {i1, i1x, i2}
    Blank = Blank
    Uuid <- MCUuid
    Text <- MCText
    Requests <- MCRequests
    None = None
    MaxEvents = 2
    MaxRows = 1
    MaxFaults = 1
    MaxReceived = 2
    PageSize = 2
    Outcomes = {"processed", "failed"}
    Picks = {"pending"}
    EventCounts = {1, 2}
    MaxRounds = 1
    Values = {"a", "b"}
    MaxListReclaims = 0
    MaxReclaims = 1
    MaxPollFaults = 2
    MaxForeign = 1
    MaxChanges = 2
SYMMETRY Symmetry
SPECIFICATION ScreensSpec
INVARIANTS
    WatchedIffNeeded
    NothingStuck
    PollsIffWatched
    RulesCurrent
    ShownIsAudited
    AuditIsOwn
PROPERTIES
    FactsTrue
CHECK_DEADLOCK FALSE
