CONSTANTS
    ra = ra
    k1 = k1
    x = x
    y = y
    Handlers = {h1, h2}
    Users = {u1, u2}
    Refs = {ra}
    Keys = {k1}
    Bodies = {x, y}
    Messages <- MCMessages
    Ids = {i1, i2}
    None = None
    MaxDups = 1
    MaxFaults = 1
    MaxRemaps = 1
SPECIFICATION FairSpec
INVARIANTS
    OneEventPerKey
    AnswersHonest
    AcceptedOnce
    ReplayFindsEvent
PROPERTIES
    EventuallyAcknowledged
CHECK_DEADLOCK FALSE
