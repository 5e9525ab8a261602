CONSTANTS
    Events = {good, bad}
    Workers = {w1, w2}
    Rules = {r1}
    Malformed = {bad}
    None = None
    MaxAttempts = 2
    BatchSize = 2
    Lease = 2
    BackoffMin = 1
    BackoffStep = 1
    BackoffCap = 2
    Overrun = TRUE
    MaxCrashes = 1
    MaxFaults = 1
SPECIFICATION FairSpec
INVARIANTS
    CountedOnce
    GoodPayloadKeepsAttempts
PROPERTIES
    LedgerSafe
    LedgerLive
