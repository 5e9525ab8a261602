CONSTANTS
    Events = {good, bad}
    Workers = {w1, w2}
    Rules = {r1}
    Malformed = {bad}
    None = None
    MaxAttempts = 2
    BatchSize = 2
    Lease = 2
    BackoffMin = 1
    BackoffStep = 1
    BackoffCap = 2
    Overrun = TRUE
    MaxCrashes = 0
    MaxFaults = 0

SPECIFICATION Spec
INVARIANTS
    LeaseExclusive
