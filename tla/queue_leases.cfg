CONSTANTS
    Events = {good, bad}
    Workers = {w1, w2}
    Rules = {r1}
    Malformed = {bad}
    None = None
    MaxAttempts = 2
    BatchSize = 2
    Lease = 3
    BackoffMin = 1
    BackoffStep = 1
    BackoffCap = 2
    Overrun = FALSE
    MaxCrashes = 1
    MaxFaults = 2
SYMMETRY WorkerSymmetry
SPECIFICATION Spec
INVARIANTS
    LeaseExclusive
    HolderOwnsRow
