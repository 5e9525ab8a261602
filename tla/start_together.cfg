CONSTANTS
    Processes = {p1, p2, p3}
    Last = 3
    Environments <- MCEnvironments
    MaxFaults = 2
SPECIFICATION FairSpec
INVARIANTS
    ServedIsMigrated
PROPERTIES
    SomeoneServes
CHECK_DEADLOCK FALSE
