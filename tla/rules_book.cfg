CONSTANTS
    ann = ann
    bob = bob
    equal = equal
    absent = absent
    null = null
    other = other
    demo1 = demo1
    demo2 = demo2
    Handlers = {h1, h2}
    Workers = {w1}
    Users = {ann, bob}
    Names = {"a", "demo"}
    Types = {"balance_drop", "swap_quote"}
    DemoName = "demo"
    Thresholds = {1000}
    Null = Null
    Rules = {r1, r2}
    None = None
    Inputs <- MCInputs
    Patches <- MCFewPatches
    Events = {equal, absent, null, other, demo1, demo2}
    Event <- MCEvent
    Arrivals = {equal, absent, null, other}
    Offers <- MCOffers
    Counts = {2}
    DemoOverlap = FALSE
SYMMETRY Symmetry
SPECIFICATION Spec
INVARIANTS
    MatchedIsOwn
    SimulatedInOrder
    OneDemoRule
PROPERTIES
    OldestApplies
    DeletedStays
