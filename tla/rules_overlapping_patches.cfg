CONSTANTS
    ann = ann
    bob = bob
    equal = equal
    absent = absent
    null = null
    other = other
    demo1 = demo1
    demo2 = demo2
    Handlers = {h1, h2}
    Workers = {w1}
    Users = {ann, bob}
    Names = {"a", "demo"}
    Types = {"balance_drop", "swap_quote"}
    DemoName = "demo"
    Thresholds = {1000}
    Null = Null
    Rules = {r1}
    None = None
    Inputs <- MCInputs
    Patches <- MCPatches
    Events = {}
    Event <- MCNoEvent
    Arrivals = {}
    Offers = {{}}
    Counts = {}
    DemoOverlap = FALSE
SYMMETRY Symmetry
SPECIFICATION Spec
PROPERTIES
    OmittedThresholdKept
