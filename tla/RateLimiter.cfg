SPECIFICATION LimiterSpec
CONSTANTS
    Requests = {r1, r2, r3, r4}
    Inputs <- SmallInputs
    Clients = {"a", "b", "proxy"}
    Trusted = {"proxy"}
    Backends = {"memory", "firestore"}
    BucketLimit <- SmallLimits
    Window = 2
    MaxTries = 1
    MaxClock = 5
INVARIANTS
    IntervalBound
    DeniedOnlyWhenFull
PROPERTIES
    ImplementsWindow
SYMMETRY AnyRequest
CHECK_DEADLOCK FALSE
