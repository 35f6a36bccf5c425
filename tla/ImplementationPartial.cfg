SPECIFICATION Spec
CONSTANTS
    r1 = r1
    r2 = r2
    r3 = r3
    r4 = r4
    v1 = v1
    v2 = v2
    t1 = t1
    t2 = t2
    t3 = t3
    t4 = t4
    Service <- Services
    Subscription <- Subscriptions
    NoTask = NoTask
    NoRequest = NoRequest
    VehiclesOf <- Named
    ConfiguredFor <- Configured
    Lengths <- TwoOrThree
    MaxPublished = 1
    Request = {r1, r2}
    Vehicle = {v1, v2}
    Task = {t2}
    TasksOf <- OnlyT2
    Routed = {t2}
    MaySummarize <- OnlyT2ByV1
    Unreachable = {}
    Settings <- OnlyOvertaking
INVARIANT ImplementationIsWhole
CHECK_DEADLOCK FALSE
