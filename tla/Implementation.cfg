SPECIFICATION FairSpec
CONSTANTS
    r1 = r1
    r2 = r2
    r3 = r3
    r4 = r4
    v1 = v1
    v2 = v2
    t1 = t1
    t2 = t2
    t3 = t3
    t4 = t4
    Service <- Services
    Subscription <- Subscriptions
    NoTask = NoTask
    NoRequest = NoRequest
    VehiclesOf <- Named
    ConfiguredFor <- Configured
    Lengths <- TwoOrThree
    MaxPublished = 1
    Request = {r1, r2, r3, r4}
    Vehicle = {v1, v2}
    Task = {t1, t2, t3, t4}
    TasksOf <- TwoPairs
    Routed = {t4}
    MaySummarize <- Assigned
    Unreachable = {t1}
    Settings <- BothSettings
INVARIANTS
    MissionIsLinked OwnImplementationOneAtATime
PROPERTIES
    AssignmentIsAnswered DeliversPlans
CHECK_DEADLOCK FALSE
