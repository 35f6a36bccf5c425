SPECIFICATION Spec
CONSTANTS
    r1 = r1
    r2 = r2
    r3 = r3
    r4 = r4
    r5 = r5
    v1 = v1
    v2 = v2
    t1 = t1
    t2 = t2
    t3 = t3
    t4 = t4
    q1 = q1
    NoTask = NoTask
    Planner <- Planners
    PlannerOf <- AirAndGround
    Service <- Services
    Subscription <- Subscriptions
    Request = {r1, r2, r3, r4, r5}
    Vehicle = {v1, v2}
    Task = {t1, t2, t3, t4}
    TasksOf <- Lists
    VehiclesOf <- Entities
    PlannedFor <- Planning
    OptionsOf <- Offered
    Unreachable = {t3}
    RouteQuery = {q1}
    QueryVehicles <- AnyQuery
    Settings <- OnlyOvertaking
INVARIANT MatrixOfItsOptions
CHECK_DEADLOCK FALSE
