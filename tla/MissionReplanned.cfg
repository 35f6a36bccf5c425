SPECIFICATION Spec
CONSTANTS
    v1 = v1
    v2 = v2
    v3 = v3
    b1 = b1
    b2 = b2
    b3 = b3
    Vehicle = {v1, v2, v3}
    Task = {1, 2, 3}
    Coordinated = {0, 1, 2}
    EntityList <- Lists
    MaxPosition = 2
    JointSettings <- NoJointCase
    Eligible = {1, 2}
    Numbering = 10
    MissionSettings <- RenumberedCases
    Batch = {b1, b2, b3}
    BatchTasks <- ListOfBatch
    BatchVehicles <- VehiclesOfBatch
    Related = {b1}
    PlansFor <- Routes
    BatchSettings <- NoBatchCase
INVARIANT NextSegmentFollows
CHECK_DEADLOCK FALSE
