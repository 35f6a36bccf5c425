SPECIFICATION FairSpec
CONSTANTS
    v1 = v1
    v2 = v2
    v3 = v3
    b1 = b1
    b2 = b2
    b3 = b3
    Vehicle = {v1, v2, v3}
    Task = {1, 2, 3}
    Coordinated = {0, 1, 2}
    EntityList <- Lists
    MaxPosition = 2
    JointSettings <- JointCases
    Eligible = {1, 2}
    Numbering = 10
    MissionSettings <- MissionCases
    Batch = {b1, b2, b3}
    BatchTasks <- ListOfBatch
    BatchVehicles <- VehiclesOfBatch
    Related = {b1}
    PlansFor <- Routes
    BatchSettings <- BatchCases
INVARIANTS CoordinationTypeOK SamePlanningStates AskedInFullOnce NothingAskedInItsPlace
           SegmentsCoverPlan SegmentsInTurn CompleteWhenFlown
           SummariesAreOwn
PROPERTIES TakenIsAsked PlanIsFlown BatchIsAnswered
CHECK_DEADLOCK FALSE
