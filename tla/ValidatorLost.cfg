SPECIFICATION FairSpec
CONSTANTS
    r1 = r1
    r2 = r2
    r3 = r3
    t1 = t1
    t2 = t2
    Request <- TwoRequests
    NoRequest = NoRequest
    Id <- TwoRequests
    NoId = NoId
    IdOf <- OwnId
    Task = {}
    TasksOf <- NoTasks
PROPERTIES StillResponds
CHECK_DEADLOCK FALSE
