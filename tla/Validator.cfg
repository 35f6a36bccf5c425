SPECIFICATION FairSpec
CONSTANTS
    r1 = r1
    r2 = r2
    r3 = r3
    t1 = t1
    t2 = t2
    Request <- ThreeRequests
    NoRequest = NoRequest
    Id <- ThreeRequests
    NoId = NoId
    IdOf <- OwnId
    Task = {t1, t2}
    TasksOf <- EachItsTask
INVARIANTS TypeOK SettledOnce InOrder FrontIsPublished UnpublishedKeepsDetails RightlyAddressed
PROPERTIES SettledIfAnswered SettledIfPatient
CHECK_DEADLOCK FALSE
