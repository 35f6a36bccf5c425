SPECIFICATION FairSpec
CONSTANTS
    t1 = t1
    t2 = t2
    Task = {t1, t2}
    Located = {t2}
    Unserviceable = {t2}
    Configuration <- Configurations
    MaxClients = 6
INVARIANTS DistinctIds ServiceIsOnRecord RecordIsServed DestroyedWhenFinished
PROPERTIES RequestedEndIsReached KilledIsDestroyed
CHECK_DEADLOCK FALSE
