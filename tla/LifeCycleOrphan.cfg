SPECIFICATION Spec
CONSTANTS
    t1 = t1
    t2 = t2
    Task = {t1, t2}
    Located = {t2}
    Unserviceable = {t2}
    Configuration <- Configurations
    MaxClients = 6
INVARIANT OnlyOnRecord
CHECK_DEADLOCK FALSE
