SPECIFICATION FairSpec
CONSTANTS
    Timer = {t1, t2}
    NoTimer = NoTimer
    Delay = {1, 2}
    Period = {1}
    MaxLate = 1
    Coincide = FALSE
    RestartInCallback = FALSE
INVARIANTS NoDanglingReference OnePlacePerTimer
PROPERTIES KeepsPromise OverdueTimerIsServed
