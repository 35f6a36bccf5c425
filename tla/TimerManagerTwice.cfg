SPECIFICATION Spec
CONSTANTS
    Timer = {t1, t2}
    NoTimer = NoTimer
    Delay = {1}
    Period = {1}
    MaxLate = 1
    Coincide = FALSE
    RestartInCallback = TRUE
INVARIANTS OnePlacePerTimer
