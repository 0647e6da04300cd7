SPECIFICATION Safe
CONSTANTS
    failedAttemptsLimit = 3
    lockoutDurationInSeconds = 2
    MaxPending = 4
    t1 = t1
    t2 = t2
    t3 = t3
    Timers <- MCTimers
    NoTimer = NoTimer
SYMMETRY TimerSymmetry
CHECK_DEADLOCK FALSE
INVARIANT TimerOff
