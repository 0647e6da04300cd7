SPECIFICATION Spec
CONSTANTS
    failedAttemptsLimit = 3
    lockoutDurationInSeconds = 2
    MaxPending = 3
    t1 = t1
    t2 = t2
    t3 = t3
    Timers <- MCTimers
    NoTimer = NoTimer
CHECK_DEADLOCK FALSE
INVARIANTS TypeOK TimerOff
PROPERTIES FullLockout ImplementsLockout CountdownRuns
