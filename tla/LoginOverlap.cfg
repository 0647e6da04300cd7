SPECIFICATION Spec
CONSTANTS
    failedAttemptsLimit = 2
    lockoutDurationInSeconds = 2
    MaxPending = 3
    t1 = t1
    t2 = t2
    t3 = t3
    Timers <- MCTimers
    NoTimer = NoTimer
CHECK_DEADLOCK FALSE
INVARIANTS LockIsTimed SomethingTakesOff
PROPERTIES LockoutEnds SignedInLeavesForm
