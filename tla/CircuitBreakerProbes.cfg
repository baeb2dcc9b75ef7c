\* Two callers, none of them slow or cancelled.
CONSTANTS
    Callers = {c1, c2}
    FailureThreshold = 2
    SuccessThreshold = 2
    HalfOpenMax = 2
    SlowProbes = FALSE
    MaxCancels = 0
SPECIFICATION BreakerSpec
INVARIANT IdleHalfOpenAdmits
