\* One task with two attempts, as in test_fail_exhausted_max_attempts.
CONSTANTS
    e1 = e1  e2 = e2  e3 = e3  w1 = w1  w2 = w2  w3 = w3
    NoName = NoName
    Tasks = {t1}
    Execs <- MCExecs
    Names <- MCNames
    NameOf <- OwnNames
    AttemptLimits = {2}
    MaxEpoch = 4
    MaxLives = 1
SPECIFICATION Spec
INVARIANT ExhaustedIsFailed
