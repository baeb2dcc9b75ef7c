\* One process and one coroutine, one registered task.
CONSTANTS
    Tasks = {t1}
    Registered = {t1}
    Producers = {p1}
    Workers = {w1}
    MaxDepth = 1
    Names = {w1}
    NoName = NoName
    NameOf <- MCNameOf
    AttemptLimits = {2}
    Coroutines = {c1}
    MaxRetries = 2
    MaxInputs = 4
SPECIFICATION Spec
INVARIANT FailedIsNotDone
CHECK_DEADLOCK FALSE
