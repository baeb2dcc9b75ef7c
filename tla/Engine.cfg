\* Two processes, two coroutines, one task that somebody registered.
CONSTANTS
    Tasks = {t1, t2, t3}
    Registered = {t1}
    Producers = {p1, p2}
    Workers = {w1, w2}
    MaxDepth = 1
    Names = {w1, w2}
    NoName = NoName
    NameOf <- MCNameOf
    AttemptLimits = {2}
    Coroutines = {c1, c2}
    MaxRetries = 2
    MaxInputs = 4
SYMMETRY Symmetric
SPECIFICATION Spec
INVARIANTS TypeOK DepthBounded AcceptedIsNotLost ClaimComesFirst OutcomeEventEndsRun OrphansHaveCause
PROPERTY ImplementsHandover
CHECK_DEADLOCK FALSE
