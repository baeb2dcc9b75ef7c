\* Two workers, two tasks, two messages in a stream of one, one fault of any kind.
CONSTANTS
    p1 = p1  p2 = p2  w1 = w1  w2 = w2
    NoName = NoName
    Tasks = {t1, t2}
    Procs <- MCProcs
    Names <- MCNames
    NameOf <- OwnNames
    AttemptLimits = {2}
    MaxMsgs = 2
    StreamMax = 1
    BatchSize = 2
    FaultKinds = {"death", "error", "expiry"}
    MaxFaults = 1
    Registers = TRUE
SPECIFICATION Spec
INVARIANTS TypeOK OneHandler RunningHasHandler AckedWasTried PendingIsInFlight DoneHasResult
PROPERTY ImplementsHandover
SYMMETRY Symmetry
