\* The queue: one task and two messages, two deaths or errors, under the fairness
\* of the event loops; the property speaks of the behaviours in which no reader
\* is cut off with messages in hand.
\* The breaker: two callers of one dependency, one of which may be cancelled once.
CONSTANTS
    p1 = p1  p2 = p2  w1 = w1  w2 = w2
    NoName = NoName
    Tasks = {t1}
    Procs <- MCProcs
    Names <- MCNames
    NameOf <- OwnNames
    AttemptLimits = {2}
    MaxMsgs = 2
    StreamMax = 1
    BatchSize = 2
    FaultKinds = {"death", "error"}
    MaxFaults = 2
    Registers = TRUE
    Callers = {c1, c2}
    FailureThreshold = 2
    SuccessThreshold = 2
    HalfOpenMax = 2
    SlowProbes = TRUE
    MaxCancels = 1
SPECIFICATION LiveSpec
INVARIANTS BreakerTypeOK ProbesBounded
PROPERTIES WaitingIsServed OpenIsLeft
