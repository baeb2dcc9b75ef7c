\* One worker dies once and is restarted; the other stays.
CONSTANTS
    p1 = p1  p2 = p2  w1 = w1  w2 = w2
    NoName = NoName
    Tasks = {t1}
    Procs <- MCProcs
    Names <- MCNames
    NameOf <- OwnNames
    AttemptLimits = {2}
    MaxMsgs = 1
    StreamMax = 1
    BatchSize = 1
    FaultKinds = {"death"}
    MaxFaults = 1
    Registers = TRUE
SPECIFICATION FairSpec
PROPERTY AtLeastOnce
