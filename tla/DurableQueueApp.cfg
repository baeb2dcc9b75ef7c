\* The producer of app.py: POST /task enqueues and never calls create_task.
CONSTANTS
    p1 = p1  p2 = p2  w1 = w1  w2 = w2
    NoName = NoName
    Tasks = {t1}
    Procs <- MCProcs
    Names <- MCNames
    NameOf <- OwnNames
    AttemptLimits = {2}
    MaxMsgs = 1
    StreamMax = 1
    BatchSize = 1
    FaultKinds = {}
    MaxFaults = 0
    Registers = FALSE
SPECIFICATION Spec
INVARIANT AckedIsDone
