\* Two executions of one process: both report under its worker name.
CONSTANTS
    e1 = e1  e2 = e2  e3 = e3  w1 = w1  w2 = w2  w3 = w3
    NoName = NoName
    Tasks = {t1}
    Execs <- MCExecs
    Names <- MCNames
    NameOf <- SharedName
    AttemptLimits = {2}
    MaxEpoch = 3
    MaxLives = 1
SPECIFICATION Spec
INVARIANT StaleExecutionRefused
