\* Two executions with worker names of their own; one of them may die and the
\* other look for what it left.
CONSTANTS
    e1 = e1  e2 = e2  e3 = e3  w1 = w1  w2 = w2  w3 = w3
    NoName = NoName
    Tasks = {t1}
    Execs <- MCExecs
    Names <- MCNames
    NameOf <- OwnNames
    AttemptLimits = {2}
    MaxEpoch = 3
    MaxLives = 1
SPECIFICATION Spec
PROPERTY StaleIsRecovered
