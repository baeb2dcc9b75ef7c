\* Three executions with worker names of their own, one task id used twice;
\* three correct engines and a faulty one, two views, two upsets.
CONSTANTS
    e1 = e1  e2 = e2  e3 = e3  w1 = w1  w2 = w2  w3 = w3
    NoName = NoName
    Tasks = {t1}
    Execs <- ThreeExecs
    Names <- ThreeNames
    NameOf <- ThreeOwnNames
    AttemptLimits = {1, 2}
    MaxEpoch = 3
    MaxLives = 2
    n1 = n1  n2 = n2  n3 = n3  bad = bad
    Peers <- MCPeers
    Byzantine <- MCByzantine
    Digests = {d1, d2}
    MaxView = 1
    MaxRounds = 2
    MaxUpsets = 2
SPECIFICATION SpecOne
SYMMETRY Symmetry
INVARIANTS TypeOK StaleExecutionRefused UniqueGrant ResultOfOwner ForeignRecordIsRefused
    PbftTypeOK Agreement DecisionIsBacked
PROPERTY ImplementsLifecycle
CHECK_DEADLOCK FALSE
