CONSTANTS
    FlushEvery = 2
    MaxCalls = 5
    MaxEvents = 5
    MaxTears = 2
    MaxTick = 2
    MaxSaves = 3
    MaxSpoils = 2
    CommitTicks = {1, 2}
    MaxFiles = 2
    MaxCuts = 2
    th1 = th1 th2 = th2
    Threads <- MCThreads
    MaxDepth = 2
    n1 = n1 n2 = n2 n3 = n3 n4 = n4 rq1 = rq1
    Nodes <- MCNodes
    Self = n1
    F = 1
    Faulty <- MCFaulty
    Requests <- MCRequests
    Names <- MCNodes
    Strays <- MCStrays MaxStrays = 1
    Views = {0, 1}
    Sequences = {1}
    MaxRepeats = 1
    MaxRecords = 1
SPECIFICATION SpecOne
INVARIANTS
    TypesOK
    ChainBreaksOnlyAtLoss StorageIsWhole CommittedSurvive IndexCanBeRebuilt NoTornCommit
    OpenForSomebody StackCountsBlocks
    CertificatesHaveHonest OwnVoteIsBacked OneCertificate
SYMMETRY Symmetry
CHECK_DEADLOCK FALSE
