\* Up to three directories and one node, two slots: a fan-out may have to wait.
SPECIFICATION FairSpec
CONSTANTS
    N = 3
    MaxNodes = 1
    Workers = 2
    Path <- FirstTwice
    BufferDir <- SecondBufferWatched
    Capped = {2}
    Traced = {1}
    Faulty = {2}
    Hung = {}
INVARIANTS
    TypeOK
    WorkersBounded
    MapsHandedOver
    CompleteUnlessExpired
    ErrorsCounted
    LateBatchIsPrefix
    NoPartialBacklog
    LateStartsBounded
PROPERTY CycleEnds
