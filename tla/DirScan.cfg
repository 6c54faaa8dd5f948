\* Every directory of up to four entries, every pair of caps up to three, none among them.
SPECIFICATION FairSpec
CONSTANTS
    ChunkSize = 2
    MaxLen = 4
    MaxCap = 3
    Times = {1, 2}
INVARIANTS
    TypeOK
    UntruncatedCountExact
    StatCapKeepsCount
    TruncationExplained
    StampsFromSample
    EndsAsScanCycleSays
PROPERTY ScanEnds
\* A scan ends.
CHECK_DEADLOCK FALSE
