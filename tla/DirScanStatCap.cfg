\* Both caps set, only the stat cap reached.
SPECIFICATION Spec
CONSTANTS
    ChunkSize = 2
    MaxLen = 4
    MaxCap = 4
    Times = {1, 2}
INVARIANT StatCapKeepsCountWithFileCap
\* A scan ends.
CHECK_DEADLOCK FALSE
