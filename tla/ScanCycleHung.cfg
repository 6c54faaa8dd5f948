\* A directory on a mount that does not answer.
SPECIFICATION FairSpec
CONSTANTS
    N = 1
    MaxNodes = 1
    Workers = 1
    Path <- FirstTwice
    BufferDir <- FirstBufferWatched
    Capped = {}
    Traced = {1}
    Faulty = {}
    Hung = {1}
PROPERTY HardTimeout
