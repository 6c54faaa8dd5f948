\* A backlog directory that holds more files than max_files_per_dir.
SPECIFICATION Spec
CONSTANTS
    N = 1
    MaxNodes = 1
    Workers = 1
    Path <- FirstTwice
    BufferDir <- FirstBufferWatched
    Capped = {1}
    Traced = {1}
    Faulty = {}
    Hung = {}
INVARIANT BacklogIsWhole
