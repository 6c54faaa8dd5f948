\* The refinement and its liveness, and the writer's.
SPECIFICATION FairSpec
CONSTANTS
    Reader = {s1, s2}
    MaxBatch = 2
    MaxErrors = 0
    MaxReload = 0
    Sizes = {}
PROPERTIES
    StoreSpec
    BatchPublished
