\* A scrape that overlaps the first SetBatch.
SPECIFICATION Spec
CONSTANTS
    Reader = {s1}
    MaxBatch = 1
    MaxErrors = 0
    MaxReload = 0
    Sizes = {}
INVARIANT ColdStartHidden
