\* Two scrapes against two batches, a reload and the other writers.
SPECIFICATION Spec
CONSTANTS
    Reader = {s1, s2}
    MaxBatch = 2
    MaxErrors = 1
    MaxReload = 1
    Sizes = {1}
SYMMETRY ReaderSymmetry
INVARIANTS
    TypeOK
    SnapshotsAreWhole
    ErrorsCoverShown
    ScrapesNeverGoBack
