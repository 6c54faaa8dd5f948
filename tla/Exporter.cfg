\* Discovery races and coalescing reloads: two auto-discovered targets whose
\* volumes come and go, two good reloads and one that is refused.
SPECIFICATION Spec
CONSTANTS
    NTargets = 2
    Explicit = {}
    Request = {r1, r2, r3}
    Authorised = {r1, r2}
    Remountable = {1, 2}
    Editable = {}
SYMMETRY RequestSymmetry
INVARIANTS
    TypeOK
    QuietTotalExact
    QuietWatchListCurrent
    NoLostReload
PROPERTY StopWaitsForLoops
\* The process ends.
CHECK_DEADLOCK FALSE
