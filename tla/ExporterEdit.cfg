\* A reload after targets.yml was edited.
SPECIFICATION Spec
CONSTANTS
    NTargets = 2
    Explicit = {}
    Request = {r1}
    Authorised = {r1}
    Remountable = {}
    Editable = {2}
INVARIANT
    EditTakesEffect
\* The process ends.
CHECK_DEADLOCK FALSE
