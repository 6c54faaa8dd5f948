\* One auto-discovered target whose volume may come and go, one good and one
\* refused reload, edits of targets.yml.
SPECIFICATION FairSpec
CONSTANTS
    NTargets = 1
    Explicit = {}
    Request = {r1, r2}
    Authorised = {r1}
    Remountable = {1}
    Editable = {1}
PROPERTIES
    ReloadServed
    Converges
    StopTerminates
\* The process ends.
CHECK_DEADLOCK FALSE
