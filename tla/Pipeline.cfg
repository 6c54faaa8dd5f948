\* Three directories with up to two links, or four with a stream and its node; one
\* change of the tree; configs of up to two type lines and traces of two days.
SPECIFICATION Spec
CONSTANTS
    Root = root
    a = a
    b = b
    c = c
    Dir = {root, a, b, c}
    NumNames = 2
    NodesName = 1
    NotNode = {2}
    MaxPath = 3
    Nowhere = nowhere
    DayLength = 2
    MaxDays = 2
    Unknown = Unknown
    Configs <- Edited
    Unset = Unset
    Refused = Refused
    Generated = Generated
    BaseTarget <- BasePath
    Scenarios <- AllScenarios
INVARIANTS
    TypeOK
    WatchListComplete
    WatchListSound
    LabelsIdentify
    NodesComplete
    LatestReported
    KindsDisjoint
    ShownAsDeclared
    ConfigUsable
PROPERTY PipelineEnds
\* The cycle ends.
CHECK_DEADLOCK FALSE
