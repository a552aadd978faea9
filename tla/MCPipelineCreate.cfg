SPECIFICATION Spec
CONSTANTS
    kf = kf
    vf = vf
    Fields = {kf, vf}
    Values = {0, 1}
    Null = Null
    Absent = Absent
    NoDigest = NoDigest
    Workers = {w1, w2}
    Resolver <- FieldLevel
    KeyFields = {kf}
    OnAmbiguous = "review"
    Configs <- BothWays
    Environments <- CreateEnvironments
    NewRecords <- LeftOnly
    EditFields = {vf}
    Fresh = FALSE
    Twins = FALSE
    MaxCreates = 1
    MaxRecs = 2
    MaxUserSteps = 2
    MaxTasks = 2
    Gone = Gone
    Thin = Thin
    NoRef = NoRef
SYMMETRY WorkerSymmetry
CHECK_DEADLOCK FALSE
INVARIANTS
    NoDuplicates
    LinksPaired
