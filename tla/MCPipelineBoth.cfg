SPECIFICATION FairSpec
CONSTANTS
    kf = kf
    vf = vf
    Fields = {kf, vf}
    Values = {0, 1, 2, 3}
    Null = Null
    Absent = Absent
    NoDigest = NoDigest
    Workers = {w1}
    Resolver <- FieldLevel
    KeyFields = {kf}
    OnAmbiguous = "review"
    Configs <- AnyConfig
    Environments <- BothEnvironments
    NewRecords <- LeftOnly
    EditFields = {vf}
    Fresh = TRUE
    Twins = FALSE
    MaxCreates = 1
    MaxRecs = 1
    MaxUserSteps = 3
    MaxTasks = 2
    Gone = Gone
    Thin = Thin
    NoRef = NoRef
CHECK_DEADLOCK FALSE
PROPERTIES
    Converges
    SourceUntouched
