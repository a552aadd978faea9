SPECIFICATION FairPairSpec
CONSTANTS
    f1 = f1
    f2 = f2
    Fields = {f1, f2}
    Values = {a, b}
    Null = Null
    Absent = Absent
    NoDigest = NoDigest
    MaxEdits = 2
    ResolverSet <- AllResolvers
    Drops <- NoDrops
INVARIANTS
    PairTypeOK
    SnapshotsAgree
PROPERTIES
    NoEditOverwritten
    Settles
