SPECIFICATION Spec
CONSTANTS
    poll = poll
    work = work
    r1 = r1
    r2 = r2
    k1 = k1
    k2 = k2
    Recs = {r1, r2}
    Keys = {k1, k2}
    Settings <- AloneOrApart
    NoRec = NoRec
INVARIANTS
    Findable
    IndexExact
