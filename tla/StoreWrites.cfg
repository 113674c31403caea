SPECIFICATION Spec

CONSTANTS
    v1 = v1
    v2 = v2
    g1 = g1
    m1 = m1
    m2 = m2
    a1 = a1
    a2 = a2
    t1 = t1
    p1 = p1
    p2 = p2
    o1 = o1
    o2 = o2
    NoId = NoId
    VendorIds = {v1, v2}
    MaxInteger = 3
    Candidates <- MCCandidates
    SeedStore <- MCSeed

INVARIANTS
    ReadBackIsWritten
    CheckedStoresAreStorable
    StoredIsIntact
