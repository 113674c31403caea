SPECIFICATION StoresSpec

CONSTANTS
    v1 = v1
    g1 = g1
    m1 = m1
    o1 = o1
    issue = issue
    pay1 = pay1
    pay2 = pay2
    drift = drift
    read = read
    p1 = p1
    p2 = p2
    c1 = c1
    c2 = c2
    NoId = NoId
    NoClient = NoClient
    VendorIds = {v1}
    MaxInteger = 3
    SeedStore <- MCSeed
    Writers = {issue, pay1, pay2}
    Readers = {read}
    Processes = {p1, p2}
    Clients = {c1, c2}
    ProcessOf <- MCProcessOf
    Throws <- MCThrows
    Result <- MCResult
    Faults = {"statement_error"}
    Fragile = {c1}
    Callers = {q1, q2}
    Provided = {{}, {1, 2}, {1, 2, 3}, {1, 2, 3, 4}, {1, 2, 3, 4, 5, 6}}
    MaxRestarts = 1

INVARIANTS
    ConnectionsAreAccountedFor
    RecordedIsThere

PROPERTIES
    StoresAreAtomic
    EveryCallEnds
    EveryProcessGetsReady

CHECK_DEADLOCK FALSE
