SPECIFICATION MCTreasurySpec

CONSTANTS
    Facilitators = {f1}
    Owners = {g1, g2}
    TokenAmounts = {1}
    Prices = {1}
    Caps = {1, 2}
    Durations = {2}
    PriceUnit = 1
    PriceScale = 1
    MaxPriceAge = 1
    MaxTime = 3
    MaxPayments = 3
    Identifiers = {i1, i2}
    Facilitator = f1
    Amount = 1
    Faults = {"rpc", "wait_timeout", "commit_failed", "crash"}
    MaxTx = 3
    MaxFaults = 1
    AloneAmounts = {1, 3}
    AlonePrices = {0, 1, 5}
    AloneCaps = {0, 1}
    AloneDurations = {2, 3}
    AloneScale = 2
    AloneMaxTime = 4

INVARIANTS
    ReservedIsSettled
    StoreAgreesWithTreasury
    SpendRateStaysBounded

CHECK_DEADLOCK FALSE
