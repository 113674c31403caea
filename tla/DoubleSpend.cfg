SPECIFICATION Spec

CONSTANTS
    Facilitators = {f1}
    Owners = {g1}
    TokenAmounts = {1}
    Prices = {1}
    Caps = {1, 2}
    Durations = {2}
    PriceUnit = 1
    PriceScale = 1
    MaxPriceAge = 2
    MaxTime = 3
    MaxPayments = 3
    Identifiers = {i1, i2}
    Facilitator = f1
    Amount = 1
    Faults = {"commit_failed"}
    MaxTx = 2
    MaxFaults = 1

INVARIANTS
    NoDoubleSpend

CHECK_DEADLOCK FALSE
