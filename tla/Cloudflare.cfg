SPECIFICATION CloudSpec

CONSTANTS
    settle = settle
    foreign = foreign
    p1 = p1
    p2 = p2
    p3 = p3
    p4 = p4
    MixedPayments = {p1, p2}
    OrderedPayments = {p1, p2, p3, p4}
    Cents <- MCCents
    Commands = {settle, foreign}
    KindOf <- MCKindOf
    Consumers = {k1, k2}
    MaxBatch = 2
    MaxRetries = 1
    MaxTasks = 1
    Faults = {"send", "record", "forward", "handler"}
    MaxFaults = 2
    Memory = 3
    MaxDeliveries = 6

INVARIANTS
    GoneIsRecorded
    AppliedAgainOnlyIfForgotten
    BudgetIsExact

PROPERTIES
    EveryCommandEnds
    EveryTaskIsDrained

CHECK_DEADLOCK FALSE
