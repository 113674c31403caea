SPECIFICATION OperatorsSpec

CONSTANTS
    NoWallet = NoWallet
    Requests = {r1, r2}
    Wallets = {w1, w2}
    Faults = {"query", "statement", "crash"}
    MaxFaults = 2
    MaxUpdates = 1
    Chains = {c1, c2}
    MaxLate = 1
    MaxNews = 2
    MaxLoads = 2
    Vendors = {v1, v2}
    Workloads = {"none", "stale_unknown"}
    Environments <- MCEnvironments

INVARIANTS
    GovernedMeansWallet
    LoneLinkRepairs
    SavedBindingIsItsWallets
    ArrivedIsLinked
    DataIsOfSession
    ReadyIsOperational

SYMMETRY Symmetry

CHECK_DEADLOCK FALSE
