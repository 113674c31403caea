SPECIFICATION AnswersSpec

CONSTANTS
    Mandates = {m1, m2}
    Faults = {"rpc", "wait_timeout", "commit_failed", "commit_unknown", "crash"}
    MaxTx = 5
    MaxFaults = 3
    Payments = {market, research}
    Slow = {research}
    MerchantFaults = {"network", "reset", "unasked", "declined", "signing", "provider",
                      "verification", "settlement", "verdict"}
    MaxRestarts = 1

INVARIANTS
    StoreFollowsChain
    DefiniteResultsAreTrue

PROPERTIES
    LockIsReleased
    SignedPaymentsAreReconciled

CHECK_DEADLOCK FALSE
