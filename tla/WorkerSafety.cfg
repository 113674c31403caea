SPECIFICATION Spec

CONSTANTS
    v1 = v1
    None = None
    Mandates = {m1}
    Attempts = {a1}
    Vendors = {v1}
    ReceiptCapable = {v1}
    Terms <- MCTerms
    Amounts = {2}
    Reports <- MCNoReports
    MaxTasks = 3
    ExecutionWorkers = {e1, e2}
    ReconciliationWorkers = {r1, r2}
    Faults = {"crash", "store_error", "transport_error", "facilitator_error"}

SYMMETRY WorkerSymmetry

INVARIANTS
    NoAttemptForgotten
    TypeOK
    AtMostOneDispatch

PROPERTIES
    OutcomesAreFinal
    VendorCalledOnlyWhileReserved

CHECK_DEADLOCK FALSE
