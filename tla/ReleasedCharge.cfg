SPECIFICATION Spec

CONSTANTS
    v1 = v1
    None = None
    Mandates = {m1}
    Attempts = {a1}
    Vendors = {v1}
    ReceiptCapable = {v1}
    Terms <- MCTerms
    Amounts = {2}
    Reports <- MCReports
    MaxTasks = 2
    ExecutionWorkers = {e1}
    ReconciliationWorkers = {r1}
    Faults = {"store_error"}

SYMMETRY WorkerSymmetry

INVARIANTS
    ChargedIsNeverReleased

CHECK_DEADLOCK FALSE
