SPECIFICATION FairSpec

CONSTANTS
    v1 = v1
    None = None
    Mandates = {m1}
    Attempts = {a1, a2}
    Vendors = {v1}
    ReceiptCapable = {v1}
    Terms <- MCTerms
    Amounts = {2}
    Reports <- MCNoReports
    MaxTasks = 2
    ExecutionWorkers = {e1}
    ReconciliationWorkers = {r1}
    Faults = {}

PROPERTIES
    EveryAttemptConcludes
    EveryTaskEnds

CHECK_DEADLOCK FALSE
