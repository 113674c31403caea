SPECIFICATION LedgerSpec

CONSTANTS
    v1 = v1
    v2 = v2
    Mandates = {m1, m2}
    Attempts = {a1, a2}
    Vendors = {v1, v2}
    ReceiptCapable = {v1}
    Terms <- MCTerms
    Amounts = {1, 2}
    Reports <- MCReports
    None = None

SYMMETRY LedgerSymmetry

INVARIANTS
    LedgerTypeOK
    ReservationBacked
    BudgetNeverExceeded
    StatusMatchesReservation
    ConsumedIsAccounted

PROPERTIES
    ImplementsPaymentLedger

CHECK_DEADLOCK FALSE
