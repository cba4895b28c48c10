CONSTANTS
    Attempts = {a1}
    TxnIds = {t1, t2}
    AnonRows = {}
    Events = {e1, e2}
    Handlers = {h1, h2}
    Sweepers = {s1}
    Workers = {}
    PayloadStatuses = {"PAID", "CANCELLED"}
    MoneyForms = {"exact"}
    None = None
SPECIFICATION Spec
SYMMETRY Symmetry
INVARIANTS
    TypeOK
    NoSilentCollection
    ReceiptIsHonest
    BookingBacked
    SettledAttemptStands
    ReleasedTogether
    ProcessedPaidIsSettled
    ReversalStopsLedger
PROPERTIES
    EvidencePreserved
    ReviewSticky
    RejectionUndoneOnlyInFlight
