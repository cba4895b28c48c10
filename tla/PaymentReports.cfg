CONSTANTS
    Attempts = {a1}
    TxnIds = {t1}
    AnonRows = {r1}
    Events = {e1, e2}
    Handlers = {h1}
    Sweepers = {s1}
    Workers = {}
    PayloadStatuses = {"PAID", "CANCELLED", "REFUNDED"}
    MoneyForms = {"exact", "padded", "other", "unreadable"}
    None = None
SPECIFICATION Spec
SYMMETRY Symmetry
INVARIANTS
    NoSilentCollection
    ReceiptIsHonest
    ProcessedPaidIsSettled
    HeldSlotExplained
PROPERTIES
    EvidencePreserved
    KeepsPromise
