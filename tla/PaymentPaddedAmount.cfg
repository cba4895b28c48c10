CONSTANTS
    Attempts = {a1}
    TxnIds = {t1, t2}
    AnonRows = {}
    Events = {e1, e2}
    Handlers = {h1}
    Sweepers = {s1}
    Workers = {}
    PayloadStatuses = {"PAID", "PENDING", "EXPIRED"}
    MoneyForms = {"exact", "padded"}
    None = None
SPECIFICATION Spec
INVARIANTS SecondCollectionReviewed
