CONSTANTS
    Attempts = {a1}
    TxnIds = {t1}
    AnonRows = {}
    Events = {e1}
    Handlers = {h1}
    Sweepers = {s1}
    Workers = {w1}
    PayloadStatuses = {"PAID", "PENDING", "EXPIRED"}
    MoneyForms = {"exact"}
    None = None
SPECIFICATION Spec
INVARIANTS SettledAttemptStands
