CONSTANTS
    Attempts = {a1}
    TxnIds = {t1}
    AnonRows = {}
    Events = {e1}
    Handlers = {h1}
    Sweepers = {s1}
    Workers = {}
    PayloadStatuses = {"PAID", "PENDING", "EXPIRED"}
    MoneyForms = {"exact"}
    None = None
SPECIFICATION Spec
PROPERTIES RejectionIsFinal
