CONSTANTS
    Attempts = {a1}
    TxnIds = {t1}
    AnonRows = {}
    Events = {e1}
    Handlers = {h1}
    Sweepers = {s1}
    Workers = {w1}
    PayloadStatuses = {"PAID", "REFUNDED"}
    MoneyForms = {"exact"}
    None = None
SPECIFICATION FairSpec
PROPERTIES ReservationEnds
