CONSTANTS
    Attempts = {a1}
    TxnIds = {t1}
    AnonRows = {}
    Events = {e1, e2}
    Handlers = {h1}
    Sweepers = {s1}
    Workers = {w1}
    PayloadStatuses = {"PAID", "PENDING", "EXPIRED"}
    MoneyForms = {"exact"}
    None = None
SPECIFICATION FairSpec
INVARIANTS
    BookingBacked
    ReleasedTogether
    SilenceIsExpired
PROPERTIES
    ReservationEnds
