CONSTANTS
    Invoices = {i1, i2}
    Keys = {k1, k2, k3}
    Receipts = {r1}
    EntryMethods = {"CASH", "BANK_TRANSFER"}
    FormMethods = {"CASH"}
    Forms = {f1}
    MaxAmount = 2
    None = None
SPECIFICATION Spec
SYMMETRY Symmetry
CONSTRAINT EntriesBounded
INVARIANTS
    TypeOK
    StatusTellsBalance
    BalanceStands
    DueAgrees
PROPERTIES
    RecordedImmutable
