CONSTANTS
    Invoices = {i1, i2}
    Keys = {k1, k2}
    Receipts = {r1}
    EntryMethods = {"CASH"}
    FormMethods = {"Cash"}
    Forms = {f1}
    MaxAmount = 2
    None = None
SPECIFICATION Spec

INVARIANT ReceiptsGuarded
