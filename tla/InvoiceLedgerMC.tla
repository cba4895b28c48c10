---------------------------- MODULE InvoiceLedgerMC ----------------------------
(***************************************************************************)
(* InvoiceLedger for TLC.                                                  *)
(***************************************************************************)
EXTENDS InvoiceLedger, TLC

Symmetry == Permutations(Invoices) \cup Permutations(Keys)

(* At most four entries on all invoices together. *)
EntriesBounded == MapThenSumSet(LAMBDA i : Len(ledger[i]), Invoices) <= 4

================================================================================
