------------------------- MODULE PaymentSettlementMC -------------------------
(* Model checking of PaymentSettlement: symmetry and instance bounds only. *)
EXTENDS PaymentSettlement, TLC

Symmetry == Permutations(Attempts) \cup Permutations(TxnIds) \cup Permutations(Events) \cup Permutations(Handlers)
=============================================================================
