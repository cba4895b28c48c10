------------------------ MODULE PaymentPromiseProofs ------------------------
(***************************************************************************)
(* What no step of PaymentSettlement does but the blind batch of a worker, *)
(* and that it implements ReservationPromise when every expiry batch       *)
(* rechecks its selection.                                                 *)
(***************************************************************************)
EXTENDS PaymentSettlementProofs

(* One commit changes at most the row of its own report.                     *)
LEMMA CommittedRow ==
    ASSUME TypeOK, MoneyInv, NEW h \in Handlers, NEW r \in Rows,
           \/ ApplyReview(h, r) \/ ApplySettlement(h, r) \/ ApplyRepeatedPaid(h, r)
           \/ ApplyReversal(h, r) \/ ApplyFailure(h, r) \/ ApplyPending(h, r)
    PROVE  EvidenceKept
  <1>1. stage[h] = "locked" /\ upsertPaymentTransaction(working[h], Payload(h), r)
    BY DEF ApplyReview, ApplySettlement, ApplyRepeatedPaid, ApplyReversal, ApplyFailure,
           ApplyPending
  <1>2. Payload(h) \in Payloads /\ working[h] \in Events
    BY <1>1, WorkingTyped
  <1> QED BY <1>1, <1>2, UpsertRow DEF EvidenceKept, MoneyInv, RowsInv, RowsSound

(* Only a commit writes transaction rows.                                    *)
LEMMA EvidenceStep ==
    ASSUME TypeOK, MoneyInv, [Next]_vars
    PROVE  EvidenceKept
  <1>1. ASSUME NEW h \in Handlers, ApplyWebhook(h)
        PROVE  EvidenceKept
    BY <1>1, CommittedRow DEF ApplyWebhook
  <1>2. CASE UNCHANGED txn
    BY <1>2 DEF EvidenceKept, MoneyInv, RowsInv, RowsSound
  <1>3. UNCHANGED txn \/ \E h \in Handlers : ApplyWebhook(h)
    BY DEF Next, HandlerStep, CreateCheckout, Tick, OfficeReject, OfficeAssign,
           OfficeReschedule, ReceiveWebhook, MarkReplay, LockAttempt, FindProcessed,
           AbortApply, RecordFailure, Crash, SelectOverdue, ExpiryFails, SweepExpire,
           WorkerExpire, CleanupEvent, vars
  <1> QED BY <1>1, <1>2, <1>3

(* No report, replay, crash, expiry or cleanup loses the evidence of a       *)
(* collection or of a reversal, and no blind batch does                      *)
(* (preserveTransactionState).                                               *)
THEOREM EvidenceIsKept == Spec => EvidencePreserved
  <1>1. TypeOK /\ MoneyInv /\ [Next]_vars => [EvidenceKept]_vars
    BY EvidenceStep
  <1> QED BY <1>1, MoneyInvariant, PTL DEF Spec, EvidencePreserved

(* A step of the worker's batch, which updates by id without a recheck. *)
BlindBatch == \E w \in Workers : WorkerExpire(w)

(* Elsewhere a review flag is only ever written over an open attempt or with *)
(* another review flag.                                                      *)
LEMMA ReviewStep ==
    ASSUME TypeOK, MoneyInv, [Next]_vars, ~BlindBatch
    PROVE  ReviewKept
  <1> SUFFICES ASSUME NEW a \in Attempts, Flagged(a)
               PROVE  Flagged(a)'
    BY DEF ReviewKept
  <1> USE DEF TypeOK, AttemptsTypeOK
  <1>1. ~Open(a) /\ failureCode[a] \in financialReviewCodes
    BY DEF MoneyInv, RowsInv, FlaggedClosed, Closed, Open, Flagged
  <1>2. ASSUME NEW h \in Handlers, NEW r \in Rows,
               \/ ApplyReview(h, r) \/ ApplySettlement(h, r) \/ ApplyRepeatedPaid(h, r)
               \/ ApplyReversal(h, r) \/ ApplyFailure(h, r) \/ ApplyPending(h, r)
        PROVE  failureCode'[a] \in financialReviewCodes
    <2>1. PICK b : b = Subject(h)
      OBVIOUS
    <2>2. \/ failureCode' = failureCode
          \/ failureCode' = [failureCode EXCEPT ![b] = "PROVIDER"] /\ Open(b)
          \/ failureCode' = [failureCode EXCEPT ![b] = "PAYMENT_COLLECTION_REVIEW_REQUIRED"]
          \/ failureCode' = [failureCode EXCEPT ![b] = "PAYMENT_REVERSAL_REVIEW_REQUIRED"]
      BY <1>2, <2>1 DEF ApplyReview, ApplySettlement, ApplyRepeatedPaid, ApplyReversal,
                        ApplyFailure, ApplyPending
    <2> QED BY <1>1, <2>2 DEF financialReviewCodes
  <1>3. ASSUME NEW s \in Sweepers, SweepExpire(s)
        PROVE  failureCode'[a] \in financialReviewCodes
    BY <1>1, <1>3 DEF SweepExpire, Expire, Overdue
  <1>4. \/ failureCode' = failureCode
        \/ \E h \in Handlers : ApplyWebhook(h)
        \/ \E s \in Sweepers : SweepExpire(s)
    BY DEF Next, HandlerStep, CreateCheckout, Tick, OfficeReject, OfficeAssign,
           OfficeReschedule, ReceiveWebhook, MarkReplay, LockAttempt, FindProcessed,
           AbortApply, RecordFailure, Crash, SelectOverdue, ExpiryFails, CleanupEvent,
           BlindBatch, vars, attemptVars
  <1>5. failureCode'[a] \in financialReviewCodes
    BY <1>1, <1>2, <1>3, <1>4 DEF ApplyWebhook
  <1> QED BY <1>5 DEF Flagged

(* A financial review, once asked for, stays asked for, so a withdrawn       *)
(* receipt does not come back (financialReviewCodes).                        *)
THEOREM ReviewsStick == Workers = {} /\ Spec => ReviewSticky
  <1> SUFFICES ASSUME Workers = {} PROVE Spec => ReviewSticky
    OBVIOUS
  <1>1. TypeOK /\ MoneyInv /\ [Next]_vars => [ReviewKept]_vars
    BY ReviewStep DEF BlindBatch
  <1> QED BY <1>1, MoneyInvariant, PTL DEF Spec, ReviewSticky

(* With workers too, a review flag is lowered by nothing but a blind batch:  *)
(* no report, replay, sweep or office action does it                         *)
(* (financialReviewCodes, expireOpenPaymentAttempts of the worker).          *)
THEOREM OnlyBlindBatchesLower == Spec => [][ReviewKept \/ BlindBatch]_vars
  <1>1. TypeOK /\ MoneyInv /\ [Next]_vars => [ReviewKept \/ BlindBatch]_vars
    BY ReviewStep
  <1> QED BY <1>1, MoneyInvariant, PTL DEF Spec

------------------------------------------------------------------------------
(* Every step is a step of ReservationPromise or leaves its variables alone. *)

LEMMA PromiseStutter ==
    ASSUME UNCHANGED <<attempt, receipt, failureCode, txn>>
    PROVE  UNCHANGED Promise!promiseVars
  BY DEF Promise!promiseVars, Phase, Open, Collected, Flagged

(* A commit may add its own row to its own reservation, and no other one has *)
(* that row.                                                                 *)
LEMMA CollectedAfter ==
    ASSUME TypeOK, MoneyInv, NEW h \in Handlers, NEW r \in Rows, stage[h] = "locked",
           upsertPaymentTransaction(working[h], Payload(h), r),
           NEW a \in Attempts, a = Subject(h)
    PROVE  /\ \A b \in Attempts \ {a} : Collected(b)' = Collected(b) /\ r \notin Collected(b)
           /\ Collected(a)' = IF txn'[r].paid THEN Collected(a) \cup {r} ELSE Collected(a)
           /\ txn[r].paid \/ ~ReportsMoney(Payload(h)) => Collected(a)' = Collected(a)
  <1>1. /\ Payload(h) \in Payloads /\ Payload(h).attempt = a /\ working[h] \in Events
    BY CommitFacts
  <1>2. /\ \A other \in Rows : other # r => txn'[other] = txn[other]
        /\ txn'[r].attempt = a
        /\ txn[r].paid => txn'[r].paid /\ txn[r].attempt = a
        /\ txn'[r].paid => txn[r].paid \/ ReportsMoney(Payload(h))
    BY <1>1, UpsertRow
  <1>3. \A b \in Attempts \ {a} : Collected(b)' = Collected(b) /\ r \notin Collected(b)
    BY <1>2 DEF Collected
  <1>4. Collected(a)' = IF txn'[r].paid THEN Collected(a) \cup {r} ELSE Collected(a)
    BY <1>2 DEF Collected
  <1>5. ASSUME txn[r].paid PROVE Collected(a)' = Collected(a)
    BY <1>2, <1>4, <1>5 DEF Collected
  <1>6. ASSUME ~ReportsMoney(Payload(h)) PROVE Collected(a)' = Collected(a)
    BY <1>2, <1>4, <1>5, <1>6
  <1> QED BY <1>3, <1>4, <1>5, <1>6

LEMMA SettlementPromised ==
    ASSUME TypeOK, MoneyInv, NEW h \in Handlers, NEW r \in Rows, ApplySettlement(h, r),
           NEW a \in Attempts, a = Subject(h)
    PROVE  Promise!Settle(a, r)
  <1> USE DEF TypeOK, AttemptsTypeOK
  <1>1. /\ stage[h] = "locked" /\ upsertPaymentTransaction(working[h], Payload(h), r)
        /\ failureCode' = failureCode
        /\ receipt[a] = None /\ receipt' = [receipt EXCEPT ![a] = r]
        /\ attempt' = [attempt EXCEPT ![a] = "PAID"]
        /\ Payload(h).status = "PAID" /\ ~NeedsCollectionReview(h, r)
    BY DEF ApplySettlement
  <1>2. Payload(h) \in Payloads /\ Payload(h).attempt = a /\ working[h] \in Events /\ r # None
    BY <1>1, CommitFacts
  <1>3. /\ ReportsMoney(Payload(h)) \/ "padded" \in MoneyForms
        /\ ~seen[h].blocked /\ ~AdditionalCollection(Payload(h), r)
    BY <1>1, <1>2 DEF NeedsCollectionReview, PayloadProblem, ReportsMoney, Payloads
  <1>4. Open(a)
    BY <1>1, <1>3 DEF MoneyInv, RequestsInv, LockedDecisionStands
  <1>5. Collected(a) = {}
    BY <1>1, <1>4, NoneAssumption
    DEF Collected, MoneyInv, RowsInv, AccountedOrExcused, FlaggedClosed, Closed, Open, Excused,
        Unrecorded, Rows
  <1>6. ReportsMoney(Payload(h)) => txn'[r].paid
    BY <1>1, <1>2, <1>4, UpsertRow DEF MoneyInv, RowsInv, RowsSound, Closed, Open, EventsTypeOK
  <1>7. /\ \A b \in Attempts \ {a} : Collected(b)' = Collected(b) /\ r \notin Collected(b)
        /\ \/ Collected(a)' = {r}
           \/ "padded" \in MoneyForms /\ Collected(a)' = Collected(a)
    BY <1>1, <1>3, <1>5, <1>6, CollectedAfter
  <1>8. /\ Phase(a) = "open" /\ Phase(a)' = "settled"
        /\ \A b \in Attempts \ {a} : Phase(b)' = Phase(b)
    BY <1>1, <1>2, <1>4 DEF Phase, Open
  <1>9. \A b \in Attempts : Flagged(b)' = Flagged(b)
    BY <1>1 DEF Flagged
  <1> QED BY <1>1, <1>5, <1>7, <1>8, <1>9 DEF Promise!Settle, Promise!FreeFor

LEMMA ReviewPromised ==
    ASSUME TypeOK, MoneyInv, NEW h \in Handlers, NEW r \in Rows, ApplyReview(h, r),
           NEW a \in Attempts, a = Subject(h)
    PROVE  Promise!Question(a)
  <1> USE DEF TypeOK, AttemptsTypeOK
  <1>1. /\ stage[h] = "locked" /\ upsertPaymentTransaction(working[h], Payload(h), r)
        /\ receipt' = receipt
        /\ failureCode' = [failureCode EXCEPT ![a] = "PAYMENT_COLLECTION_REVIEW_REQUIRED"]
        /\ \/ /\ receipt[a] = None /\ Open(a)
              /\ \E status \in {"FAILED", "EXPIRED"} :
                     attempt' = [attempt EXCEPT ![a] = status]
           \/ ~(receipt[a] = None /\ Open(a)) /\ attempt' = attempt
    BY DEF ApplyReview, releaseFailedAttempt
  <1>2. attempt[a] # "NONE" /\ (Open(a) => receipt[a] = None)
    BY <1>1, CommitFacts DEF MoneyInv, RowsInv, SettledOrExcused, Excused, Open
  <1>3. /\ \A b \in Attempts \ {a} : Collected(b)' = Collected(b) /\ r \notin Collected(b)
        /\ Collected(a)' = Collected(a) \/ Collected(a)' = Collected(a) \cup {r}
    BY <1>1, CollectedAfter
  <1>4. /\ Phase(a) # "none"
        /\ Phase(a)' = IF Phase(a) = "open" THEN "released" ELSE Phase(a)
        /\ \A b \in Attempts \ {a} : Phase(b)' = Phase(b)
    BY <1>1, <1>2 DEF Phase, Open
  <1>5. Flagged(a)' = TRUE /\ \A b \in Attempts \ {a} : Flagged(b)' = Flagged(b)
    BY <1>1 DEF Flagged, financialReviewCodes
  <1> QED BY <1>1, <1>3, <1>4, <1>5 DEF Promise!Question, Promise!FreeFor

LEMMA RepeatedPaidPromised ==
    ASSUME TypeOK, MoneyInv, NEW h \in Handlers, NEW r \in Rows, ApplyRepeatedPaid(h, r),
           NEW a \in Attempts, a = Subject(h)
    PROVE  Promise!Pass(a, r) \/ UNCHANGED Promise!promiseVars
  <1>1. /\ stage[h] = "locked" /\ upsertPaymentTransaction(working[h], Payload(h), r)
        /\ UNCHANGED <<attempt, failureCode, receipt>>
        /\ receipt[a] # None /\ Payload(h).status = "PAID" /\ ~NeedsCollectionReview(h, r)
    BY DEF ApplyRepeatedPaid
  <1>2. Payload(h).attempt = a
    BY <1>1, CommitFacts
  <1>3. ~AdditionalCollection(Payload(h), r)
    BY <1>1 DEF NeedsCollectionReview
  <1>4. \A b \in Attempts \ {a} : Collected(b)' = Collected(b) /\ r \notin Collected(b)
    BY <1>1, CollectedAfter
  <1>5. CASE txn[r].paid \/ ~ReportsMoney(Payload(h)) \/ Collected(a)' = Collected(a)
    <2>1. \A b \in Attempts : Collected(b)' = Collected(b)
      BY <1>1, <1>4, <1>5, CollectedAfter
    <2> QED BY <1>1, <2>1 DEF Promise!promiseVars, Phase, Open, Flagged
  <1>6. CASE ~txn[r].paid /\ ReportsMoney(Payload(h)) /\ Collected(a)' # Collected(a)
    <2>1. Collected(a) = {}
      BY <1>2, <1>3, <1>6 DEF AdditionalCollection, Collected
    <2>2. Collected(a)' = {r}
      BY <1>1, <1>6, <2>1, CollectedAfter
    <2>4. "padded" \in MoneyForms
      BY <1>1, <1>6, <2>1
      DEF TypeOK, AttemptsTypeOK, MoneyInv, RowsInv, ReceiptCollected, Collected, Unrecorded
    <2>5. [b \in Attempts |-> Collected(b)]' =
              [[b \in Attempts |-> Collected(b)] EXCEPT ![a] = {r}]
      BY <1>4, <2>2
    <2>6. /\ [b \in Attempts |-> Collected(b)][a] = {}
          /\ \A b \in Attempts \ {a} : r \notin [c \in Attempts |-> Collected(c)][b]
      BY <1>4, <2>1
    <2>7. UNCHANGED <<[b \in Attempts |-> Phase(b)], receipt, [b \in Attempts |-> Flagged(b)]>>
      BY <1>1 DEF Phase, Open, Flagged
    <2> QED BY <1>1, <2>4, <2>5, <2>6, <2>7 DEF Promise!Pass, Promise!FreeFor
  <1> QED BY <1>5, <1>6

LEMMA ReversalPromised ==
    ASSUME TypeOK, MoneyInv, NEW h \in Handlers, NEW r \in Rows, ApplyReversal(h, r),
           NEW a \in Attempts, a = Subject(h)
    PROVE  Promise!Reverse(a)
  <1> USE DEF TypeOK, AttemptsTypeOK
  <1>1. /\ stage[h] = "locked" /\ upsertPaymentTransaction(working[h], Payload(h), r)
        /\ receipt' = receipt
        /\ failureCode' = [failureCode EXCEPT ![a] = "PAYMENT_REVERSAL_REVIEW_REQUIRED"]
        /\ \E status \in {"REFUNDED", "DISPUTED", "CANCELLED"} :
               attempt' = [attempt EXCEPT ![a] = status]
        /\ ~ReportsMoney(Payload(h))
    BY DEF ApplyReversal, IsReversal, ReportsMoney
  <1>2. attempt[a] # "NONE" /\ (Open(a) => receipt[a] = None)
    BY <1>1, CommitFacts DEF MoneyInv, RowsInv, SettledOrExcused, Excused, Open
  <1>3. \A b \in Attempts : Collected(b)' = Collected(b)
    BY <1>1, CollectedAfter
  <1>4. /\ Phase(a) # "none"
        /\ Phase(a)' = IF Phase(a) \in {"settled", "reversed"} THEN "reversed" ELSE "released"
        /\ \A b \in Attempts \ {a} : Phase(b)' = Phase(b)
    BY <1>1, <1>2 DEF Phase, Open
  <1>5. Flagged(a)' = TRUE /\ \A b \in Attempts \ {a} : Flagged(b)' = Flagged(b)
    BY <1>1 DEF Flagged, financialReviewCodes
  <1>6. /\ [b \in Attempts |-> Phase(b)]' = [[b \in Attempts |-> Phase(b)] EXCEPT ![a] =
               IF @ \in {"settled", "reversed"} THEN "reversed" ELSE "released"]
        /\ [b \in Attempts |-> Phase(b)][a] # "none"
    <2> HIDE DEF TypeOK, AttemptsTypeOK
    <2> QED BY <1>4
  <1>7. [b \in Attempts |-> Flagged(b)]' = [[b \in Attempts |-> Flagged(b)] EXCEPT ![a] = TRUE]
    <2> HIDE DEF TypeOK, AttemptsTypeOK
    <2> QED BY <1>5
  <1>8. UNCHANGED <<[b \in Attempts |-> Collected(b)], receipt>>
    <2> HIDE DEF TypeOK, AttemptsTypeOK
    <2> QED BY <1>1, <1>3
  <1> HIDE DEF TypeOK, AttemptsTypeOK
  <1> QED BY <1>6, <1>7, <1>8 DEF Promise!Reverse

LEMMA FailurePromised ==
    ASSUME TypeOK, MoneyInv, NEW h \in Handlers, NEW r \in Rows,
           ApplyFailure(h, r) \/ ApplyPending(h, r),
           NEW a \in Attempts, a = Subject(h)
    PROVE  Promise!Release({a}) \/ UNCHANGED Promise!promiseVars
  <1> USE DEF TypeOK, AttemptsTypeOK
  <1>1. /\ stage[h] = "locked" /\ upsertPaymentTransaction(working[h], Payload(h), r)
        /\ receipt' = receipt /\ ~ReportsMoney(Payload(h))
        /\ \/ /\ receipt[a] = None /\ Open(a)
              /\ failureCode' = [failureCode EXCEPT ![a] = "PROVIDER"]
              /\ \E status \in {"FAILED", "EXPIRED", "CANCELLED"} :
                     attempt' = [attempt EXCEPT ![a] = status]
           \/ UNCHANGED <<attempt, failureCode>>
    BY DEF ApplyFailure, ApplyPending, releaseFailedAttempt, ReportsMoney
  <1>2. \A b \in Attempts : Collected(b)' = Collected(b)
    BY <1>1, CollectedAfter
  <1>3. \A b \in Attempts : Flagged(b)' = Flagged(b)
    BY <1>1 DEF Flagged, financialReviewCodes, MoneyInv, RowsInv, FlaggedClosed, Closed, Open
  <1>4. CASE UNCHANGED <<attempt, failureCode>>
    BY <1>1, <1>2, <1>3, <1>4 DEF Promise!promiseVars, Phase, Open
  <1>5. CASE ~UNCHANGED <<attempt, failureCode>>
    <2>1. /\ Phase(a) = "open" /\ Phase(a)' = "released"
          /\ \A b \in Attempts \ {a} : Phase(b)' = Phase(b)
      BY <1>1, <1>5 DEF Phase, Open
    <2> QED BY <1>1, <1>2, <1>3, <2>1 DEF Promise!Release
  <1> QED BY <1>4, <1>5

LEMMA CheckoutPromised ==
    ASSUME TypeOK, MoneyInv, NEW a \in Attempts, CreateCheckout(a)
    PROVE  Promise!Reserve(a)
  <1> USE DEF TypeOK, AttemptsTypeOK
  <1>1. /\ attempt[a] = "NONE" /\ attempt' = [attempt EXCEPT ![a] = "PENDING"]
        /\ UNCHANGED <<receipt, failureCode, txn>>
    BY DEF CreateCheckout
  <1>2. /\ Phase(a) = "none" /\ Phase(a)' = "open"
        /\ \A b \in Attempts \ {a} : Phase(b)' = Phase(b)
    BY <1>1 DEF Phase, Open
  <1> QED BY <1>1, <1>2 DEF Promise!Reserve, Collected, Flagged

LEMMA SweepPromised ==
    ASSUME TypeOK, MoneyInv, NEW s \in Sweepers, SweepExpire(s)
    PROVE  \E batch \in SUBSET Attempts : Promise!Release(batch)
  <1> USE DEF TypeOK, AttemptsTypeOK
  <1> DEFINE batch == selected[s] \cap Overdue
  <1>1. /\ UNCHANGED <<receipt, txn>>
        /\ attempt' = [a \in Attempts |-> IF a \in batch THEN "EXPIRED" ELSE attempt[a]]
        /\ failureCode' = [a \in Attempts |->
               IF a \in batch THEN "ATTEMPT_EXPIRED" ELSE failureCode[a]]
    BY DEF SweepExpire, Expire
  <1>2. batch \subseteq {a \in Attempts : Open(a) /\ receipt[a] = None}
    BY DEF Overdue, MoneyInv, RowsInv, SettledOrExcused, Excused, Open
  <1>3. \A a \in Attempts : Flagged(a)' = Flagged(a)
    BY <1>1, <1>2 DEF Flagged, financialReviewCodes, MoneyInv, RowsInv, FlaggedClosed,
       Closed, Open
  <1> HIDE DEF batch
  <1>4. \A a \in Attempts : Phase(a)' = IF a \in batch THEN "released" ELSE Phase(a)
    BY <1>1, <1>2 DEF Phase, Open
  <1>5. \A a \in batch : a \in Attempts /\ Phase(a) = "open"
    BY <1>2 DEF Phase, Open
  <1>6. \A a \in Attempts : Collected(a)' = Collected(a)
    BY <1>1 DEF Collected
  <1>7. Promise!Release(batch)
    BY <1>1, <1>3, <1>4, <1>5, <1>6 DEF Promise!Release
  <1> QED BY <1>5, <1>7

LEMMA NextPromised ==
    ASSUME TypeOK, MoneyInv, [Next]_vars, ~BlindBatch
    PROVE  [Promise!Next]_(Promise!promiseVars)
  <1>1. ASSUME NEW h \in Handlers, NEW r \in Rows,
               \/ ApplyReview(h, r) \/ ApplySettlement(h, r) \/ ApplyRepeatedPaid(h, r)
               \/ ApplyReversal(h, r) \/ ApplyFailure(h, r) \/ ApplyPending(h, r)
        PROVE  [Promise!Next]_(Promise!promiseVars)
    <2>1. stage[h] = "locked"
      BY <1>1 DEF ApplyReview, ApplySettlement, ApplyRepeatedPaid, ApplyReversal,
                  ApplyFailure, ApplyPending
    <2>2. PICK a \in Attempts : a = Subject(h)
      BY <2>1, WorkingTyped
    <2>3. \/ Promise!Question(a) \/ Promise!Settle(a, r) \/ Promise!Reverse(a)
          \/ Promise!Pass(a, r)
          \/ Promise!Release({a}) \/ UNCHANGED Promise!promiseVars
      BY <1>1, <2>2, ReviewPromised, SettlementPromised, RepeatedPaidPromised,
         ReversalPromised, FailurePromised
    <2> QED BY <2>3 DEF Promise!Next
  <1>2. ASSUME NEW a \in Attempts, CreateCheckout(a)
        PROVE  [Promise!Next]_(Promise!promiseVars)
    BY <1>2, CheckoutPromised DEF Promise!Next
  <1>3. ASSUME NEW s \in Sweepers, SweepExpire(s)
        PROVE  [Promise!Next]_(Promise!promiseVars)
    BY <1>3, SweepPromised DEF Promise!Next
  <1>4. \/ UNCHANGED <<attempt, receipt, failureCode, txn>>
        \/ \E h \in Handlers : ApplyWebhook(h)
        \/ \E a \in Attempts : CreateCheckout(a)
        \/ \E s \in Sweepers : SweepExpire(s)
    BY DEF Next, HandlerStep, Tick, OfficeReject, OfficeAssign, OfficeReschedule,
           ReceiveWebhook, MarkReplay, LockAttempt, FindProcessed, AbortApply,
           RecordFailure, Crash, SelectOverdue, ExpiryFails, CleanupEvent, BlindBatch, vars,
           attemptVars
  <1> QED BY <1>1, <1>2, <1>3, <1>4, PromiseStutter DEF ApplyWebhook

LEMMA InitPromised == Init => Promise!Init
  <1> SUFFICES ASSUME Init PROVE Promise!Init
    OBVIOUS
  <1>1. \A a \in Attempts : Phase(a) = "none" /\ Flagged(a) = FALSE
    BY DEF Init, Phase, Flagged, financialReviewCodes
  <1>2. \A r \in Rows : txn[r].paid = FALSE
    BY DEF Init, NoTxn
  <1>3. \A a \in Attempts : Collected(a) = {}
    BY <1>2 DEF Collected
  <1> QED BY <1>1, <1>3 DEF Init, Promise!Init

(* When every expiry batch rechecks its selection, requests, replays,        *)
(* crashes and expiry together do to a reservation only what                 *)
(* ReservationPromise allows, for any number of requests and reports. Where  *)
(* padded amounts are among the reports, the promise is the looser one that  *)
(* lets a settlement leave no record and the next collection pass for it     *)
(* (applyWebhookPaymentState, expireOpenConsultationPaymentAttempts).        *)
THEOREM PromiseKept == Workers = {} /\ Spec => KeepsPromise
  <1> SUFFICES ASSUME Workers = {} PROVE Spec => KeepsPromise
    OBVIOUS
  <1>1. TypeOK /\ MoneyInv /\ [Next]_vars => [Promise!Next]_(Promise!promiseVars)
    BY NextPromised DEF BlindBatch
  <1> QED BY <1>1, InitPromised, MoneyInvariant, PTL DEF Spec, KeepsPromise, Promise!Spec

(* With workers too, before and after a blind batch, every other step does   *)
(* only what the promise allows in the state the batch left: the damage is   *)
(* the batch's own write. The promise is the looser one where amounts may be *)
(* padded (expireOpenPaymentAttempts of the worker).                         *)
THEOREM OnlyBlindBatchesBreak ==
    Spec => [][Promise!Next \/ UNCHANGED Promise!promiseVars \/ BlindBatch]_vars
  <1>1. TypeOK /\ MoneyInv /\ [Next]_vars
        => [Promise!Next \/ UNCHANGED Promise!promiseVars \/ BlindBatch]_vars
    BY NextPromised
  <1> QED BY <1>1, MoneyInvariant, PTL DEF Spec
=============================================================================
