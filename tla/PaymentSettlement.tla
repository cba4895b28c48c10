-------------------------- MODULE PaymentSettlement --------------------------
(***************************************************************************)
(* The life of a consultation payment attempt: the hosted checkout that    *)
(* reserves an appointment, the provider webhooks and their admin replays, *)
(* the expiry sweep of the web server, the expiry batch of the maintenance *)
(* worker, and the office actions on the same consultation.                *)
(*                                                                         *)
(* A webhook request is three database steps: it records the event, it     *)
(* locks the attempt and reads what it decides from, and it writes and     *)
(* commits. Only the payment_attempts row is locked (FOR UPDATE), so the   *)
(* office may change the appointment and the consultation between the read *)
(* and the write. Every writer of an attempt row waits for its lock.       *)
(*                                                                         *)
(* A definition marked "Variant" is a plausible mistake in the one that    *)
(* follows it; no action uses it.                                          *)
(***************************************************************************)
EXTENDS Naturals, FiniteSets

CONSTANTS
    Attempts,         \* payment attempts, each with its appointment and consultation
    TxnIds,           \* provider transaction ids
    AnonRows,         \* pool of transaction rows without a provider id (a bound)
    Events,           \* provider event ids
    Handlers,         \* concurrent requests of the web server
    Sweepers,         \* callers of expireOpenConsultationPaymentAttempts
    Workers,          \* processes of scripts/payment-maintenance.mjs
    PayloadStatuses,  \* normalized statuses the provider may report
    MoneyForms,       \* what the amount and currency of a PAID report may look like
    None              \* no row, no event, no provider transaction id

Statuses == {"PAID", "PENDING", "FAILED", "EXPIRED", "CANCELLED", "REFUNDED", "DISPUTED"}

ASSUME PayloadAssumption ==
    /\ PayloadStatuses \subseteq Statuses
    /\ MoneyForms \subseteq {"exact", "padded", "other", "unreadable"}
ASSUME NoneAssumption ==
    None \notin Attempts \cup TxnIds \cup AnonRows \cup Events
ASSUME RowsAssumption == TxnIds \cap AnonRows = {}
ASSUME SweepAssumption == Sweepers \cap Workers = {}

Rows == TxnIds \cup AnonRows

(***************************************************************************)
(* A verified, normalized provider report. "exact": the money matches the  *)
(* attempt; "padded": it matches, but is not written with at most two      *)
(* decimals (750.000); "other": well formed money that does not match;     *)
(* "unreadable": neither a match nor an amount and currency to record.     *)
(***************************************************************************)
Payloads ==
    {p \in [attempt : Attempts, txn : TxnIds \cup {None},
            status : PayloadStatuses, money : {"exact", "padded", "other", "unreadable"}] :
        p.money \in (IF p.status = "PAID" THEN MoneyForms ELSE {"exact"})}

VARIABLES
    clock,         \* clock[a]: now against attempt.expiresAt
    attempt,       \* attempt[a]: payment_attempts.status
    failureCode,   \* failureCode[a]: payment_attempts.failureCode
    appointment,   \* appointment[a]: appointments.status
    consultation,  \* consultation[a]: consultation_requests.status
    outcome,       \* outcome[a]: consultation_requests.outcomeStatus
    receipt,       \* receipt[a]: the row whose collection the Payment records
    ledgerReview,  \* ledgerReview[a]: payments.ledgerReviewRequired
    txn,           \* txn[r]: payment_transactions
    eventStatus,   \* eventStatus[e]: payment_webhook_events.processingStatus
    eventPayload,  \* eventPayload[e]: its normalized payload
    eventRow,      \* eventRow[e]: its transactionId
    stage,         \* stage[h]: where the request is
    working,       \* working[h]: the event it applies
    replaying,     \* replaying[h]: it is an admin replay
    seen,          \* seen[h]: what the transaction read after taking the lock
    selected       \* selected[s]: the attempts an expiry batch has selected

attemptVars == <<clock, attempt, failureCode, appointment, consultation, outcome,
                 receipt, ledgerReview>>
eventVars   == <<eventStatus, eventPayload, eventRow>>
handlerVars == <<stage, working, replaying, seen>>
vars == <<attemptVars, txn, eventVars, handlerVars, selected>>

AttemptStatuses == {"NONE"} \cup Statuses
AppointmentStatuses == {"NONE", "RESERVED", "SCHEDULED", "RESCHEDULED", "CANCELLED"}
ConsultationStatuses == {"NONE", "PAYMENT_PENDING", "REVIEWING", "SCHEDULED", "REJECTED"}
FailureCodes == {"none", "ATTEMPT_EXPIRED", "PROVIDER",
                 "PAYMENT_COLLECTION_REVIEW_REQUIRED", "PAYMENT_REVERSAL_REVIEW_REQUIRED"}
financialReviewCodes ==
    {"PAYMENT_REVERSAL_REVIEW_REQUIRED", "PAYMENT_COLLECTION_REVIEW_REQUIRED"}
TxnStatuses == {"PAID", "PENDING", "FAILED", "CANCELLED", "REFUNDED", "DISPUTED"}

NoTxn == [status |-> "NONE", attempt |-> None, paid |-> FALSE]
NothingSeen == [blocked |-> FALSE, appointment |-> "NONE", consultation |-> "NONE"]

Txn == [status : TxnStatuses \cup {"NONE"}, attempt : Attempts \cup {None}, paid : BOOLEAN]
Seen == [blocked : BOOLEAN, appointment : AppointmentStatuses,
         consultation : ConsultationStatuses]

(* An attempt is open while its status is one of confirmablePaidAttemptStatuses. *)
(* CREATED never leaves the transaction of the checkout.                         *)
Open(a) == attempt[a] = "PENDING"
Flagged(a) == failureCode[a] \in financialReviewCodes

Init ==
    /\ clock = [a \in Attempts |-> "before"]
    /\ attempt = [a \in Attempts |-> "NONE"]
    /\ failureCode = [a \in Attempts |-> "none"]
    /\ appointment = [a \in Attempts |-> "NONE"]
    /\ consultation = [a \in Attempts |-> "NONE"]
    /\ outcome = [a \in Attempts |-> "PENDING"]
    /\ receipt = [a \in Attempts |-> None]
    /\ ledgerReview = [a \in Attempts |-> FALSE]
    /\ txn = [r \in Rows |-> NoTxn]
    /\ eventStatus = [e \in Events |-> "NONE"]
    /\ eventPayload = [e \in Events |-> None]
    /\ eventRow = [e \in Events |-> None]
    /\ stage = [h \in Handlers |-> "idle"]
    /\ working = [h \in Handlers |-> None]
    /\ replaying = [h \in Handlers |-> FALSE]
    /\ seen = [h \in Handlers |-> NothingSeen]
    /\ selected = [s \in Sweepers \cup Workers |-> {}]

------------------------------------------------------------------------------
(* Checkout and time. *)

(* createPublicConsultationCheckout: consultation, appointment and attempt   *)
(* are created in one transaction; when the gateway fails nothing is kept.   *)
CreateCheckout(a) ==
    /\ attempt[a] = "NONE"
    /\ attempt' = [attempt EXCEPT ![a] = "PENDING"]
    /\ appointment' = [appointment EXCEPT ![a] = "RESERVED"]
    /\ consultation' = [consultation EXCEPT ![a] = "PAYMENT_PENDING"]
    /\ UNCHANGED <<clock, failureCode, outcome, receipt, ledgerReview, txn,
                   eventVars, handlerVars, selected>>

Tick(a) ==
    /\ attempt[a] # "NONE"
    /\ \/ clock[a] = "before" /\ clock' = [clock EXCEPT ![a] = "at"]
       \/ clock[a] = "at"     /\ clock' = [clock EXCEPT ![a] = "after"]
    /\ UNCHANGED <<attempt, failureCode, appointment, consultation, outcome, receipt,
                   ledgerReview, txn, eventVars, handlerVars, selected>>

------------------------------------------------------------------------------
(* Receiving a report. *)

(* handlePaymentWebhook up to the recorded event. A report whose event id is *)
(* known with another payload is refused, and a PROCESSED event is answered  *)
(* without work: neither changes anything here. An attempt that does not     *)
(* exist yet cannot be linked.                                               *)
ReceiveWebhook(h, e, p) ==
    /\ stage[h] = "idle"
    /\ attempt[p.attempt] # "NONE"
    /\ eventStatus[e] \in {"NONE", "PENDING", "FAILED"}
    /\ eventStatus[e] # "NONE" => eventPayload[e] = p
    /\ IF eventStatus[e] = "NONE"
         THEN /\ eventStatus' = [eventStatus EXCEPT ![e] = "PENDING"]
              /\ eventPayload' = [eventPayload EXCEPT ![e] = p]
         ELSE UNCHANGED <<eventStatus, eventPayload>>
    /\ stage' = [stage EXCEPT ![h] = "recorded"]
    /\ working' = [working EXCEPT ![h] = e]
    /\ replaying' = [replaying EXCEPT ![h] = FALSE]
    /\ UNCHANGED <<attemptVars, txn, eventRow, seen, selected>>

(* replayAdminPaymentWebhookEvent: any linked event becomes PENDING again,   *)
(* a PROCESSED one too.                                                      *)
MarkReplay(h, e) ==
    /\ stage[h] = "idle"
    /\ eventStatus[e] # "NONE"
    /\ eventStatus' = [eventStatus EXCEPT ![e] = "PENDING"]
    /\ stage' = [stage EXCEPT ![h] = "recorded"]
    /\ working' = [working EXCEPT ![h] = e]
    /\ replaying' = [replaying EXCEPT ![h] = TRUE]
    /\ UNCHANGED <<attemptVars, txn, eventPayload, eventRow, seen, selected>>

------------------------------------------------------------------------------
(* applyWebhookPaymentState. *)

Payload(h) == eventPayload[working[h]]
Subject(h) == Payload(h).attempt

(* The handler holds the lock on the attempt's row. *)
Holds(h, a) == stage[h] = "locked" /\ Subject(h) = a
Locked(a) == \E h \in Handlers : Holds(h, a)

(* Variant: the office's changes do not block a payment. *)
BlockedByExpiry(a) == ~Open(a) \/ clock[a] # "before"

(* paidAttemptWebhookConfirmationBlocker of the current rows. *)
Blocked(a) ==
    \/ ~Open(a)
    \/ clock[a] # "before"
    \/ appointment[a] # "RESERVED"
    \/ consultation[a] # "PAYMENT_PENDING"

LeaveStage(h, next) ==
    /\ stage' = [stage EXCEPT ![h] = next]
    /\ working' = IF next = "idle" THEN [working EXCEPT ![h] = None] ELSE working
    /\ replaying' = IF next = "idle" THEN [replaying EXCEPT ![h] = FALSE] ELSE replaying
    /\ seen' = [seen EXCEPT ![h] = NothingSeen]

(* SELECT ... FOR UPDATE and the reads under it. *)
LockAttempt(h) ==
    /\ stage[h] = "recorded"
    /\ ~Locked(Subject(h))
    /\ eventStatus[working[h]] # "PROCESSED"
    /\ stage' = [stage EXCEPT ![h] = "locked"]
    /\ seen' = [seen EXCEPT ![h] =
           [blocked |-> receipt[Subject(h)] = None /\ Blocked(Subject(h)),
            appointment |-> appointment[Subject(h)],
            consultation |-> consultation[Subject(h)]]]
    /\ UNCHANGED <<attemptVars, txn, eventVars, working, replaying, selected>>

(* The event was processed by another request meanwhile: return it. *)
FindProcessed(h) ==
    /\ stage[h] = "recorded"
    /\ ~Locked(Subject(h))
    /\ eventStatus[working[h]] = "PROCESSED"
    /\ LeaveStage(h, "idle")
    /\ UNCHANGED <<attemptVars, txn, eventVars, selected>>

(* Variant: a refund or dispute is forgotten when a later report arrives. *)
ForgetReversal(current, incoming, paid) ==
    \/ current = "CANCELLED" /\ paid
    \/ current = "PAID" /\ incoming \notin {"REFUNDED", "DISPUTED", "CANCELLED"}

(* Variant: a settled row takes whatever status is reported next. *)
OverwritePaid(current, incoming, paid) ==
    current \in {"REFUNDED", "DISPUTED"} \/ (current = "CANCELLED" /\ paid)

(* preserveTransactionState *)
preserveTransactionState(current, incoming, paid) ==
    \/ current \in {"REFUNDED", "DISPUTED"}
    \/ current = "CANCELLED" /\ paid
    \/ current = "PAID" /\ incoming \notin {"REFUNDED", "DISPUTED", "CANCELLED"}

(* providerReportedMoney and paymentTransactionStatus: the status and paidAt *)
(* a report gives to its transaction row. The two-decimal pattern refuses a  *)
(* padded amount: its row is FAILED and has no paidAt.                       *)
ReportsMoney(p) == p.status = "PAID" /\ p.money \in {"exact", "other"}
RowStatus(p) ==
    IF p.status = "PAID" /\ ~ReportsMoney(p) THEN "FAILED"
    ELSE IF p.status = "EXPIRED" THEN "FAILED" ELSE p.status

(* upsertPaymentTransaction: the rows a report may end in, and what becomes  *)
(* of the row. No row at all means the conflict that aborts the transaction. *)
RowsFor(e, p) ==
    LET linked == eventRow[e]
        kept   == linked # None /\ preserveTransactionState(
                      txn[linked].status, RowStatus(p), txn[linked].paid)
        found  == IF kept THEN {linked}
                  ELSE IF p.txn # None THEN {p.txn}
                  ELSE {r \in AnonRows : txn[r] = NoTxn}
    IN  {r \in found : /\ linked # None => txn[linked].attempt = p.attempt
                       /\ txn[r] # NoTxn => txn[r].attempt = p.attempt}

(* Variant: paidAt is taken from the last report. *)
LastPaidAt(r, p) ==
    IF preserveTransactionState(txn[r].status, RowStatus(p), txn[r].paid)
      THEN txn[r]
      ELSE [status |-> RowStatus(p), attempt |-> p.attempt, paid |-> ReportsMoney(p)]

RowAfter(r, p) ==
    IF preserveTransactionState(txn[r].status, RowStatus(p), txn[r].paid)
      THEN txn[r]
      ELSE [status |-> RowStatus(p), attempt |-> p.attempt,
            paid |-> txn[r].paid \/ ReportsMoney(p)]

upsertPaymentTransaction(e, p, r) ==
    /\ r \in RowsFor(e, p)
    /\ txn' = [txn EXCEPT ![r] = RowAfter(r, p)]
    /\ eventRow' = [eventRow EXCEPT ![e] = r]

(* Variant: a settled attempt is not searched for a second collection. *)
CollectionBeforeSettlement(p, r) ==
    /\ ReportsMoney(p)
    /\ receipt[p.attempt] = None
    /\ \E other \in Rows \ {r} : txn[other].attempt = p.attempt /\ txn[other].paid

AdditionalCollection(p, r) ==
    /\ ReportsMoney(p)
    /\ \E other \in Rows \ {r} : txn[other].attempt = p.attempt /\ txn[other].paid

(* paidWebhookPayloadProblem compares decimals: padding is no difference. *)
PayloadProblem(p) == p.status = "PAID" /\ p.money \in {"other", "unreadable"}

(* Variants: one of the three reasons for a review is missing. *)
IgnoreSecondCollection(h, r) ==
    PayloadProblem(Payload(h)) \/ (Payload(h).status = "PAID" /\ seen[h].blocked)
IgnoreLateness(h, r) ==
    PayloadProblem(Payload(h)) \/ AdditionalCollection(Payload(h), r)

NeedsCollectionReview(h, r) ==
    \/ PayloadProblem(Payload(h))
    \/ Payload(h).status = "PAID" /\ seen[h].blocked
    \/ AdditionalCollection(Payload(h), r)

(* Variant: the consultation keeps waiting for the payment. *)
ReleaseSlotOnly(h, a, status) ==
    IF receipt[a] = None /\ Open(a)
      THEN /\ attempt' = [attempt EXCEPT ![a] = status]
           /\ appointment' = IF seen[h].appointment = "RESERVED"
                               THEN [appointment EXCEPT ![a] = "CANCELLED"]
                               ELSE appointment
           /\ UNCHANGED consultation
      ELSE UNCHANGED <<attempt, appointment, consultation>>

(* releaseFailedAttempt decides from the rows read under the lock and writes *)
(* the appointment and the consultation whatever they are by now.            *)
releaseFailedAttempt(h, a, status) ==
    IF receipt[a] = None /\ Open(a)
      THEN /\ attempt' = [attempt EXCEPT ![a] = status]
           /\ appointment' = IF seen[h].appointment = "RESERVED"
                               THEN [appointment EXCEPT ![a] = "CANCELLED"]
                               ELSE appointment
           /\ consultation' = IF seen[h].consultation = "PAYMENT_PENDING"
                                THEN [consultation EXCEPT ![a] = "REVIEWING"]
                                ELSE consultation
      ELSE UNCHANGED <<attempt, appointment, consultation>>

(* Ending the transaction: the event's final status, and the request returns. *)
Finish(h, status) ==
    /\ eventStatus' = [eventStatus EXCEPT ![working[h]] = status]
    /\ LeaveStage(h, "idle")
    /\ UNCHANGED <<clock, outcome, eventPayload, selected>>

(* Money that cannot settle the attempt is recorded and flagged. *)
ApplyReview(h, r) ==
    LET a == Subject(h) IN
    /\ stage[h] = "locked"
    /\ upsertPaymentTransaction(working[h], Payload(h), r)
    /\ NeedsCollectionReview(h, r)
    /\ releaseFailedAttempt(h, a, IF PayloadProblem(Payload(h)) THEN "FAILED" ELSE "EXPIRED")
    /\ failureCode' = [failureCode EXCEPT ![a] = "PAYMENT_COLLECTION_REVIEW_REQUIRED"]
    /\ Finish(h, "FAILED")
    /\ UNCHANGED <<receipt, ledgerReview>>

(* Variant: the booking is confirmed and the Payment is left for later. *)
SettleWithoutPayment(h, r) ==
    LET a == Subject(h) IN
    /\ stage[h] = "locked"
    /\ upsertPaymentTransaction(working[h], Payload(h), r)
    /\ Payload(h).status = "PAID" /\ ~NeedsCollectionReview(h, r) /\ receipt[a] = None
    /\ attempt' = [attempt EXCEPT ![a] = "PAID"]
    /\ appointment' = [appointment EXCEPT ![a] = "SCHEDULED"]
    /\ consultation' = [consultation EXCEPT ![a] = "SCHEDULED"]
    /\ Finish(h, "PROCESSED")
    /\ UNCHANGED <<failureCode, receipt, ledgerReview>>

(* confirmPaidAttempt of an unsettled attempt. *)
ApplySettlement(h, r) ==
    LET a == Subject(h) IN
    /\ stage[h] = "locked"
    /\ upsertPaymentTransaction(working[h], Payload(h), r)
    /\ Payload(h).status = "PAID"
    /\ ~NeedsCollectionReview(h, r)
    /\ receipt[a] = None
    /\ receipt' = [receipt EXCEPT ![a] = r]
    /\ attempt' = [attempt EXCEPT ![a] = "PAID"]
    /\ appointment' = [appointment EXCEPT ![a] = "SCHEDULED"]
    /\ consultation' = [consultation EXCEPT ![a] = "SCHEDULED"]
    /\ Finish(h, "PROCESSED")
    /\ UNCHANGED <<failureCode, ledgerReview>>

(* confirmPaidAttempt of a settled attempt: nothing to do. *)
ApplyRepeatedPaid(h, r) ==
    LET a == Subject(h) IN
    /\ stage[h] = "locked"
    /\ upsertPaymentTransaction(working[h], Payload(h), r)
    /\ Payload(h).status = "PAID"
    /\ ~NeedsCollectionReview(h, r)
    /\ receipt[a] # None
    /\ Finish(h, "PROCESSED")
    /\ UNCHANGED <<attempt, failureCode, appointment, consultation, receipt, ledgerReview>>

(* Variant: the void of a settled payment is an ordinary failure. *)
VoidIsFailure(h) == Payload(h).status \in {"REFUNDED", "DISPUTED"}

IsReversal(h) ==
    \/ Payload(h).status \in {"REFUNDED", "DISPUTED"}
    \/ Payload(h).status = "CANCELLED" /\ receipt[Subject(h)] # None

(* Variant: the Payment of the reversed attempt is not marked. *)
ReverseAttemptOnly(h, r) ==
    LET a == Subject(h) IN
    /\ stage[h] = "locked"
    /\ upsertPaymentTransaction(working[h], Payload(h), r)
    /\ IsReversal(h)
    /\ attempt' = [attempt EXCEPT ![a] = Payload(h).status]
    /\ failureCode' = [failureCode EXCEPT ![a] = "PAYMENT_REVERSAL_REVIEW_REQUIRED"]
    /\ Finish(h, "FAILED")
    /\ UNCHANGED <<appointment, consultation, receipt, ledgerReview>>

(* A refund, dispute or void of collected money: flagged, never computed. *)
ApplyReversal(h, r) ==
    LET a == Subject(h)
        recorded == RowAfter(r, Payload(h)).status
    IN
    /\ stage[h] = "locked"
    /\ upsertPaymentTransaction(working[h], Payload(h), r)
    /\ IsReversal(h)
    /\ attempt' = [attempt EXCEPT ![a] =
           IF recorded \in {"REFUNDED", "DISPUTED", "CANCELLED"}
             THEN recorded ELSE Payload(h).status]
    /\ failureCode' = [failureCode EXCEPT ![a] = "PAYMENT_REVERSAL_REVIEW_REQUIRED"]
    /\ ledgerReview' = [ledgerReview EXCEPT ![a] = @ \/ receipt[a] # None]
    /\ Finish(h, "FAILED")
    /\ UNCHANGED <<appointment, consultation, receipt>>

(* The provider ended the attempt without money. *)
ApplyFailure(h, r) ==
    LET a == Subject(h) IN
    /\ stage[h] = "locked"
    /\ upsertPaymentTransaction(working[h], Payload(h), r)
    /\ Payload(h).status \in {"FAILED", "EXPIRED", "CANCELLED"}
    /\ ~IsReversal(h)
    /\ releaseFailedAttempt(h, a, Payload(h).status)
    /\ failureCode' = IF receipt[a] = None /\ Open(a)
                        THEN [failureCode EXCEPT ![a] = "PROVIDER"] ELSE failureCode
    /\ Finish(h, "PROCESSED")
    /\ UNCHANGED <<receipt, ledgerReview>>

(* updateOpenAttemptStatus: an open attempt is PENDING already. *)
ApplyPending(h, r) ==
    /\ stage[h] = "locked"
    /\ upsertPaymentTransaction(working[h], Payload(h), r)
    /\ Payload(h).status = "PENDING"
    /\ Finish(h, "PROCESSED")
    /\ UNCHANGED <<attempt, failureCode, appointment, consultation, receipt, ledgerReview>>

(* Any exception before the commit: the lock wait, a deadlock victim, a      *)
(* transaction row of another attempt, another provider or order, or the     *)
(* second evaluation of the blocker after the expiry instant. The            *)
(* transaction rolls back.                                                   *)
AbortApply(h) ==
    /\ stage[h] \in {"recorded", "locked"}
    /\ LeaveStage(h, "failing")
    /\ UNCHANGED <<attemptVars, txn, eventVars, selected>>

(* The catch of handlePaymentWebhook overwrites the status whatever it is;   *)
(* a replay has no catch.                                                    *)
RecordFailure(h) ==
    /\ stage[h] = "failing"
    /\ eventStatus' = IF replaying[h] THEN eventStatus
                      ELSE [eventStatus EXCEPT ![working[h]] = "FAILED"]
    /\ LeaveStage(h, "idle")
    /\ UNCHANGED <<attemptVars, txn, eventPayload, eventRow, selected>>

(* The process dies: the open transaction rolls back. *)
Crash(h) ==
    /\ stage[h] # "idle"
    /\ LeaveStage(h, "idle")
    /\ UNCHANGED <<attemptVars, txn, eventVars, selected>>

------------------------------------------------------------------------------
(* Expiry. *)

Overdue == {a \in Attempts : Open(a) /\ clock[a] = "after"}

(* Both batches select outside their transaction. *)
SelectOverdue(s) ==
    /\ selected[s] = {}
    /\ \E batch \in SUBSET Overdue \ {{}} : selected' = [selected EXCEPT ![s] = batch]
    /\ UNCHANGED <<attemptVars, txn, eventVars, handlerVars>>

(* Variant: the slot and the consultation are left as they are. *)
ExpireAttemptOnly(expired) ==
    /\ attempt' = [a \in Attempts |-> IF a \in expired THEN "EXPIRED" ELSE attempt[a]]
    /\ failureCode' = [a \in Attempts |->
           IF a \in expired THEN "ATTEMPT_EXPIRED" ELSE failureCode[a]]
    /\ UNCHANGED <<appointment, consultation>>

Expire(expired) ==
    /\ attempt' = [a \in Attempts |-> IF a \in expired THEN "EXPIRED" ELSE attempt[a]]
    /\ failureCode' = [a \in Attempts |->
           IF a \in expired THEN "ATTEMPT_EXPIRED" ELSE failureCode[a]]
    /\ appointment' = [a \in Attempts |->
           IF a \in expired /\ appointment[a] = "RESERVED"
             THEN "CANCELLED" ELSE appointment[a]]
    /\ consultation' = [a \in Attempts |->
           IF a \in expired /\ consultation[a] = "PAYMENT_PENDING"
             THEN "REVIEWING" ELSE consultation[a]]

(* Variant: the selection is not rechecked. *)
SweepBlind(s) ==
    /\ selected[s] # {}
    /\ \A a \in selected[s] : ~Locked(a)
    /\ Expire(selected[s])
    /\ selected' = [selected EXCEPT ![s] = {}]
    /\ UNCHANGED <<clock, outcome, receipt, ledgerReview, txn, eventVars, handlerVars>>

(* expireOpenConsultationPaymentAttempts rechecks under the row locks. *)
SweepExpire(s) ==
    /\ selected[s] # {}
    /\ \A a \in selected[s] : ~Locked(a)
    /\ Expire(selected[s] \cap Overdue)
    /\ selected' = [selected EXCEPT ![s] = {}]
    /\ UNCHANGED <<clock, outcome, receipt, ledgerReview, txn, eventVars, handlerVars>>

(* expireOpenPaymentAttempts of the worker updates by id. *)
WorkerExpire(w) ==
    /\ selected[w] # {}
    /\ \A a \in selected[w] : ~Locked(a)
    /\ Expire(selected[w])
    /\ selected' = [selected EXCEPT ![w] = {}]
    /\ UNCHANGED <<clock, outcome, receipt, ledgerReview, txn, eventVars, handlerVars>>

(* The batch's transaction fails or its process dies. *)
ExpiryFails(s) ==
    /\ selected[s] # {}
    /\ selected' = [selected EXCEPT ![s] = {}]
    /\ UNCHANGED <<attemptVars, txn, eventVars, handlerVars>>

(* Variant: events are forgotten without a retention. *)
CleanupAtOnce(e) ==
    /\ eventStatus[e] = "PROCESSED"
    /\ eventStatus' = [eventStatus EXCEPT ![e] = "NONE"]
    /\ eventPayload' = [eventPayload EXCEPT ![e] = None]
    /\ eventRow' = [eventRow EXCEPT ![e] = None]
    /\ UNCHANGED <<attemptVars, txn, handlerVars, selected>>

(* cleanupOldOperationalData forgets processed events. The retention is at   *)
(* least thirty days: no request is still working on the event.              *)
CleanupEvent(e) ==
    /\ eventStatus[e] = "PROCESSED"
    /\ \A h \in Handlers : working[h] # e
    /\ eventStatus' = [eventStatus EXCEPT ![e] = "NONE"]
    /\ eventPayload' = [eventPayload EXCEPT ![e] = None]
    /\ eventRow' = [eventRow EXCEPT ![e] = None]
    /\ UNCHANGED <<attemptVars, txn, handlerVars, selected>>

------------------------------------------------------------------------------
(* Office actions on a consultation with a payment attempt. They run         *)
(* serializable and fail when a row they read changes, so each is one step;  *)
(* the webhook transaction is not serializable and does not see them.        *)

(* rejectConsultation *)
OfficeReject(a) ==
    /\ consultation[a] \notin {"NONE", "REJECTED"}
    /\ outcome[a] = "PENDING"
    /\ consultation' = [consultation EXCEPT ![a] = "REJECTED"]
    /\ outcome' = [outcome EXCEPT ![a] = "CANCELLED"]
    /\ appointment' = [appointment EXCEPT ![a] = "CANCELLED"]
    /\ UNCHANGED <<clock, attempt, failureCode, receipt, ledgerReview, txn, eventVars,
                   handlerVars, selected>>

(* assignConsultation moves every consultation that is not SCHEDULED to      *)
(* REVIEWING, also one that waits for its payment.                           *)
OfficeAssign(a) ==
    /\ consultation[a] \in {"PAYMENT_PENDING", "REVIEWING"}
    /\ outcome[a] = "PENDING"
    /\ consultation' = [consultation EXCEPT ![a] = "REVIEWING"]
    /\ UNCHANGED <<clock, attempt, failureCode, appointment, outcome, receipt, ledgerReview,
                   txn, eventVars, handlerVars, selected>>

(* rescheduleAdminCalendarAppointment *)
OfficeReschedule(a) ==
    /\ appointment[a] \in {"RESERVED", "SCHEDULED", "RESCHEDULED"}
    /\ outcome[a] = "PENDING"
    /\ appointment' = [appointment EXCEPT ![a] = "RESCHEDULED"]
    /\ UNCHANGED <<clock, attempt, failureCode, consultation, outcome, receipt, ledgerReview,
                   txn, eventVars, handlerVars, selected>>

------------------------------------------------------------------------------
ApplyWebhook(h) ==
    \E r \in Rows : \/ ApplyReview(h, r)
                    \/ ApplySettlement(h, r)
                    \/ ApplyRepeatedPaid(h, r)
                    \/ ApplyReversal(h, r)
                    \/ ApplyFailure(h, r)
                    \/ ApplyPending(h, r)

HandlerStep(h) ==
    \/ LockAttempt(h)
    \/ FindProcessed(h)
    \/ ApplyWebhook(h)
    \/ AbortApply(h)
    \/ RecordFailure(h)

Next ==
    \/ \E a \in Attempts : \/ CreateCheckout(a)
                           \/ Tick(a)
                           \/ OfficeReject(a)
                           \/ OfficeAssign(a)
                           \/ OfficeReschedule(a)
    \/ \E h \in Handlers, e \in Events :
           \/ \E p \in Payloads : ReceiveWebhook(h, e, p)
           \/ MarkReplay(h, e)
    \/ \E h \in Handlers : HandlerStep(h) \/ Crash(h)
    \/ \E s \in Sweepers \cup Workers : SelectOverdue(s) \/ ExpiryFails(s)
    \/ \E s \in Sweepers : SweepExpire(s)
    \/ \E w \in Workers : WorkerExpire(w)
    \/ \E e \in Events : CleanupEvent(e)

Spec == Init /\ [][Next]_vars

(* Time passes, a request that does not crash ends, and the worker's timer   *)
(* fires. Its update queues for the row locks, so it commits in the end when *)
(* requests release them again and again; its batches do not fail for ever.  *)
(* Nothing obliges a provider to report, the office to act, or a client to   *)
(* ask for the status.                                                       *)
Fairness ==
    /\ \A a \in Attempts : WF_vars(Tick(a))
    /\ \A h \in Handlers : WF_vars(HandlerStep(h))
    /\ \A w \in Workers : /\ WF_vars(SelectOverdue(w)) /\ SF_vars(WorkerExpire(w))
                          /\ <>[][~ExpiryFails(w)]_vars

FairSpec == Spec /\ Fairness

------------------------------------------------------------------------------
(* Type. *)

AttemptsTypeOK ==
    /\ clock \in [Attempts -> {"before", "at", "after"}]
    /\ attempt \in [Attempts -> AttemptStatuses]
    /\ failureCode \in [Attempts -> FailureCodes]
    /\ appointment \in [Attempts -> AppointmentStatuses]
    /\ consultation \in [Attempts -> ConsultationStatuses]
    /\ outcome \in [Attempts -> {"PENDING", "CANCELLED"}]
    /\ receipt \in [Attempts -> Rows \cup {None}]
    /\ ledgerReview \in [Attempts -> BOOLEAN]

EventsTypeOK ==
    /\ txn \in [Rows -> Txn]
    /\ eventStatus \in [Events -> {"NONE", "PENDING", "PROCESSED", "FAILED"}]
    /\ eventPayload \in [Events -> Payloads \cup {None}]
    /\ eventRow \in [Events -> Rows \cup {None}]

HandlersTypeOK ==
    /\ stage \in [Handlers -> {"idle", "recorded", "locked", "failing"}]
    /\ working \in [Handlers -> Events \cup {None}]
    /\ replaying \in [Handlers -> BOOLEAN]
    /\ seen \in [Handlers -> Seen]
    /\ selected \in [Sweepers \cup Workers -> SUBSET Attempts]

RequestsTypeOK ==
    /\ \A e \in Events : eventStatus[e] # "NONE" => eventPayload[e] \in Payloads
    /\ \A h \in Handlers : stage[h] # "idle" =>
           working[h] \in Events /\ eventStatus[working[h]] # "NONE"

(* Every variable holds a value of its column or request field, and a        *)
(* request in progress works on a recorded event with a payload.             *)
TypeOK == AttemptsTypeOK /\ EventsTypeOK /\ HandlersTypeOK /\ RequestsTypeOK

------------------------------------------------------------------------------
(* Safety. *)

(* The settlement was trusted and its money was not recorded: the Payment    *)
(* stands on a row without paidAt. Only a padded amount does this.           *)
Unrecorded(a) ==
    "padded" \in MoneyForms /\ receipt[a] # None /\ ~txn[receipt[a]].paid

(* Money the office has recorded is either the collection of the Payment or  *)
(* the attempt waits for a financial review, whatever order, repetition or   *)
(* replay the reports come in; the one way around it is a settlement that    *)
(* left no record of its own money (applyWebhookPaymentState).               *)
NoSilentCollection ==
    \A a \in Attempts, r \in Rows :
        txn[r].paid /\ txn[r].attempt = a => receipt[a] = r \/ Flagged(a) \/ Unrecorded(a)

(* The public receipt is offered (getPublicConsultationPaymentReceipt).      *)
ReceiptVisible(a) == receipt[a] # None /\ attempt[a] = "PAID" /\ ~Flagged(a)

(* An offered receipt names a transaction that is still PAID and is the only *)
(* collection of the attempt; one settled without a record names no          *)
(* collection (paymentAttemptDto).                                           *)
ReceiptIsHonest ==
    \A a \in Attempts : ReceiptVisible(a) /\ ~Unrecorded(a) =>
        /\ txn[receipt[a]].status = "PAID"
        /\ \A r \in Rows : txn[r].paid /\ txn[r].attempt = a <=> r = receipt[a]

(* A webhook or an expiry leaves an appointment SCHEDULED only when a        *)
(* Payment backs it (confirmPaidAttempt).                                    *)
BookingBacked ==
    \A a \in Attempts : appointment[a] = "SCHEDULED" => receipt[a] # None

(* An attempt with a Payment is PAID or reversed: no expiry and no failure   *)
(* report takes it back (expireOpenConsultationPaymentAttempts,              *)
(* releaseFailedAttempt).                                                    *)
SettledAttemptStands ==
    \A a \in Attempts : receipt[a] # None =>
        attempt[a] \in {"PAID", "REFUNDED", "DISPUTED", "CANCELLED"}

(* An attempt that failed or expired without a Payment has released its      *)
(* reservation: the three rows end together even when the office writes in   *)
(* between (releaseFailedAttempt, the expiry batches). A refund or dispute   *)
(* of money never seen here does not release: see ReservationEnds.           *)
EndedUnpaid(a) ==
    /\ receipt[a] = None
    /\ attempt[a] \in {"FAILED", "EXPIRED"} \/ failureCode[a] = "PROVIDER"

ReleasedTogether ==
    \A a \in Attempts : EndedUnpaid(a) =>
        appointment[a] # "RESERVED" /\ consultation[a] # "PAYMENT_PENDING"

(* A slot that stays reserved after its attempt has ended carries the        *)
(* evidence of why: only a refund or dispute of money never seen here leaves *)
(* it so, and its transaction row keeps that status (the reversal branch of  *)
(* applyWebhookPaymentState, preserveTransactionState).                      *)
HeldSlotExplained ==
    \A a \in Attempts :
        appointment[a] = "RESERVED" /\ attempt[a] # "NONE" /\ ~Open(a) =>
            \E r \in Rows : txn[r].attempt = a /\ txn[r].status \in {"REFUNDED", "DISPUTED"}

(* A blind batch may have taken the attempt whatever it had become. *)
Excused(a) == Workers # {} /\ attempt[a] = "EXPIRED"

(* A padded report, or one of an attempt settled by a padded report, may be   *)
(* processed beside the settlement: no row tells that it is other money.     *)
PaddingHides(e) ==
    LET a == eventPayload[e].attempt IN
    \/ eventPayload[e].money = "padded"
    \/ Unrecorded(a)
    \/ "padded" \in MoneyForms /\ (Flagged(a) \/ Excused(a))

(* An event answered as PROCESSED with a PAID report is the settlement       *)
(* itself, unless padding hides it: no other request, retry or replay gets   *)
(* that answer for other money (applyWebhookPaymentState).                   *)
ProcessedPaidIsSettled ==
    \A e \in Events :
        eventStatus[e] = "PROCESSED" /\ eventPayload[e].status = "PAID" =>
            /\ eventRow[e] # None
            /\ receipt[eventPayload[e].attempt] # None
            /\ receipt[eventPayload[e].attempt] = eventRow[e] \/ PaddingHides(e)

(* "A second distinct trusted collection requires review": a PAID report     *)
(* that was accepted for another transaction than the settled one has put    *)
(* the attempt under review (the additionalCollection of                     *)
(* applyWebhookPaymentState). A padded second collection is not seen.        *)
SecondCollectionReviewed ==
    \A e \in Events :
        eventStatus[e] = "PROCESSED" /\ eventPayload[e].status = "PAID" =>
            LET a == eventPayload[e].attempt IN
            receipt[a] = eventRow[e] \/ Flagged(a)

(* Recorded money that is neither the Payment's collection nor under review  *)
(* belongs to an EXPIRED attempt, or to one settled without a record: beside *)
(* the worker's blind batch, a reconciliation of these two finds it          *)
(* (expireOpenPaymentAttempts).                                              *)
SilenceIsExpired ==
    \A a \in Attempts, r \in Rows :
        txn[r].paid /\ txn[r].attempt = a =>
            receipt[a] = r \/ Flagged(a) \/ attempt[a] = "EXPIRED" \/ Unrecorded(a)

(* A settled attempt whose money went back keeps its invoice out of          *)
(* automatic collection until somebody reviews the ledger.                   *)
ReversalStopsLedger ==
    \A a \in Attempts :
        receipt[a] # None /\ attempt[a] \in {"REFUNDED", "DISPUTED", "CANCELLED"} =>
            ledgerReview[a] /\ Flagged(a)

------------------------------------------------------------------------------
(* The inductive invariant behind the money: why the properties above hold,  *)
(* and which of them the blind batch of a worker leaves standing.            *)

AccountedOrExcused ==
    \A a \in Attempts, r \in Rows :
        txn[r].paid /\ txn[r].attempt = a =>
            receipt[a] = r \/ Flagged(a) \/ Excused(a) \/ Unrecorded(a)

SettledOrExcused ==
    \A a \in Attempts : receipt[a] # None =>
        attempt[a] \in {"PAID", "REFUNDED", "DISPUTED", "CANCELLED"} \/ Excused(a)

RecordedAttemptExists ==
    \A e \in Events :
        eventStatus[e] # "NONE" => attempt[eventPayload[e].attempt] # "NONE"

LockExclusive ==
    \A g, h \in Handlers :
        stage[g] = "locked" /\ stage[h] = "locked" /\ Subject(g) = Subject(h) => g = h

(* What a request decided from under the lock is still so when it writes. *)
LockedDecisionStands ==
    \A h \in Handlers :
        stage[h] = "locked" /\ ~seen[h].blocked /\ receipt[Subject(h)] = None =>
            Open(Subject(h))

Closed(a) == attempt[a] \notin {"NONE", "PENDING"}

FlaggedClosed == \A a \in Attempts : Flagged(a) => Closed(a)

RowsSound ==
    \A r \in Rows :
        /\ txn[r].status = "NONE" => txn[r] = NoTxn
        /\ txn[r].status # "NONE" => txn[r].attempt \in Attempts
        /\ txn[r].status = "PAID" => txn[r].paid
        /\ txn[r].paid => txn[r].status \in {"PAID", "REFUNDED", "DISPUTED", "CANCELLED"}
        /\ txn[r].status \in {"REFUNDED", "DISPUTED"} =>
               Closed(txn[r].attempt) /\ (Flagged(txn[r].attempt) \/ Excused(txn[r].attempt))

ReceiptCollected ==
    \A a \in Attempts : receipt[a] # None =>
        /\ txn[receipt[a]].attempt = a
        /\ txn[receipt[a]].paid \/ Unrecorded(a)
        /\ ReceiptVisible(a) => txn[receipt[a]].status = "PAID" \/ Unrecorded(a)

(* Of the requests. *)
RequestsInv ==
    /\ RecordedAttemptExists
    /\ LockExclusive
    /\ LockedDecisionStands

(* Of the attempts and their rows. *)
RowsInv ==
    /\ FlaggedClosed
    /\ RowsSound
    /\ ReceiptCollected
    /\ SettledOrExcused
    /\ AccountedOrExcused
    /\ ReversalStopsLedger

MoneyInv == RequestsInv /\ RowsInv

(* Why the answers to the provider hold: the row of a PAID report that was   *)
(* answered as PROCESSED keeps its money, unless it is padded or reversed.   *)
ProcessedRowStands ==
    \A e \in Events :
        eventStatus[e] = "PROCESSED" /\ eventPayload[e].status = "PAID" =>
            /\ txn[eventRow[e]].attempt = eventPayload[e].attempt
            /\ \/ txn[eventRow[e]].paid
               \/ txn[eventRow[e]].status \in {"REFUNDED", "DISPUTED"}
               \/ eventPayload[e].money = "padded"

AnswersInv == ProcessedPaidIsSettled /\ ProcessedRowStands

(* Why a reservation and its booking end together, with or without the blind *)
(* batch: a locked request has read every reservation that still stands.     *)
LockedReadingCurrent ==
    \A h \in Handlers : stage[h] = "locked" =>
        /\ appointment[Subject(h)] = "RESERVED" => seen[h].appointment = "RESERVED"
        /\ consultation[Subject(h)] = "PAYMENT_PENDING" =>
               seen[h].consultation = "PAYMENT_PENDING"

UnbornUntouched == \A a \in Attempts : attempt[a] = "NONE" => failureCode[a] = "none"

ReleaseInv ==
    /\ RecordedAttemptExists
    /\ LockedReadingCurrent
    /\ UnbornUntouched
    /\ BookingBacked
    /\ ReleasedTogether

------------------------------------------------------------------------------
(* Steps. *)

(* No step loses the evidence of a collection: a paid row stays paid and of  *)
(* its attempt, and a refund or dispute is never overwritten by a late       *)
(* report (preserveTransactionState).                                        *)
EvidenceKept ==
    \A r \in Rows :
        /\ txn[r].paid =>
               /\ txn'[r].paid /\ txn'[r].attempt = txn[r].attempt
               /\ txn'[r].status \in {"PAID", "REFUNDED", "DISPUTED", "CANCELLED"}
        /\ txn[r].status \in {"REFUNDED", "DISPUTED"} => txn'[r] = txn[r]
EvidencePreserved == [][EvidenceKept]_vars

(* A review flag is not lowered by a report, a replay or an expiry, so a     *)
(* receipt that was withdrawn does not come back.                            *)
ReviewKept == \A a \in Attempts : Flagged(a) => Flagged(a)'
ReviewSticky == [][ReviewKept]_vars

(* A rejected consultation stays rejected: a payment that arrives with the   *)
(* rejection does not put it back on the calendar                            *)
(* (rejectConsultation, "Payment attempt appointment is no longer reserved."). *)
RejectionIsFinal ==
    [][\A a \in Attempts : consultation[a] = "REJECTED" => consultation'[a] = "REJECTED"]_vars

(* It is undone only by a request that has held the attempt's lock since     *)
(* before the rejection: every report locked later reads the rejection and   *)
(* its money goes to a review (paidAttemptWebhookConfirmationBlocker).       *)
RejectionOvertaken ==
    \A a \in Attempts :
        consultation[a] = "REJECTED" /\ consultation'[a] # "REJECTED" =>
            \E h \in Handlers : Holds(h, a) /\ seen[h].consultation = "PAYMENT_PENDING"
RejectionUndoneOnlyInFlight == [][RejectionOvertaken]_vars

------------------------------------------------------------------------------
(* Liveness. *)

(* A reservation does not hold the slot for ever: it is paid, released or    *)
(* taken over by the office.                                                 *)
ReservationEnds == \A a \in Attempts :
    appointment[a] = "RESERVED" ~> appointment[a] # "RESERVED"

------------------------------------------------------------------------------
(* The promise these steps implement. *)

Phase(a) ==
    IF attempt[a] = "NONE" THEN "none"
    ELSE IF Open(a) THEN "open"
    ELSE IF receipt[a] = None THEN "released"
    ELSE IF attempt[a] = "PAID" THEN "settled" ELSE "reversed"

Collected(a) == {r \in Rows : txn[r].paid /\ txn[r].attempt = a}

Promise == INSTANCE ReservationPromise WITH
    Collections <- Rows,
    NoCollection <- None,
    LooseAmounts <- ("padded" \in MoneyForms),
    phase <- [a \in Attempts |-> Phase(a)],
    collected <- [a \in Attempts |-> Collected(a)],
    review <- [a \in Attempts |-> Flagged(a)]

(* Requests, replays, crashes and expiry together do only what the promise   *)
(* allows: one settlement, one release, and a review for all other money     *)
(* (applyWebhookPaymentState, expireOpenConsultationPaymentAttempts).        *)
KeepsPromise == Promise!Spec
=============================================================================
