----------------------- MODULE PaymentSettlementProofs -----------------------
(***************************************************************************)
(* Type correctness of PaymentSettlement, and the safety of its money for  *)
(* every number of attempts, transactions, events, requests and sweeps.    *)
(***************************************************************************)
EXTENDS PaymentSettlement, TLAPS

(* What a payload says is typed. *)
LEMMA PayloadTyped ==
    ASSUME NEW p \in Payloads
    PROVE  /\ p.attempt \in Attempts
           /\ p.txn \in TxnIds \cup {None}
           /\ p.status \in Statuses
           /\ RowStatus(p) \in TxnStatuses
           /\ ReportsMoney(p) \in BOOLEAN
  BY PayloadAssumption DEF Payloads, Statuses, RowStatus, ReportsMoney, TxnStatuses

(* A request in progress knows its payload. *)
LEMMA WorkingTyped ==
    ASSUME TypeOK, NEW h \in Handlers, stage[h] # "idle"
    PROVE  /\ working[h] \in Events
           /\ Payload(h) \in Payloads
           /\ Subject(h) \in Attempts
  <1>1. working[h] \in Events /\ eventStatus[working[h]] # "NONE"
    BY DEF TypeOK, RequestsTypeOK
  <1>2. Payload(h) \in Payloads
    BY <1>1 DEF TypeOK, RequestsTypeOK, Payload
  <1> QED BY <1>1, <1>2, PayloadTyped DEF Subject

(* The transaction row a report ends in is typed and belongs to the attempt. *)
LEMMA UpsertTyped ==
    ASSUME TypeOK, NEW e \in Events, NEW p \in Payloads, NEW r \in Rows,
           upsertPaymentTransaction(e, p, r)
    PROVE  /\ txn' \in [Rows -> Txn]
           /\ eventRow' \in [Events -> Rows \cup {None}]
  <1>1. RowAfter(r, p) \in Txn
    BY PayloadTyped DEF TypeOK, EventsTypeOK, RowAfter, Txn
  <1> QED BY <1>1 DEF upsertPaymentTransaction, TypeOK, EventsTypeOK

(* Leaving a stage keeps the request typed. *)
LEMMA LeaveTyped ==
    ASSUME HandlersTypeOK, NEW h \in Handlers, NEW next \in {"idle", "failing"},
           LeaveStage(h, next), selected' = selected
    PROVE  HandlersTypeOK'
  <1>1. NothingSeen \in Seen
    BY DEF NothingSeen, Seen, AppointmentStatuses, ConsultationStatuses
  <1> QED BY <1>1 DEF HandlersTypeOK, LeaveStage

(* A request that leaves keeps working on a recorded event, and events keep  *)
(* their payloads.                                                           *)
LEMMA LeaveRecorded ==
    ASSUME TypeOK, NEW h \in Handlers, NEW next \in {"idle", "failing"},
           LeaveStage(h, next), stage[h] # "idle", eventPayload' = eventPayload,
           \A e \in Events : eventStatus'[e] = "NONE" <=> eventStatus[e] = "NONE"
    PROVE  RequestsTypeOK'
  BY PayloadTyped DEF TypeOK, HandlersTypeOK, RequestsTypeOK, LeaveStage

(* The commit of a report's transaction keeps everything but the attempt's   *)
(* own rows typed.                                                           *)
LEMMA CommitTyped ==
    ASSUME TypeOK, NEW h \in Handlers, NEW r \in Rows, stage[h] = "locked",
           upsertPaymentTransaction(working[h], Payload(h), r),
           NEW status \in {"PROCESSED", "FAILED"}, Finish(h, status)
    PROVE  EventsTypeOK' /\ HandlersTypeOK' /\ RequestsTypeOK'
  <1>1. /\ working[h] \in Events /\ Payload(h) \in Payloads
        /\ eventStatus[working[h]] # "NONE"
    BY WorkingTyped DEF TypeOK, RequestsTypeOK
  <1>2. txn' \in [Rows -> Txn] /\ eventRow' \in [Events -> Rows \cup {None}]
    BY <1>1, UpsertTyped
  <1>3. EventsTypeOK'
    BY <1>1, <1>2 DEF Finish, TypeOK, EventsTypeOK
  <1>4. HandlersTypeOK'
    BY LeaveTyped DEF Finish, TypeOK
  <1>5. RequestsTypeOK'
    <2>1. \A e \in Events : eventStatus'[e] = "NONE" <=> eventStatus[e] = "NONE"
      BY <1>1 DEF Finish, TypeOK, EventsTypeOK
    <2> QED BY <2>1, LeaveRecorded DEF Finish
  <1> QED BY <1>3, <1>4, <1>5

(* Each outcome of a report keeps the attempt's rows typed. *)
LEMMA ApplyTyped ==
    ASSUME TypeOK, NEW h \in Handlers, ApplyWebhook(h)
    PROVE  TypeOK'
  <1> USE DEF AttemptsTypeOK, FailureCodes, AttemptStatuses, Statuses,
              AppointmentStatuses, ConsultationStatuses
  <1>1. PICK r \in Rows : \/ ApplyReview(h, r)
                          \/ ApplySettlement(h, r)
                          \/ ApplyRepeatedPaid(h, r)
                          \/ ApplyReversal(h, r)
                          \/ ApplyFailure(h, r)
                          \/ ApplyPending(h, r)
    BY DEF ApplyWebhook
  <1>a. /\ stage[h] = "locked"
        /\ upsertPaymentTransaction(working[h], Payload(h), r)
        /\ Finish(h, "PROCESSED") \/ Finish(h, "FAILED")
    BY <1>1 DEF ApplyReview, ApplySettlement, ApplyRepeatedPaid, ApplyReversal,
                ApplyFailure, ApplyPending
  <1>b. EventsTypeOK' /\ HandlersTypeOK' /\ RequestsTypeOK'
    BY <1>a, CommitTyped
  <1>c. Subject(h) \in Attempts /\ Payload(h) \in Payloads /\ Payload(h).status \in Statuses
    BY <1>a, WorkingTyped, PayloadTyped
  <1>d. clock' = clock /\ outcome' = outcome
    BY <1>a DEF Finish
  <1>2. CASE ApplyReview(h, r)
    <2>1. \A status \in {"FAILED", "EXPIRED"} :
              releaseFailedAttempt(h, Subject(h), status) =>
                  /\ attempt' \in [Attempts -> AttemptStatuses]
                  /\ appointment' \in [Attempts -> AppointmentStatuses]
                  /\ consultation' \in [Attempts -> ConsultationStatuses]
      BY <1>c DEF releaseFailedAttempt, TypeOK
    <2> QED BY <1>2, <1>b, <1>c, <1>d, <2>1 DEF ApplyReview, TypeOK
  <1>3. CASE ApplySettlement(h, r)
    BY <1>3, <1>b, <1>c, <1>d DEF ApplySettlement, TypeOK
  <1>4. CASE ApplyRepeatedPaid(h, r)
    BY <1>4, <1>b, <1>d DEF ApplyRepeatedPaid, TypeOK
  <1>5. CASE ApplyReversal(h, r)
    BY <1>5, <1>b, <1>c, <1>d DEF ApplyReversal, TypeOK
  <1>6. CASE ApplyFailure(h, r)
    <2>1. /\ attempt' \in [Attempts -> AttemptStatuses]
          /\ appointment' \in [Attempts -> AppointmentStatuses]
          /\ consultation' \in [Attempts -> ConsultationStatuses]
      BY <1>6, <1>c DEF ApplyFailure, releaseFailedAttempt, TypeOK
    <2> QED BY <1>6, <1>b, <1>c, <1>d, <2>1 DEF ApplyFailure, TypeOK
  <1>7. CASE ApplyPending(h, r)
    BY <1>7, <1>b, <1>d DEF ApplyPending, TypeOK
  <1> QED BY <1>1, <1>2, <1>3, <1>4, <1>5, <1>6, <1>7

(* Expiry keeps the rows it writes typed. *)
LEMMA ExpireTyped ==
    ASSUME AttemptsTypeOK, NEW expired, Expire(expired),
           clock' = clock, outcome' = outcome, receipt' = receipt,
           ledgerReview' = ledgerReview
    PROVE  AttemptsTypeOK'
  BY DEF AttemptsTypeOK, Expire, FailureCodes, AttemptStatuses, Statuses,
         AppointmentStatuses, ConsultationStatuses

LEMMA TypeInit == Init => TypeOK
  BY DEF Init, TypeOK, AttemptsTypeOK, EventsTypeOK, HandlersTypeOK, RequestsTypeOK,
         AttemptStatuses, FailureCodes, AppointmentStatuses, ConsultationStatuses,
         Txn, NoTxn, Seen, NothingSeen

LEMMA TypeStep == TypeOK /\ [Next]_vars => TypeOK'
  <1> SUFFICES ASSUME TypeOK, [Next]_vars PROVE TypeOK'
    OBVIOUS
  <1> USE DEF TypeOK
  <1>1. ASSUME NEW a \in Attempts,
               \/ CreateCheckout(a) \/ Tick(a) \/ OfficeReject(a)
               \/ OfficeAssign(a) \/ OfficeReschedule(a)
        PROVE  TypeOK'
    <2>1. AttemptsTypeOK'
      BY <1>1 DEF CreateCheckout, Tick, OfficeReject, OfficeAssign, OfficeReschedule,
                  AttemptsTypeOK, AttemptStatuses, Statuses, AppointmentStatuses,
                  ConsultationStatuses
    <2>2. UNCHANGED <<txn, eventVars, handlerVars, selected>>
      BY <1>1 DEF CreateCheckout, Tick, OfficeReject, OfficeAssign, OfficeReschedule
    <2> QED BY <2>1, <2>2 DEF EventsTypeOK, HandlersTypeOK, RequestsTypeOK, eventVars,
                              handlerVars
  <1>2. ASSUME NEW h \in Handlers, NEW e \in Events, NEW p \in Payloads,
               ReceiveWebhook(h, e, p)
        PROVE  TypeOK'
    BY <1>2 DEF ReceiveWebhook, attemptVars, AttemptsTypeOK, EventsTypeOK, HandlersTypeOK,
                RequestsTypeOK
  <1>3. ASSUME NEW h \in Handlers, NEW e \in Events, MarkReplay(h, e)
        PROVE  TypeOK'
    BY <1>3 DEF MarkReplay, attemptVars, AttemptsTypeOK, EventsTypeOK, HandlersTypeOK,
                RequestsTypeOK
  <1>4. ASSUME NEW h \in Handlers, HandlerStep(h) \/ Crash(h)
        PROVE  TypeOK'
    <2>1. CASE LockAttempt(h)
      <3>1. stage[h] # "idle" /\ Subject(h) \in Attempts
        BY <2>1, WorkingTyped DEF LockAttempt
      <3>2. HandlersTypeOK'
        BY <2>1, <3>1 DEF LockAttempt, HandlersTypeOK, AttemptsTypeOK, Seen, Blocked
      <3> QED BY <2>1, <3>1, <3>2 DEF LockAttempt, attemptVars, eventVars, AttemptsTypeOK,
                                      EventsTypeOK, RequestsTypeOK
    <2>2. CASE FindProcessed(h) \/ AbortApply(h) \/ Crash(h)
      <3>1. /\ stage[h] # "idle" /\ UNCHANGED <<attemptVars, txn, eventVars, selected>>
            /\ LeaveStage(h, "idle") \/ LeaveStage(h, "failing")
        BY <2>2 DEF FindProcessed, AbortApply, Crash
      <3>2. HandlersTypeOK' /\ RequestsTypeOK'
        BY <3>1, LeaveTyped, LeaveRecorded DEF eventVars
      <3> QED BY <3>1, <3>2 DEF attemptVars, eventVars, AttemptsTypeOK, EventsTypeOK
    <2>3. CASE ApplyWebhook(h)
      BY <2>3, ApplyTyped
    <2>4. CASE RecordFailure(h)
      <3>1. /\ stage[h] # "idle" /\ LeaveStage(h, "idle")
            /\ UNCHANGED <<attemptVars, txn, eventPayload, eventRow, selected>>
        BY <2>4 DEF RecordFailure
      <3>2. working[h] \in Events /\ eventStatus[working[h]] # "NONE"
        BY <3>1 DEF RequestsTypeOK
      <3>3. EventsTypeOK'
        BY <2>4, <3>2 DEF RecordFailure, EventsTypeOK
      <3>4. \A e \in Events : eventStatus'[e] = "NONE" <=> eventStatus[e] = "NONE"
        BY <2>4, <3>2 DEF RecordFailure, EventsTypeOK
      <3>5. HandlersTypeOK' /\ RequestsTypeOK'
        BY <3>1, <3>4, LeaveTyped, LeaveRecorded
      <3> QED BY <3>1, <3>3, <3>5 DEF attemptVars, AttemptsTypeOK
    <2> QED BY <1>4, <2>1, <2>2, <2>3, <2>4 DEF HandlerStep
  <1>5. ASSUME NEW s \in Sweepers \cup Workers,
               SelectOverdue(s) \/ ExpiryFails(s)
        PROVE  TypeOK'
    <2>1. selected' \in [Sweepers \cup Workers -> SUBSET Attempts]
      BY <1>5 DEF SelectOverdue, ExpiryFails, Overdue, HandlersTypeOK
    <2> QED BY <1>5, <2>1 DEF SelectOverdue, ExpiryFails, attemptVars, eventVars, handlerVars,
                  AttemptsTypeOK, EventsTypeOK, HandlersTypeOK, RequestsTypeOK
  <1>6. ASSUME NEW s \in Sweepers \cup Workers,
               SweepExpire(s) \/ WorkerExpire(s)
        PROVE  TypeOK'
    <2>1. AttemptsTypeOK'
      BY <1>6, ExpireTyped DEF SweepExpire, WorkerExpire
    <2>2. selected' \in [Sweepers \cup Workers -> SUBSET Attempts]
      BY <1>6 DEF SweepExpire, WorkerExpire, HandlersTypeOK
    <2> QED BY <1>6, <2>1, <2>2 DEF SweepExpire, WorkerExpire, eventVars, handlerVars,
                  EventsTypeOK, HandlersTypeOK, RequestsTypeOK
  <1>7. ASSUME NEW e \in Events, CleanupEvent(e)
        PROVE  TypeOK'
    BY <1>7 DEF CleanupEvent, attemptVars, handlerVars, AttemptsTypeOK, EventsTypeOK,
                HandlersTypeOK, RequestsTypeOK
  <1>8. ASSUME UNCHANGED vars
        PROVE  TypeOK'
    BY <1>8 DEF vars, attemptVars, eventVars, handlerVars, AttemptsTypeOK, EventsTypeOK,
                HandlersTypeOK, RequestsTypeOK
  <1> QED BY <1>1, <1>2, <1>3, <1>4, <1>5, <1>6, <1>7, <1>8 DEF Next

(* Every variable keeps the type of its column or request field, and a       *)
(* request in progress always works on a recorded event                      *)
(* (handlePaymentWebhook records the event before applying it).              *)
THEOREM TypeCorrect == Spec => []TypeOK
  BY TypeInit, TypeStep, PTL DEF Spec

------------------------------------------------------------------------------
(* The money. *)

LEMMA RowsUntouched ==
    ASSUME RowsInv, UNCHANGED <<attemptVars, txn>>
    PROVE  RowsInv'
  BY DEF RowsInv, FlaggedClosed, RowsSound, ReceiptCollected, SettledOrExcused,
         AccountedOrExcused, ReversalStopsLedger, Flagged, Closed, ReceiptVisible,
         attemptVars, Excused, Unrecorded

(* A step after which the locked requests are among the locked ones before,  *)
(* with the same payload and reading, and which leaves the attempts alone.   *)
LEMMA RequestsShrink ==
    ASSUME TypeOK, RequestsInv,
           UNCHANGED attemptVars,
           \A h \in Handlers : stage'[h] = "locked" =>
               stage[h] = "locked" /\ Subject(h)' = Subject(h) /\ seen'[h] = seen[h],
           RecordedAttemptExists'
    PROVE  RequestsInv'
  BY DEF RequestsInv, LockExclusive, LockedDecisionStands, Open, attemptVars

LEMMA ReceiveMoney ==
    ASSUME TypeOK, MoneyInv, NEW h \in Handlers, NEW e \in Events,
           (\E p \in Payloads : ReceiveWebhook(h, e, p)) \/ MarkReplay(h, e)
    PROVE  MoneyInv'
  <1>1. UNCHANGED <<attemptVars, txn>> /\ stage[h] = "idle"
    BY DEF ReceiveWebhook, MarkReplay
  <1>2. RecordedAttemptExists'
    BY DEF ReceiveWebhook, MarkReplay, MoneyInv, RequestsInv, RecordedAttemptExists, attemptVars,
           TypeOK, EventsTypeOK
  <1>3. \A g \in Handlers : stage'[g] = "locked" =>
            stage[g] = "locked" /\ Subject(g)' = Subject(g) /\ seen'[g] = seen[g]
    BY DEF ReceiveWebhook, MarkReplay, Subject, Payload, TypeOK, HandlersTypeOK,
           EventsTypeOK, RequestsTypeOK
  <1>4. RequestsInv'
    BY <1>1, <1>2, <1>3, RequestsShrink DEF MoneyInv
  <1> QED BY <1>1, <1>4, RowsUntouched DEF MoneyInv

LEMMA LeaveMoney ==
    ASSUME TypeOK, MoneyInv, NEW h \in Handlers,
           FindProcessed(h) \/ AbortApply(h) \/ RecordFailure(h) \/ Crash(h)
    PROVE  MoneyInv'
  <1>1. UNCHANGED <<attemptVars, txn, eventPayload>> /\ stage[h] # "idle"
    BY DEF FindProcessed, AbortApply, RecordFailure, Crash, eventVars
  <1>2. LeaveStage(h, "idle") \/ LeaveStage(h, "failing")
    BY DEF FindProcessed, AbortApply, RecordFailure, Crash
  <1>3. working[h] \in Events /\ eventStatus[working[h]] # "NONE"
    BY <1>1 DEF TypeOK, RequestsTypeOK
  <1>4. \A e \in Events : eventStatus'[e] = "NONE" <=> eventStatus[e] = "NONE"
    BY <1>3 DEF FindProcessed, AbortApply, RecordFailure, Crash, eventVars, TypeOK,
                EventsTypeOK
  <1>5. RecordedAttemptExists'
    BY <1>1, <1>4 DEF MoneyInv, RequestsInv, RecordedAttemptExists, attemptVars
  <1>6. \A g \in Handlers : stage'[g] = "locked" =>
            stage[g] = "locked" /\ Subject(g)' = Subject(g) /\ seen'[g] = seen[g]
    BY <1>1, <1>2 DEF LeaveStage, Subject, Payload, TypeOK, HandlersTypeOK
  <1>7. RequestsInv'
    BY <1>1, <1>5, <1>6, RequestsShrink DEF MoneyInv
  <1> QED BY <1>1, <1>7, RowsUntouched DEF MoneyInv

LEMMA LockMoney ==
    ASSUME TypeOK, MoneyInv, NEW h \in Handlers, LockAttempt(h)
    PROVE  MoneyInv'
  <1>1. UNCHANGED <<attemptVars, txn, eventVars, working>> /\ stage[h] = "recorded"
    BY DEF LockAttempt
  <1>2. Subject(h) \in Attempts /\ \A g \in Handlers : Subject(g)' = Subject(g)
    BY <1>1, WorkingTyped DEF Subject, Payload, eventVars
  <1>3. LockExclusive'
    BY <1>2 DEF LockAttempt, Locked, Holds, MoneyInv, RequestsInv, LockExclusive, TypeOK, HandlersTypeOK
  <1>4. LockedDecisionStands'
    <2> SUFFICES ASSUME NEW g \in Handlers, stage'[g] = "locked", ~seen'[g].blocked,
                        receipt'[Subject(g)'] = None
                 PROVE  Open(Subject(g))'
      BY DEF LockedDecisionStands
    <2>1. CASE g = h
      BY <2>1, <1>1, <1>2 DEF LockAttempt, Blocked, Open, attemptVars, TypeOK, HandlersTypeOK
    <2>2. CASE g # h
      BY <2>2, <1>1, <1>2 DEF LockAttempt, MoneyInv, RequestsInv, LockedDecisionStands, Open, attemptVars,
                         TypeOK, HandlersTypeOK
    <2> QED BY <2>1, <2>2
  <1>5. RecordedAttemptExists'
    BY <1>1 DEF MoneyInv, RequestsInv, RecordedAttemptExists, attemptVars, eventVars
  <1> QED BY <1>1, <1>3, <1>4, <1>5, RowsUntouched DEF MoneyInv, RequestsInv

LEMMA CleanupMoney ==
    ASSUME TypeOK, MoneyInv, NEW e \in Events, CleanupEvent(e)
    PROVE  MoneyInv'
  <1>1. UNCHANGED <<attemptVars, txn, handlerVars>>
    BY DEF CleanupEvent
  <1>2. \A g \in Handlers : stage'[g] = "locked" =>
            stage[g] = "locked" /\ Subject(g)' = Subject(g) /\ seen'[g] = seen[g]
    BY <1>1 DEF CleanupEvent, handlerVars, Subject, Payload, TypeOK, RequestsTypeOK,
                EventsTypeOK
  <1>3. RecordedAttemptExists'
    BY <1>1 DEF CleanupEvent, MoneyInv, RequestsInv, RecordedAttemptExists, attemptVars, TypeOK,
                EventsTypeOK
  <1>4. RequestsInv'
    BY <1>1, <1>2, <1>3, RequestsShrink DEF MoneyInv
  <1> QED BY <1>1, <1>4, RowsUntouched DEF MoneyInv

(* Checkout, time and the office. *)
LEMMA OfficeMoney ==
    ASSUME TypeOK, MoneyInv, NEW a \in Attempts,
           \/ CreateCheckout(a) \/ Tick(a) \/ OfficeReject(a)
           \/ OfficeAssign(a) \/ OfficeReschedule(a)
    PROVE  MoneyInv'
  <1> USE DEF TypeOK, AttemptsTypeOK, EventsTypeOK, MoneyInv, RequestsInv, RowsInv
  <1>1. UNCHANGED <<failureCode, receipt, ledgerReview, txn, eventVars, handlerVars>>
    BY DEF CreateCheckout, Tick, OfficeReject, OfficeAssign, OfficeReschedule
  <1>2. \A g \in Handlers : Subject(g)' = Subject(g) /\ stage'[g] = stage[g]
                            /\ seen'[g] = seen[g]
    BY <1>1 DEF Subject, Payload, eventVars, handlerVars
  <1>3. \A b \in Attempts : \/ attempt'[b] = attempt[b]
                            \/ attempt[b] = "NONE" /\ attempt'[b] = "PENDING"
    BY DEF CreateCheckout, Tick, OfficeReject, OfficeAssign, OfficeReschedule
  <1>4. RecordedAttemptExists'
    BY <1>1, <1>3, PayloadTyped DEF RecordedAttemptExists, RequestsTypeOK, eventVars
  <1>5. LockExclusive'
    BY <1>2 DEF LockExclusive
  <1>6. LockedDecisionStands'
    BY <1>1, <1>2, <1>3, WorkingTyped DEF LockedDecisionStands, Open
  <1>7. FlaggedClosed' /\ RowsSound' /\ SettledOrExcused' /\ AccountedOrExcused'
    BY <1>1, <1>3 DEF FlaggedClosed, RowsSound, SettledOrExcused, AccountedOrExcused,
                      Flagged, Closed, Excused, Unrecorded
  <1>8. ReceiptCollected' /\ ReversalStopsLedger'
    BY <1>1, <1>3 DEF ReceiptCollected, ReversalStopsLedger, ReceiptVisible, Flagged,
                      Unrecorded
  <1> QED BY <1>4, <1>5, <1>6, <1>7, <1>8

(* The sweep rechecks under the row locks: only unlocked open attempts, so   *)
(* neither settled nor flagged ones, become EXPIRED.                         *)
LEMMA SweepMoney ==
    ASSUME TypeOK, MoneyInv, NEW s \in Sweepers, SweepExpire(s)
    PROVE  MoneyInv'
  <1> USE DEF TypeOK, AttemptsTypeOK, EventsTypeOK, MoneyInv, RequestsInv, RowsInv
  <1>1. UNCHANGED <<receipt, ledgerReview, txn, eventVars, handlerVars>>
    BY DEF SweepExpire
  <1>2. \A g \in Handlers : Subject(g)' = Subject(g) /\ stage'[g] = stage[g]
                            /\ seen'[g] = seen[g]
    BY <1>1 DEF Subject, Payload, eventVars, handlerVars
  <1>3. \A b \in Attempts :
            \/ attempt'[b] = attempt[b] /\ failureCode'[b] = failureCode[b]
            \/ /\ Open(b) /\ ~Locked(b)
               /\ attempt'[b] = "EXPIRED" /\ failureCode'[b] = "ATTEMPT_EXPIRED"
    BY DEF SweepExpire, Expire, Overdue, Open
  <1>4. RecordedAttemptExists'
    BY <1>1, <1>3, PayloadTyped DEF RecordedAttemptExists, RequestsTypeOK, eventVars
  <1>5. LockExclusive'
    BY <1>2 DEF LockExclusive
  <1>6. LockedDecisionStands'
    BY <1>1, <1>2, <1>3, WorkingTyped DEF LockedDecisionStands, Open, Locked, Holds
  <1>7. \A b \in Attempts : Flagged(b)' <=> Flagged(b)
    BY <1>3 DEF Flagged, financialReviewCodes, FlaggedClosed, Closed, Open
  <1>8. FlaggedClosed' /\ RowsSound' /\ SettledOrExcused' /\ AccountedOrExcused'
    BY <1>1, <1>3, <1>7 DEF FlaggedClosed, RowsSound, SettledOrExcused,
                      AccountedOrExcused, Closed, Open, Excused, Unrecorded
  <1>9. ReceiptCollected' /\ ReversalStopsLedger'
    BY <1>1, <1>3, <1>7 DEF ReceiptCollected, ReversalStopsLedger, ReceiptVisible, Open,
                      SettledOrExcused, Excused, Unrecorded
  <1> QED BY <1>4, <1>5, <1>6, <1>8, <1>9

(* The blind batch takes no locked attempt, so no request's decision falls;  *)
(* what it takes becomes EXPIRED, and only that excuses silence.             *)
LEMMA WorkerMoney ==
    ASSUME TypeOK, MoneyInv, NEW w \in Workers, WorkerExpire(w)
    PROVE  MoneyInv'
  <1> USE DEF TypeOK, AttemptsTypeOK, EventsTypeOK, MoneyInv, RequestsInv, RowsInv
  <1>1. UNCHANGED <<receipt, ledgerReview, txn, eventVars, handlerVars>> /\ Workers # {}
    BY DEF WorkerExpire
  <1>2. \A g \in Handlers : Subject(g)' = Subject(g) /\ stage'[g] = stage[g]
                            /\ seen'[g] = seen[g]
    BY <1>1 DEF Subject, Payload, eventVars, handlerVars
  <1>3. \A b \in Attempts :
            \/ attempt'[b] = attempt[b] /\ failureCode'[b] = failureCode[b]
            \/ /\ ~Locked(b)
               /\ attempt'[b] = "EXPIRED" /\ failureCode'[b] = "ATTEMPT_EXPIRED"
    BY DEF WorkerExpire, Expire
  <1>4. RecordedAttemptExists'
    BY <1>1, <1>3, PayloadTyped DEF RecordedAttemptExists, RequestsTypeOK, eventVars
  <1>5. LockExclusive'
    BY <1>2 DEF LockExclusive
  <1>6. LockedDecisionStands'
    BY <1>1, <1>2, <1>3, WorkingTyped DEF LockedDecisionStands, Open, Locked, Holds
  <1>7. \A b \in Attempts : /\ Flagged(b)' => Flagged(b)
                            /\ Closed(b) => Closed(b)'
                            /\ Excused(b) => Excused(b)'
                            /\ ~Excused(b)' => (Flagged(b)' <=> Flagged(b))
    BY <1>1, <1>3 DEF Flagged, financialReviewCodes, Closed, Excused
  <1>8. FlaggedClosed' /\ RowsSound' /\ SettledOrExcused' /\ AccountedOrExcused'
    BY <1>1, <1>3, <1>7 DEF FlaggedClosed, RowsSound, SettledOrExcused,
                      AccountedOrExcused, Excused, Unrecorded
  <1>9. ReceiptCollected' /\ ReversalStopsLedger'
    BY <1>1, <1>3, <1>7 DEF ReceiptCollected, ReversalStopsLedger, ReceiptVisible, Flagged,
                      Unrecorded
  <1> QED BY <1>4, <1>5, <1>6, <1>8, <1>9

(* upsertPaymentTransaction: only the report's own row changes, it never     *)
(* loses money, and it gains money only from a report of money.              *)
LEMMA UpsertRow ==
    ASSUME TypeOK, MoneyInv, NEW e \in Events, NEW p \in Payloads, NEW r \in Rows,
           upsertPaymentTransaction(e, p, r)
    PROVE  /\ \A other \in Rows : other # r => txn'[other] = txn[other]
           /\ txn'[r].attempt = p.attempt /\ txn'[r].status # "NONE"
           /\ txn[r].status # "NONE" => txn[r].attempt = p.attempt
           /\ txn[r].paid => txn'[r].paid /\ txn[r].attempt = p.attempt
           /\ txn'[r].paid => txn[r].paid \/ ReportsMoney(p)
           /\ txn'[r].status = "PAID" => txn'[r].paid
           /\ txn'[r].paid => txn'[r].status \in {"PAID", "REFUNDED", "DISPUTED", "CANCELLED"}
           /\ txn[r].status \in {"REFUNDED", "DISPUTED"} => txn'[r] = txn[r]
           /\ txn'[r].status \in {"REFUNDED", "DISPUTED"} =>
                  \/ txn'[r].status = p.status
                  \/ txn[r].status = txn'[r].status
           /\ ReportsMoney(p) => txn'[r].paid \/ txn[r].status \in {"REFUNDED", "DISPUTED"}
           /\ txn[r].status = "PAID" /\ p.status \notin {"REFUNDED", "DISPUTED", "CANCELLED"}
                  => txn'[r].status = "PAID"
           /\ ReportsMoney(p) =>
                  \/ txn'[r].status = "PAID"
                  \/ txn[r].status \in {"REFUNDED", "DISPUTED", "CANCELLED"}
                        /\ txn'[r] = txn[r] /\ (txn[r].status = "CANCELLED" => txn[r].paid)
  <1> USE DEF TypeOK, EventsTypeOK, MoneyInv, RowsInv
  <1>1. /\ txn' = [txn EXCEPT ![r] = RowAfter(r, p)]
        /\ txn[r] # NoTxn => txn[r].attempt = p.attempt
        /\ txn[r].status = "NONE" => txn[r] = NoTxn
        /\ txn[r].status = "PAID" => txn[r].paid
        /\ txn[r].paid => txn[r].status \in {"PAID", "REFUNDED", "DISPUTED", "CANCELLED"}
    BY DEF upsertPaymentTransaction, RowsFor, RowsSound
  <1>2. p.status \in Statuses /\ RowStatus(p) \in TxnStatuses
    BY PayloadTyped
  <1>3. txn[r].status # "NONE" => txn[r].attempt = p.attempt
    BY <1>1 DEF NoTxn
  <1>4. txn[r].paid => txn[r].attempt = p.attempt
    BY <1>1 DEF NoTxn
  <1> QED BY <1>1, <1>2, <1>3, <1>4
          DEF RowAfter, preserveTransactionState, RowStatus, ReportsMoney, Txn, TxnStatuses,
              Statuses

(* A commit touches only its own attempt, which nobody else has locked.      *)
LEMMA CommitRequests ==
    ASSUME TypeOK, MoneyInv, NEW h \in Handlers, NEW r \in Rows, stage[h] = "locked",
           upsertPaymentTransaction(working[h], Payload(h), r),
           NEW status \in {"PROCESSED", "FAILED"}, Finish(h, status),
           \A b \in Attempts \ {Subject(h)} :
               attempt'[b] = attempt[b] /\ receipt'[b] = receipt[b],
           attempt[Subject(h)] # "NONE" => attempt'[Subject(h)] # "NONE"
    PROVE  RequestsInv'
  <1> USE DEF TypeOK, MoneyInv, RequestsInv, HandlersTypeOK, EventsTypeOK
  <1>1. working[h] \in Events /\ eventStatus[working[h]] # "NONE"
    BY WorkingTyped DEF RequestsTypeOK
  <1>2. /\ eventPayload' = eventPayload
        /\ \A e \in Events : eventStatus'[e] # "NONE" => eventStatus[e] # "NONE"
    BY <1>1 DEF Finish
  <1>3. \A g \in Handlers : stage'[g] = "locked" =>
            /\ g # h /\ stage[g] = "locked" /\ seen'[g] = seen[g]
            /\ Subject(g)' = Subject(g) /\ Subject(g) \in Attempts
    BY <1>2, WorkingTyped DEF Finish, LeaveStage, Subject, Payload
  <1>4. RecordedAttemptExists'
    BY <1>2, PayloadTyped DEF RecordedAttemptExists, RequestsTypeOK
  <1>5. LockExclusive'
    BY <1>3 DEF LockExclusive
  <1>6. LockedDecisionStands'
    BY <1>3 DEF LockExclusive, LockedDecisionStands, Open
  <1> QED BY <1>4, <1>5, <1>6

(* What every outcome of a report knows. *)
LEMMA CommitFacts ==
    ASSUME TypeOK, MoneyInv, NEW h \in Handlers, NEW r \in Rows, stage[h] = "locked",
           upsertPaymentTransaction(working[h], Payload(h), r)
    PROVE  /\ working[h] \in Events /\ Payload(h) \in Payloads /\ Subject(h) \in Attempts
           /\ Payload(h).attempt = Subject(h)
           /\ attempt[Subject(h)] # "NONE"
           /\ Payload(h).status \in Statuses
           /\ r # None
  BY WorkingTyped, PayloadTyped, NoneAssumption
  DEF TypeOK, RequestsTypeOK, MoneyInv, RequestsInv, RecordedAttemptExists, Subject, Payload,
      Rows

(* A report that writes no Payment leaves the other attempts' collections    *)
(* alone, and only money for the Payment's own row makes up for its record.  *)
LEMMA CommitRecords ==
    ASSUME TypeOK, MoneyInv, NEW h \in Handlers, NEW r \in Rows, stage[h] = "locked",
           upsertPaymentTransaction(working[h], Payload(h), r), receipt' = receipt
    PROVE  \A b \in Attempts : receipt[b] # None =>
               /\ receipt[b] \in Rows
               /\ receipt[b] = r => b = Subject(h)
               /\ txn'[receipt[b]].attempt = b
               /\ receipt[b] # r => /\ txn'[receipt[b]] = txn[receipt[b]]
                                    /\ Unrecorded(b)' <=> Unrecorded(b)
               /\ Unrecorded(b)' => Unrecorded(b)
               /\ Unrecorded(b) /\ ~ReportsMoney(Payload(h)) => Unrecorded(b)'
               /\ txn'[receipt[b]].paid \/ Unrecorded(b)'
  <1> USE DEF TypeOK, AttemptsTypeOK, EventsTypeOK
  <1>1. /\ working[h] \in Events /\ Payload(h) \in Payloads
        /\ Payload(h).attempt = Subject(h)
    BY CommitFacts
  <1> SUFFICES ASSUME NEW b \in Attempts, receipt[b] # None
               PROVE  /\ receipt[b] \in Rows
                      /\ receipt[b] = r => b = Subject(h)
                      /\ txn'[receipt[b]].attempt = b
                      /\ receipt[b] # r => /\ txn'[receipt[b]] = txn[receipt[b]]
                                           /\ Unrecorded(b)' <=> Unrecorded(b)
                      /\ Unrecorded(b)' => Unrecorded(b)
                      /\ Unrecorded(b) /\ ~ReportsMoney(Payload(h)) => Unrecorded(b)'
                      /\ txn'[receipt[b]].paid \/ Unrecorded(b)'
    OBVIOUS
  <1>2. /\ receipt[b] \in Rows /\ txn[receipt[b]].attempt = b /\ b # None
        /\ txn[receipt[b]].paid \/ Unrecorded(b)
    BY NoneAssumption DEF MoneyInv, RowsInv, ReceiptCollected
  <1>3. txn[receipt[b]].status # "NONE"
    BY <1>2 DEF MoneyInv, RowsInv, RowsSound, NoTxn
  <1>4. CASE receipt[b] = r
    BY <1>1, <1>2, <1>3, <1>4, UpsertRow DEF Unrecorded
  <1>5. CASE receipt[b] # r
    BY <1>1, <1>2, <1>5, UpsertRow DEF Unrecorded
  <1> QED BY <1>2, <1>4, <1>5

LEMMA ReviewMoney ==
    ASSUME TypeOK, MoneyInv, NEW h \in Handlers, NEW r \in Rows, ApplyReview(h, r),
           NEW a \in Attempts, a = Subject(h)
    PROVE  MoneyInv'
  <1> USE DEF TypeOK, AttemptsTypeOK, EventsTypeOK
  <1>1. /\ stage[h] = "locked" /\ upsertPaymentTransaction(working[h], Payload(h), r)
        /\ Finish(h, "FAILED") /\ UNCHANGED <<receipt, ledgerReview>>
        /\ failureCode' = [failureCode EXCEPT ![a] = "PAYMENT_COLLECTION_REVIEW_REQUIRED"]
    BY DEF ApplyReview
  <1>2. /\ Payload(h) \in Payloads /\ a \in Attempts /\ Payload(h).attempt = a
        /\ attempt[a] # "NONE" /\ working[h] \in Events
    BY <1>1, CommitFacts
  <1>3. Payload(h).status = "PAID"
    BY DEF ApplyReview, NeedsCollectionReview, PayloadProblem, AdditionalCollection,
           ReportsMoney
  <1>4. /\ \A b \in Attempts \ {a} : attempt'[b] = attempt[b]
        /\ IF Open(a) /\ receipt[a] = None THEN attempt'[a] \in {"FAILED", "EXPIRED"}
                                           ELSE attempt'[a] = attempt[a]
    BY <1>2 DEF ApplyReview, releaseFailedAttempt
  <1>5. RequestsInv'
    BY <1>1, <1>2, <1>4, CommitRequests
  <1>6. /\ \A b \in Attempts \ {a} : Flagged(b)' <=> Flagged(b)
        /\ Flagged(a)'
    BY <1>1, <1>2 DEF Flagged, financialReviewCodes
  <1>7. Closed(a)' /\ \A b \in Attempts \ {a} : Closed(b)' <=> Closed(b)
    BY <1>2, <1>4 DEF Closed, Open, MoneyInv, RowsInv, SettledOrExcused, Excused
  <1> USE DEF MoneyInv, RowsInv
  <1>8. FlaggedClosed' /\ SettledOrExcused' /\ ReversalStopsLedger'
    BY <1>1, <1>4, <1>6, <1>7 DEF FlaggedClosed, SettledOrExcused, ReversalStopsLedger,
                                  Open, Excused
  <1>9. RowsSound'
    <2> SUFFICES ASSUME NEW x \in Rows
                 PROVE  /\ txn'[x].status = "NONE" => txn'[x] = NoTxn
                        /\ txn'[x].status # "NONE" => txn'[x].attempt \in Attempts
                        /\ txn'[x].status = "PAID" => txn'[x].paid
                        /\ txn'[x].paid => txn'[x].status \in
                               {"PAID", "REFUNDED", "DISPUTED", "CANCELLED"}
                        /\ txn'[x].status \in {"REFUNDED", "DISPUTED"} =>
                               /\ Closed(txn[x].attempt)'
                               /\ Flagged(txn[x].attempt)' \/ Excused(txn[x].attempt)'
      BY DEF RowsSound
    <2>1. CASE x = r
      BY <2>1, <1>1, <1>2, <1>6, <1>7, UpsertRow
    <2>2. CASE x # r
      BY <2>2, <1>1, <1>2, <1>4, <1>6, <1>7, UpsertRow DEF RowsSound, Excused
    <2> QED BY <2>1, <2>2
  <1>10. AccountedOrExcused'
    BY <1>1, <1>2, <1>4, <1>6, UpsertRow, CommitRecords DEF AccountedOrExcused, Excused, Open,
       Unrecorded
  <1>11. ReceiptCollected'
    BY <1>1, <1>2, <1>4, <1>6, UpsertRow, CommitRecords DEF ReceiptCollected, ReceiptVisible
  <1> QED BY <1>5, <1>8, <1>9, <1>10, <1>11

LEMMA SettlementMoney ==
    ASSUME TypeOK, MoneyInv, NEW h \in Handlers, NEW r \in Rows, ApplySettlement(h, r),
           NEW a \in Attempts, a = Subject(h)
    PROVE  MoneyInv'
  <1> USE DEF TypeOK, AttemptsTypeOK, EventsTypeOK
  <1>1. /\ stage[h] = "locked" /\ upsertPaymentTransaction(working[h], Payload(h), r)
        /\ Finish(h, "PROCESSED") /\ UNCHANGED <<failureCode, ledgerReview>>
        /\ receipt[a] = None /\ receipt' = [receipt EXCEPT ![a] = r]
        /\ attempt' = [attempt EXCEPT ![a] = "PAID"]
        /\ Payload(h).status = "PAID" /\ ~NeedsCollectionReview(h, r)
    BY DEF ApplySettlement
  <1>2. /\ Payload(h) \in Payloads /\ a \in Attempts /\ Payload(h).attempt = a
        /\ attempt[a] # "NONE" /\ working[h] \in Events /\ r # None
    BY <1>1, CommitFacts
  <1>3. /\ ReportsMoney(Payload(h)) \/ "padded" \in MoneyForms
        /\ ~seen[h].blocked
    BY <1>1, <1>2 DEF NeedsCollectionReview, PayloadProblem, ReportsMoney, Payloads
  <1>4. Open(a)
    BY <1>1, <1>3 DEF MoneyInv, RequestsInv, LockedDecisionStands
  <1>5. RequestsInv'
    BY <1>1, <1>2, CommitRequests
  <1>6. ~Flagged(a) /\ \A b \in Attempts : Flagged(b)' <=> Flagged(b)
    BY <1>1, <1>4 DEF Flagged, MoneyInv, RowsInv, FlaggedClosed, Closed, Open
  <1>7. Closed(a)' /\ \A b \in Attempts : Closed(b) => Closed(b)'
    BY <1>1, <1>2 DEF Closed
  <1> USE DEF MoneyInv, RowsInv
  <1>8. \A other \in Rows : ~(txn[other].paid /\ txn[other].attempt = a)
    BY <1>1, <1>4, <1>6, NoneAssumption DEF AccountedOrExcused, Rows, Excused, Open, Unrecorded
  <1>9. /\ \A other \in Rows : other # r => txn'[other] = txn[other]
        /\ txn'[r].attempt = a /\ txn'[r].status \notin {"NONE", "REFUNDED", "DISPUTED"}
        /\ txn'[r].paid => txn'[r].status = "PAID"
        /\ txn'[r].status = "PAID" => txn'[r].paid
        /\ txn'[r].paid \/ "padded" \in MoneyForms
    BY <1>1, <1>2, <1>3, <1>4, <1>8, UpsertRow DEF RowsSound, Closed, Open
  <1>10. FlaggedClosed' /\ SettledOrExcused' /\ ReversalStopsLedger'
    BY <1>1, <1>2, <1>6, <1>7 DEF FlaggedClosed, SettledOrExcused, ReversalStopsLedger, Excused
  <1>11. RowsSound'
    <2> SUFFICES ASSUME NEW x \in Rows
                 PROVE  /\ txn'[x].status = "NONE" => txn'[x] = NoTxn
                        /\ txn'[x].status # "NONE" => txn'[x].attempt \in Attempts
                        /\ txn'[x].status = "PAID" => txn'[x].paid
                        /\ txn'[x].paid => txn'[x].status \in
                               {"PAID", "REFUNDED", "DISPUTED", "CANCELLED"}
                        /\ txn'[x].status \in {"REFUNDED", "DISPUTED"} =>
                               /\ Closed(txn[x].attempt)'
                               /\ Flagged(txn[x].attempt)' \/ Excused(txn[x].attempt)'
      BY DEF RowsSound
    <2>1. CASE x = r
      BY <2>1, <1>9
    <2>2. CASE x # r
      <3>1. txn'[x].status \in {"REFUNDED", "DISPUTED"} => txn[x].attempt # a
        BY <2>2, <1>4, <1>9 DEF RowsSound, Closed, Open
      <3> QED BY <2>2, <3>1, <1>1, <1>6, <1>7, <1>9 DEF RowsSound, Excused
    <2> QED BY <2>1, <2>2
  <1>12. \A b \in Attempts \ {a} : receipt[b] # None => receipt[b] # r
    <2> SUFFICES ASSUME NEW b \in Attempts \ {a}, receipt[b] = r, r # None PROVE FALSE
      BY <1>2
    <2>1. txn[r].attempt = b /\ b # None
      BY NoneAssumption DEF ReceiptCollected
    <2>2. txn[r].status # "NONE"
      BY <2>1 DEF RowsSound, NoTxn
    <2> QED BY <2>1, <2>2, <1>1, <1>2, UpsertRow
  <1>13. \A b \in Attempts \ {a} :
             receipt'[b] = receipt[b] /\ (receipt[b] # None =>
                 receipt[b] \in Rows /\ receipt[b] # r /\ attempt'[b] = attempt[b])
    BY <1>1, <1>2, <1>12
  <1>14. receipt'[a] = r /\ \A b \in Attempts \ {a} : receipt[b] # None =>
             txn'[receipt[b]] = txn[receipt[b]] /\ (Unrecorded(b)' <=> Unrecorded(b))
    BY <1>1, <1>9, <1>13 DEF Unrecorded
  <1>15. ReceiptCollected'
    BY <1>2, <1>6, <1>9, <1>13, <1>14 DEF ReceiptCollected, ReceiptVisible, Unrecorded
  <1>16. AccountedOrExcused'
    <2> SUFFICES ASSUME NEW b \in Attempts, NEW x \in Rows, txn'[x].paid, txn'[x].attempt = b,
                        b # a
                 PROVE  receipt'[b] = x \/ Flagged(b)' \/ Excused(b)' \/ Unrecorded(b)'
      BY <1>8, <1>9, <1>14 DEF AccountedOrExcused
    <2> QED BY <1>1, <1>6, <1>9, <1>13, <1>14 DEF AccountedOrExcused, Excused, Unrecorded
  <1> QED BY <1>5, <1>10, <1>11, <1>15, <1>16

LEMMA RepeatedPaidMoney ==
    ASSUME TypeOK, MoneyInv, NEW h \in Handlers, NEW r \in Rows, ApplyRepeatedPaid(h, r),
           NEW a \in Attempts, a = Subject(h)
    PROVE  MoneyInv'
  <1> USE DEF TypeOK, AttemptsTypeOK, EventsTypeOK
  <1>1. /\ stage[h] = "locked" /\ upsertPaymentTransaction(working[h], Payload(h), r)
        /\ Finish(h, "PROCESSED")
        /\ UNCHANGED <<attempt, failureCode, receipt, ledgerReview>>
        /\ receipt[a] # None /\ Payload(h).status = "PAID" /\ ~NeedsCollectionReview(h, r)
    BY DEF ApplyRepeatedPaid
  <1>2. /\ Payload(h) \in Payloads /\ Payload(h).attempt = a
        /\ attempt[a] # "NONE" /\ working[h] \in Events
    BY <1>1, CommitFacts
  <1>3. ~AdditionalCollection(Payload(h), r)
    BY <1>1 DEF NeedsCollectionReview
  <1>4. RequestsInv'
    BY <1>1, <1>2, CommitRequests
  <1> USE DEF MoneyInv, RowsInv
  <1>5. ReportsMoney(Payload(h)) =>
            \A x \in Rows \ {r} : ~(txn[x].attempt = a /\ txn[x].paid)
    BY <1>2, <1>3 DEF AdditionalCollection
  <1>6. /\ \A b \in Attempts : Flagged(b)' <=> Flagged(b)
        /\ \A b \in Attempts : Closed(b)' <=> Closed(b)
        /\ \A b \in Attempts : ReceiptVisible(b)' <=> ReceiptVisible(b)
    BY <1>1 DEF Flagged, Closed, ReceiptVisible
  <1>7. FlaggedClosed' /\ SettledOrExcused' /\ ReversalStopsLedger'
    BY <1>1, <1>6 DEF FlaggedClosed, SettledOrExcused, ReversalStopsLedger, Excused
  <1>8. RowsSound'
    BY <1>1, <1>2, <1>6, UpsertRow DEF RowsSound, Excused
  <1>9. AccountedOrExcused'
    <2> SUFFICES ASSUME NEW b \in Attempts, NEW x \in Rows, txn'[x].paid, txn'[x].attempt = b,
                        receipt[b] # x
                 PROVE  Flagged(b) \/ Excused(b) \/ Unrecorded(b)'
      BY <1>1, <1>6 DEF AccountedOrExcused, Excused
    <2>1. CASE x # r
      <3>1. Flagged(b) \/ Excused(b) \/ Unrecorded(b)
        BY <2>1, <1>1, <1>2, UpsertRow DEF AccountedOrExcused
      <3>2. b = a => ~ReportsMoney(Payload(h))
        BY <2>1, <1>1, <1>2, <1>5, UpsertRow
      <3> QED BY <3>1, <3>2, <1>1, CommitRecords DEF Unrecorded
    <2>2. CASE x = r
      <3>1. b = a /\ receipt[a] # r
        BY <2>2, <1>1, <1>2, UpsertRow
      <3>2. CASE txn[r].paid
        BY <3>1, <3>2, <2>2, <1>1, <1>2, UpsertRow, CommitRecords DEF AccountedOrExcused
      <3>3. CASE ~txn[r].paid
        <4>1. ReportsMoney(Payload(h))
          BY <3>3, <2>2, <1>1, <1>2, UpsertRow
        <4>2. Unrecorded(a)
          BY <4>1, <3>1, <1>1, <1>5 DEF ReceiptCollected
        <4> QED BY <4>2, <3>1, <1>1, CommitRecords
      <3> QED BY <3>2, <3>3
    <2> QED BY <2>1, <2>2
  <1>10. ReceiptCollected'
    <2> SUFFICES ASSUME NEW b \in Attempts, receipt[b] # None
                 PROVE  /\ txn'[receipt[b]].attempt = b
                        /\ txn'[receipt[b]].paid \/ Unrecorded(b)'
                        /\ ReceiptVisible(b) =>
                               txn'[receipt[b]].status = "PAID" \/ Unrecorded(b)'
      BY <1>1, <1>6 DEF ReceiptCollected
    <2>1. CASE receipt[b] = r
      <3>1. CASE txn[r].paid
        BY <3>1, <2>1, <1>1, <1>2, UpsertRow, CommitRecords DEF ReceiptCollected, Unrecorded
      <3>2. CASE ~txn[r].paid
        BY <3>2, <2>1, <1>1, <1>2, UpsertRow, CommitRecords DEF ReceiptCollected
      <3> QED BY <3>1, <3>2
    <2>2. CASE receipt[b] # r
      BY <2>2, <1>1, CommitRecords DEF ReceiptCollected
    <2> QED BY <2>1, <2>2
  <1> QED BY <1>4, <1>7, <1>8, <1>9, <1>10

LEMMA ReversalMoney ==
    ASSUME TypeOK, MoneyInv, NEW h \in Handlers, NEW r \in Rows, ApplyReversal(h, r),
           NEW a \in Attempts, a = Subject(h)
    PROVE  MoneyInv'
  <1> USE DEF TypeOK, AttemptsTypeOK, EventsTypeOK
  <1>1. /\ stage[h] = "locked" /\ upsertPaymentTransaction(working[h], Payload(h), r)
        /\ Finish(h, "FAILED") /\ UNCHANGED receipt
        /\ failureCode' = [failureCode EXCEPT ![a] = "PAYMENT_REVERSAL_REVIEW_REQUIRED"]
        /\ ledgerReview' = [ledgerReview EXCEPT ![a] = @ \/ receipt[a] # None]
        /\ Payload(h).status \in {"REFUNDED", "DISPUTED", "CANCELLED"}
        /\ \A b \in Attempts \ {a} : attempt'[b] = attempt[b]
        /\ attempt'[a] \in {"REFUNDED", "DISPUTED", "CANCELLED"}
    BY DEF ApplyReversal, IsReversal
  <1>2. /\ Payload(h) \in Payloads /\ Payload(h).attempt = a
        /\ attempt[a] # "NONE" /\ working[h] \in Events
    BY <1>1, CommitFacts
  <1>3. ~ReportsMoney(Payload(h))
    BY <1>1 DEF ReportsMoney
  <1>4. RequestsInv'
    BY <1>1, <1>2, CommitRequests
  <1>5. /\ Flagged(a)' /\ Closed(a)' /\ ~ReceiptVisible(a)'
        /\ \A b \in Attempts \ {a} : /\ Flagged(b)' <=> Flagged(b)
                                     /\ Closed(b)' <=> Closed(b)
                                     /\ ReceiptVisible(b)' <=> ReceiptVisible(b)
    BY <1>1 DEF Flagged, financialReviewCodes, Closed, ReceiptVisible
  <1> USE DEF MoneyInv, RowsInv
  <1>6. FlaggedClosed' /\ SettledOrExcused' /\ ReversalStopsLedger'
    BY <1>1, <1>5 DEF FlaggedClosed, SettledOrExcused, ReversalStopsLedger, Excused
  <1>7. RowsSound'
    BY <1>2, <1>1, <1>5, UpsertRow DEF RowsSound, Excused
  <1>8. AccountedOrExcused'
    BY <1>1, <1>2, <1>3, <1>5, UpsertRow, CommitRecords DEF AccountedOrExcused, Excused,
       Unrecorded
  <1>9. ReceiptCollected'
    BY <1>1, <1>2, <1>5, UpsertRow, CommitRecords DEF ReceiptCollected
  <1> QED BY <1>4, <1>6, <1>7, <1>8, <1>9

(* A report without money, of a failure or of progress. *)
LEMMA FailureMoney ==
    ASSUME TypeOK, MoneyInv, NEW h \in Handlers, NEW r \in Rows,
           ApplyFailure(h, r) \/ ApplyPending(h, r),
           NEW a \in Attempts, a = Subject(h)
    PROVE  MoneyInv'
  <1> USE DEF TypeOK, AttemptsTypeOK, EventsTypeOK
  <1>1. /\ stage[h] = "locked" /\ upsertPaymentTransaction(working[h], Payload(h), r)
        /\ Finish(h, "PROCESSED") /\ UNCHANGED <<receipt, ledgerReview>>
        /\ Payload(h).status \in {"FAILED", "EXPIRED", "CANCELLED", "PENDING"}
        /\ Payload(h).status = "CANCELLED" => receipt[a] = None
    BY DEF ApplyFailure, ApplyPending, IsReversal
  <1>2. /\ Payload(h) \in Payloads /\ Payload(h).attempt = a
        /\ attempt[a] # "NONE" /\ working[h] \in Events
    BY <1>1, CommitFacts
  <1>3. ~ReportsMoney(Payload(h))
    BY <1>1 DEF ReportsMoney
  <1>4. /\ \A b \in Attempts \ {a} :
               attempt'[b] = attempt[b] /\ failureCode'[b] = failureCode[b]
        /\ \/ attempt'[a] = attempt[a] /\ failureCode'[a] = failureCode[a]
           \/ /\ Open(a) /\ receipt[a] = None
              /\ attempt'[a] \in {"FAILED", "EXPIRED", "CANCELLED"}
              /\ failureCode'[a] = "PROVIDER"
    BY DEF ApplyFailure, ApplyPending, releaseFailedAttempt
  <1>5. RequestsInv'
    BY <1>1, <1>2, <1>4, CommitRequests
  <1> USE DEF MoneyInv, RowsInv
  <1>6. /\ \A b \in Attempts : Flagged(b)' <=> Flagged(b)
        /\ \A b \in Attempts : Closed(b) => Closed(b)'
        /\ \A b \in Attempts : ReceiptVisible(b)' => ReceiptVisible(b)
    BY <1>1, <1>4 DEF Flagged, financialReviewCodes, FlaggedClosed, Closed, Open,
                      ReceiptVisible
  <1>7. FlaggedClosed' /\ SettledOrExcused' /\ ReversalStopsLedger'
    BY <1>1, <1>4, <1>6 DEF FlaggedClosed, SettledOrExcused, ReversalStopsLedger, Open, Excused
  <1>8. RowsSound'
    BY <1>1, <1>2, <1>4, <1>6, UpsertRow DEF RowsSound, Excused, Open
  <1>9. AccountedOrExcused'
    BY <1>1, <1>2, <1>3, <1>4, <1>6, UpsertRow, CommitRecords DEF AccountedOrExcused, Excused,
       Open, Unrecorded
  <1>10. ReceiptCollected'
    <2> SUFFICES ASSUME NEW b \in Attempts, receipt[b] # None
                 PROVE  /\ txn'[receipt[b]].attempt = b
                        /\ txn'[receipt[b]].paid \/ Unrecorded(b)'
                        /\ ReceiptVisible(b) =>
                               txn'[receipt[b]].status = "PAID" \/ Unrecorded(b)'
      BY <1>1, <1>6 DEF ReceiptCollected
    <2>1. CASE receipt[b] = r
      <3>1. b = a /\ Payload(h).status # "CANCELLED"
        BY <2>1, <1>1, CommitRecords
      <3>2. Unrecorded(b) => Unrecorded(b)'
        BY <1>1, <1>3, CommitRecords
      <3> QED BY <2>1, <3>1, <3>2, <1>1, <1>2, UpsertRow, CommitRecords DEF ReceiptCollected
    <2>2. CASE receipt[b] # r
      BY <2>2, <1>1, CommitRecords DEF ReceiptCollected
    <2> QED BY <2>1, <2>2
  <1> QED BY <1>5, <1>7, <1>8, <1>9, <1>10

LEMMA MoneyInit == Init => MoneyInv
  BY DEF Init, MoneyInv, RequestsInv, RowsInv, RecordedAttemptExists, LockExclusive,
         LockedDecisionStands, FlaggedClosed, RowsSound, ReceiptCollected,
         SettledOrExcused, AccountedOrExcused, ReversalStopsLedger, Flagged,
         financialReviewCodes, Closed, NoTxn, Excused

LEMMA MoneyStep ==
    ASSUME TypeOK, MoneyInv, [Next]_vars
    PROVE  MoneyInv'
  <1>1. ASSUME NEW h \in Handlers, NEW r \in Rows,
               \/ ApplyReview(h, r) \/ ApplySettlement(h, r) \/ ApplyRepeatedPaid(h, r)
               \/ ApplyReversal(h, r) \/ ApplyFailure(h, r) \/ ApplyPending(h, r)
        PROVE  MoneyInv'
    <2>1. stage[h] # "idle"
      BY <1>1 DEF ApplyReview, ApplySettlement, ApplyRepeatedPaid, ApplyReversal,
                  ApplyFailure, ApplyPending
    <2>2. PICK a \in Attempts : a = Subject(h)
      BY <2>1, WorkingTyped
    <2> QED BY <1>1, <2>2, ReviewMoney, SettlementMoney, RepeatedPaidMoney, ReversalMoney,
               FailureMoney
  <1>2. ASSUME NEW h \in Handlers, HandlerStep(h) \/ Crash(h)
        PROVE  MoneyInv'
    BY <1>1, <1>2, LockMoney, LeaveMoney DEF HandlerStep, ApplyWebhook
  <1>3. ASSUME NEW s \in Sweepers \cup Workers, SelectOverdue(s) \/ ExpiryFails(s)
        PROVE  MoneyInv'
    <2>1. UNCHANGED <<attemptVars, txn, eventVars, handlerVars>>
      BY <1>3 DEF SelectOverdue, ExpiryFails
    <2>2. RequestsInv'
      BY <2>1, RequestsShrink
      DEF MoneyInv, RequestsInv, RecordedAttemptExists, Subject, Payload, attemptVars,
          eventVars, handlerVars
    <2> QED BY <2>1, <2>2, RowsUntouched DEF MoneyInv
  <1>4. ASSUME UNCHANGED vars
        PROVE  MoneyInv'
    <2>1. UNCHANGED <<attemptVars, txn, eventVars, handlerVars>>
      BY <1>4 DEF vars
    <2>2. RequestsInv'
      BY <2>1, RequestsShrink
      DEF MoneyInv, RequestsInv, RecordedAttemptExists, Subject, Payload, attemptVars,
          eventVars, handlerVars
    <2> QED BY <2>1, <2>2, RowsUntouched DEF MoneyInv
  <1> QED BY <1>2, <1>3, <1>4, OfficeMoney, ReceiveMoney, SweepMoney, WorkerMoney,
            CleanupMoney DEF Next

(* MoneyInv is an invariant of every instance, with blind batches or without. *)
LEMMA MoneyInvariant == Spec => [](TypeOK /\ MoneyInv)
  <1>1. Init => TypeOK /\ MoneyInv
    BY TypeInit, MoneyInit
  <1>2. TypeOK /\ MoneyInv /\ [Next]_vars => TypeOK' /\ MoneyInv'
    BY TypeStep, MoneyStep
  <1> QED BY <1>1, <1>2, PTL DEF Spec

(* Without a blind batch nothing is excused. *)
LEMMA NobodyExcused ==
    ASSUME Workers = {}, MoneyInv
    PROVE  NoSilentCollection /\ SettledAttemptStands
  BY DEF MoneyInv, RowsInv, AccountedOrExcused, SettledOrExcused, Excused,
         NoSilentCollection, SettledAttemptStands

(* All money the office has recorded settles its attempt or is under review, *)
(* for any number of attempts, events, requests, replays and sweeps, as long *)
(* as every expiry batch rechecks its selection; a settlement on a padded    *)
(* amount, which records no money, is the one other source of silence, and   *)
(* there is none without such amounts (applyWebhookPaymentState).            *)
THEOREM CollectionsAccounted == Workers = {} /\ Spec => []NoSilentCollection
  <1> SUFFICES ASSUME Workers = {} PROVE Spec => []NoSilentCollection
    OBVIOUS
  <1>1. TypeOK /\ MoneyInv => NoSilentCollection
    BY NobodyExcused
  <1> QED BY <1>1, MoneyInvariant, PTL

(* With the worker's blind batch as well, recorded money nobody accounts for *)
(* is money of an EXPIRED attempt or of one settled on a padded amount       *)
(* (applyWebhookPaymentState, expireOpenPaymentAttempts of the worker).      *)
THEOREM SilenceFound == Spec => []SilenceIsExpired
  <1>1. TypeOK /\ MoneyInv => SilenceIsExpired
    BY DEF MoneyInv, RowsInv, AccountedOrExcused, Excused, SilenceIsExpired
  <1> QED BY <1>1, MoneyInvariant, PTL

(* No expiry and no failure report takes a settled attempt back              *)
(* (expireOpenConsultationPaymentAttempts, releaseFailedAttempt).            *)
THEOREM SettlementStands == Workers = {} /\ Spec => []SettledAttemptStands
  <1> SUFFICES ASSUME Workers = {} PROVE Spec => []SettledAttemptStands
    OBVIOUS
  <1>1. TypeOK /\ MoneyInv => SettledAttemptStands
    BY NobodyExcused
  <1> QED BY <1>1, MoneyInvariant, PTL

(* A receipt that can be opened names the only collection of its attempt,    *)
(* and that collection is still PAID, whatever a blind batch does, unless    *)
(* the settlement was made on a padded amount and recorded nothing           *)
(* (getPublicConsultationPaymentReceipt).                                    *)
THEOREM ReceiptsHonest == Spec => []ReceiptIsHonest
  <1>1. TypeOK /\ MoneyInv => ReceiptIsHonest
    BY DEF TypeOK, AttemptsTypeOK, MoneyInv, RowsInv, ReceiptIsHonest, ReceiptCollected,
           AccountedOrExcused, Excused, ReceiptVisible
  <1> QED BY <1>1, MoneyInvariant, PTL

(* A settled attempt whose money went back is flagged and its invoice waits  *)
(* for a ledger review (the reversal branch of applyWebhookPaymentState).    *)
THEOREM ReversalsFlagged == Spec => []ReversalStopsLedger
  <1>1. TypeOK /\ MoneyInv => ReversalStopsLedger
    BY DEF MoneyInv, RowsInv
  <1> QED BY <1>1, MoneyInvariant, PTL

------------------------------------------------------------------------------
(* The answer to the provider. *)

(* A review, or the blind batch that took it away, is never undone. *)
InReview(a) == Flagged(a) \/ Excused(a)

LEMMA ReviewStays ==
    ASSUME TypeOK, MoneyInv, [Next]_vars, NEW b \in Attempts, InReview(b)
    PROVE  InReview(b)'
  <1> USE DEF TypeOK, AttemptsTypeOK
  <1>1. Closed(b) /\ ~Open(b)
    BY DEF InReview, MoneyInv, RowsInv, FlaggedClosed, Excused, Closed, Open
  <1>2. CASE attempt'[b] = attempt[b] /\ failureCode'[b] = failureCode[b]
    BY <1>2 DEF InReview, Flagged, Excused
  <1>3. ASSUME NEW s \in Sweepers, SweepExpire(s)
        PROVE  InReview(b)'
    BY <1>1, <1>2, <1>3 DEF SweepExpire, Expire, Overdue
  <1>4. ASSUME NEW w \in Workers, WorkerExpire(w)
        PROVE  InReview(b)'
    BY <1>2, <1>4 DEF WorkerExpire, Expire, InReview, Excused
  <1>5. ASSUME NEW h \in Handlers, NEW r \in Rows,
               ApplyReview(h, r) \/ ApplyReversal(h, r)
        PROVE  InReview(b)'
    <2>1. CASE b = Subject(h)
      BY <2>1, <1>5 DEF ApplyReview, ApplyReversal, InReview, Flagged, financialReviewCodes
    <2>2. CASE b # Subject(h)
      BY <2>2, <1>2, <1>5 DEF ApplyReview, ApplyReversal, releaseFailedAttempt
    <2> QED BY <2>1, <2>2
  <1>6. ASSUME NEW h \in Handlers, NEW r \in Rows, ApplySettlement(h, r)
        PROVE  InReview(b)'
    <2>1. Open(Subject(h))
      BY <1>6 DEF ApplySettlement, NeedsCollectionReview, MoneyInv, RequestsInv,
                  LockedDecisionStands
    <2> QED BY <2>1, <1>1, <1>2, <1>6 DEF ApplySettlement
  <1>7. ASSUME NEW h \in Handlers, NEW r \in Rows,
               ApplyRepeatedPaid(h, r) \/ ApplyFailure(h, r) \/ ApplyPending(h, r)
        PROVE  InReview(b)'
    BY <1>1, <1>2, <1>7 DEF ApplyRepeatedPaid, ApplyFailure, ApplyPending, releaseFailedAttempt
  <1>8. ASSUME NEW a \in Attempts, CreateCheckout(a)
        PROVE  InReview(b)'
    BY <1>1, <1>2, <1>8 DEF CreateCheckout, Closed
  <1>9. \/ attempt' = attempt /\ failureCode' = failureCode
        \/ \E s \in Sweepers : SweepExpire(s)
        \/ \E w \in Workers : WorkerExpire(w)
        \/ \E a \in Attempts : CreateCheckout(a)
        \/ \E h \in Handlers : ApplyWebhook(h)
    BY DEF Next, HandlerStep, Tick, OfficeReject, OfficeAssign, OfficeReschedule,
           ReceiveWebhook, MarkReplay, LockAttempt, FindProcessed, AbortApply, RecordFailure,
           Crash, SelectOverdue, ExpiryFails, CleanupEvent, vars, attemptVars
  <1> QED BY <1>2, <1>3, <1>4, <1>5, <1>6, <1>7, <1>8, <1>9 DEF ApplyWebhook

(* A step that writes no Payment and no row and makes no event PROCESSED. *)
LEMMA SettledKept ==
    ASSUME TypeOK, AnswersInv, receipt' = receipt, txn' = txn,
           \A b \in Attempts : InReview(b) => InReview(b)',
           \A e \in Events : eventStatus'[e] = "PROCESSED" =>
               /\ eventStatus[e] = "PROCESSED"
               /\ eventPayload'[e] = eventPayload[e] /\ eventRow'[e] = eventRow[e]
    PROVE  AnswersInv'
  <1> SUFFICES ASSUME NEW e \in Events, eventStatus'[e] = "PROCESSED",
                      eventPayload'[e].status = "PAID"
               PROVE  /\ eventRow'[e] # None
                      /\ receipt'[eventPayload'[e].attempt] # None
                      /\ \/ receipt'[eventPayload'[e].attempt] = eventRow'[e]
                         \/ PaddingHides(e)'
                      /\ txn'[eventRow'[e]].attempt = eventPayload'[e].attempt
                      /\ \/ txn'[eventRow'[e]].paid
                         \/ txn'[eventRow'[e]].status \in {"REFUNDED", "DISPUTED"}
                         \/ eventPayload'[e].money = "padded"
    BY DEF AnswersInv, ProcessedPaidIsSettled, ProcessedRowStands
  <1>1. /\ eventPayload'[e] = eventPayload[e] /\ eventRow'[e] = eventRow[e]
        /\ eventStatus[e] = "PROCESSED"
    OBVIOUS
  <1>2. eventPayload[e].attempt \in Attempts
    BY <1>1, PayloadTyped DEF TypeOK, RequestsTypeOK
  <1>3. PaddingHides(e) => PaddingHides(e)'
    BY <1>1, <1>2 DEF PaddingHides, Unrecorded, InReview
  <1> QED BY <1>1, <1>3 DEF AnswersInv, ProcessedPaidIsSettled, ProcessedRowStands

(* A commit writes only the event it works on, and a Payment only where there *)
(* was none; money for the Payment's own row makes up for its record only     *)
(* when the attempt has no other money or goes to a review.                   *)
LEMMA CommitSettled ==
    ASSUME TypeOK, MoneyInv, AnswersInv,
           NEW h \in Handlers, NEW r \in Rows, stage[h] = "locked",
           NEW subject \in Attempts, subject = Subject(h),
           NEW event \in Events, event = working[h],
           upsertPaymentTransaction(working[h], Payload(h), r),
           NEW status \in {"PROCESSED", "FAILED"}, Finish(h, status),
           \A b \in Attempts : receipt[b] # None => receipt'[b] = receipt[b],
           \A b \in Attempts : InReview(b) => InReview(b)',
           AdditionalCollection(Payload(h), r) => InReview(subject)',
           status = "PROCESSED" /\ Payload(h).status = "PAID" =>
               /\ receipt'[subject] # None
               /\ receipt'[subject] = r \/ PaddingHides(event)'
               /\ ReportsMoney(Payload(h)) \/ Payload(h).money = "padded"
    PROVE  AnswersInv'
  <1> USE DEF TypeOK, AttemptsTypeOK, EventsTypeOK
  <1>1. /\ working[h] \in Events /\ r # None /\ Payload(h) \in Payloads
        /\ Payload(h).attempt = Subject(h)
    BY CommitFacts
  <1>2. /\ eventPayload' = eventPayload
        /\ eventStatus'[working[h]] = status
        /\ \A e \in Events \ {working[h]} :
               eventStatus'[e] = eventStatus[e] /\ eventRow'[e] = eventRow[e]
        /\ eventRow'[working[h]] = r
    BY <1>1 DEF Finish, upsertPaymentTransaction
  <1> SUFFICES ASSUME NEW e \in Events, eventStatus'[e] = "PROCESSED",
                      eventPayload[e].status = "PAID"
               PROVE  /\ eventRow'[e] # None
                      /\ receipt'[eventPayload[e].attempt] # None
                      /\ \/ receipt'[eventPayload[e].attempt] = eventRow'[e]
                         \/ PaddingHides(e)'
                      /\ txn'[eventRow'[e]].attempt = eventPayload[e].attempt
                      /\ \/ txn'[eventRow'[e]].paid
                         \/ txn'[eventRow'[e]].status \in {"REFUNDED", "DISPUTED"}
                         \/ eventPayload[e].money = "padded"
    BY <1>2 DEF AnswersInv, ProcessedPaidIsSettled, ProcessedRowStands
  <1>3. CASE e = working[h]
    <2>1. eventRow'[e] = r /\ r # None /\ eventPayload[e] = Payload(h)
      BY <1>1, <1>2, <1>3 DEF Payload
    <2>2. \/ txn'[r].paid \/ txn'[r].status \in {"REFUNDED", "DISPUTED"}
          \/ ~ReportsMoney(Payload(h))
      BY <1>1, UpsertRow
    <2>3. txn'[r].attempt = Payload(h).attempt
      BY <1>1, UpsertRow
    <2>4. e = event /\ eventPayload[e].attempt = subject /\ status = "PROCESSED"
      BY <1>1, <1>2, <1>3, <2>1
    <2> QED BY <2>1, <2>2, <2>3, <2>4
  <1>4. CASE e # working[h]
    <2>0. PICK a, x : a = eventPayload[e].attempt /\ x = eventRow[e]
      OBVIOUS
    <2>1. /\ eventStatus[e] = "PROCESSED" /\ eventRow'[e] = x /\ x # None
          /\ x \in Rows /\ a \in Attempts
      BY <1>2, <1>4, <2>0, PayloadTyped
      DEF AnswersInv, ProcessedPaidIsSettled, RequestsTypeOK
    <2>2. /\ receipt[a] # None /\ receipt'[a] = receipt[a]
          /\ receipt[a] = x \/ PaddingHides(e)
      BY <2>0, <2>1 DEF AnswersInv, ProcessedPaidIsSettled
    <2>3. /\ txn[x].attempt = a
          /\ \/ txn[x].paid \/ txn[x].status \in {"REFUNDED", "DISPUTED"}
             \/ eventPayload[e].money = "padded"
      BY <2>0, <2>1 DEF AnswersInv, ProcessedRowStands
    <2>4. /\ txn'[x].attempt = a
          /\ \/ txn'[x].paid \/ txn'[x].status \in {"REFUNDED", "DISPUTED"}
             \/ eventPayload[e].money = "padded"
      <3>1. CASE x = r
        <4>1. a # None
          BY <2>1, NoneAssumption
        <4>2. txn[r].status # "NONE"
          BY <4>1, <2>3, <3>1 DEF MoneyInv, RowsInv, RowsSound, NoTxn
        <4> QED BY <1>1, <2>3, <3>1, <4>2, UpsertRow
      <3>2. CASE x # r
        BY <1>1, <2>1, <2>3, <3>2, UpsertRow
      <3> QED BY <3>1, <3>2
    <2>5. CASE receipt[a] = x \/ eventPayload[e].money = "padded"
      BY <1>2, <2>0, <2>1, <2>2, <2>4, <2>5 DEF PaddingHides
    <2>6. ASSUME "padded" \in MoneyForms, InReview(a)
          PROVE  PaddingHides(e)'
      <3>1. InReview(a)'
        BY <2>1, <2>6
      <3> QED BY <3>1, <1>2, <2>0, <2>6 DEF PaddingHides, InReview
    <2>7. ASSUME Unrecorded(a), eventPayload[e].money # "padded", receipt[a] # x
          PROVE  PaddingHides(e)'
      <3>1. CASE txn[x].status \in {"REFUNDED", "DISPUTED"}
        <4>1. InReview(a)
          BY <3>1, <2>1, <2>3 DEF MoneyInv, RowsInv, RowsSound, InReview
        <4> QED BY <4>1, <2>6, <2>7 DEF Unrecorded
      <3>2. CASE txn[x].paid
        <4>1. CASE Unrecorded(a)'
          BY <4>1, <1>2, <2>0 DEF PaddingHides
        <4>2. CASE ~Unrecorded(a)'
          <5>1. receipt[a] \in Rows /\ txn'[receipt[a]] # txn[receipt[a]]
            BY <4>2, <2>2, <2>7, <2>1 DEF Unrecorded
          <5>2. receipt[a] = r /\ ReportsMoney(Payload(h))
            BY <5>1, <4>2, <2>2, <2>7, <1>1, UpsertRow DEF Unrecorded
          <5>3. txn[r].attempt = a /\ a # None
            BY <5>2, <2>1, <2>2, NoneAssumption DEF MoneyInv, RowsInv, ReceiptCollected
          <5>4. txn[r].status # "NONE"
            BY <5>3 DEF MoneyInv, RowsInv, RowsSound, NoTxn
          <5>5. a = subject
            BY <5>3, <5>4, <1>1, UpsertRow
          <5>6. AdditionalCollection(Payload(h), r)
            BY <5>2, <5>5, <3>2, <2>1, <2>3, <2>7, <1>1 DEF AdditionalCollection
          <5>7. InReview(a)'
            BY <5>2, <5>5, <5>6
          <5> QED BY <5>7, <1>2, <2>0, <2>7 DEF PaddingHides, InReview, Unrecorded
        <4> QED BY <4>1, <4>2
      <3> QED BY <3>1, <3>2, <2>3, <2>7
    <2>8. PaddingHides(e) =>
              \/ eventPayload[e].money = "padded" \/ Unrecorded(a)
              \/ "padded" \in MoneyForms /\ InReview(a)
      BY <2>0 DEF PaddingHides, InReview
    <2> QED BY <1>2, <2>0, <2>1, <2>2, <2>4, <2>5, <2>6, <2>7, <2>8
  <1> QED BY <1>3, <1>4

LEMMA ApplySettled ==
    ASSUME TypeOK, MoneyInv, AnswersInv, NEW h \in Handlers, ApplyWebhook(h),
           \A b \in Attempts : InReview(b) => InReview(b)'
    PROVE  AnswersInv'
  <1> USE DEF TypeOK, AttemptsTypeOK
  <1>1. PICK r \in Rows : \/ ApplyReview(h, r)
                          \/ ApplySettlement(h, r)
                          \/ ApplyRepeatedPaid(h, r)
                          \/ ApplyReversal(h, r)
                          \/ ApplyFailure(h, r)
                          \/ ApplyPending(h, r)
    BY DEF ApplyWebhook
  <1>2. stage[h] = "locked" /\ upsertPaymentTransaction(working[h], Payload(h), r)
    BY <1>1 DEF ApplyReview, ApplySettlement, ApplyRepeatedPaid, ApplyReversal,
                ApplyFailure, ApplyPending
  <1>0. PICK a \in Attempts, e \in Events : a = Subject(h) /\ e = working[h]
    BY <1>2, CommitFacts
  <1>3. Payload(h).attempt = a /\ r # None /\ Payload(h) \in Payloads
    BY <1>0, <1>2, CommitFacts
  <1>4. CASE ApplyReview(h, r) \/ ApplyReversal(h, r)
    <2>1. Finish(h, "FAILED") /\ receipt' = receipt
      BY <1>4 DEF ApplyReview, ApplyReversal
    <2>2. InReview(a)'
      BY <1>0, <1>4 DEF ApplyReview, ApplyReversal, InReview, Flagged, financialReviewCodes
    <2> QED BY <1>0, <1>2, <2>1, <2>2, CommitSettled
  <1>5. CASE ApplySettlement(h, r)
    <2>1. /\ Finish(h, "PROCESSED") /\ receipt[a] = None
          /\ receipt' = [receipt EXCEPT ![a] = r]
          /\ ~NeedsCollectionReview(h, r)
      BY <1>0, <1>5 DEF ApplySettlement
    <2>2. /\ receipt'[a] = r
          /\ \A b \in Attempts : receipt[b] # None => receipt'[b] = receipt[b]
      BY <2>1
    <2>3. /\ ~AdditionalCollection(Payload(h), r)
          /\ Payload(h).status = "PAID" =>
                ReportsMoney(Payload(h)) \/ Payload(h).money = "padded"
      BY <1>3, <2>1 DEF NeedsCollectionReview, PayloadProblem, ReportsMoney, Payloads
    <2> QED BY <1>0, <1>2, <1>3, <2>1, <2>2, <2>3, CommitSettled
  <1>6. CASE ApplyRepeatedPaid(h, r)
    <2>1. /\ Finish(h, "PROCESSED") /\ receipt' = receipt /\ receipt[a] # None
          /\ Payload(h).status = "PAID" /\ ~NeedsCollectionReview(h, r)
      BY <1>0, <1>6 DEF ApplyRepeatedPaid
    <2>2. /\ ~AdditionalCollection(Payload(h), r)
          /\ ReportsMoney(Payload(h)) \/ Payload(h).money = "padded"
      BY <1>3, <2>1 DEF NeedsCollectionReview, PayloadProblem, ReportsMoney, Payloads
    <2>3. receipt'[a] = r \/ PaddingHides(e)'
      <3>1. eventPayload' = eventPayload /\ Payload(h) = eventPayload[e]
        BY <1>0, <2>1 DEF Finish, Payload
      <3>2. CASE Payload(h).money = "padded"
        BY <3>1, <3>2 DEF PaddingHides
      <3>3. CASE ReportsMoney(Payload(h)) /\ receipt[a] # r
        <4>1. Unrecorded(a)
          BY <1>3, <2>1, <2>2, <3>3
          DEF AdditionalCollection, MoneyInv, RowsInv, ReceiptCollected
        <4>2. Unrecorded(a)'
          BY <4>1, <3>3, <2>1, <1>2, CommitRecords
        <4> QED BY <4>2, <3>1, <1>3 DEF PaddingHides
      <3> QED BY <2>1, <2>2, <3>2, <3>3
    <2> QED BY <1>0, <1>2, <2>1, <2>2, <2>3, CommitSettled
  <1>7. CASE ApplyFailure(h, r) \/ ApplyPending(h, r)
    <2>1. Finish(h, "PROCESSED") /\ receipt' = receipt /\ Payload(h).status # "PAID"
      BY <1>7 DEF ApplyFailure, ApplyPending
    <2>2. ~AdditionalCollection(Payload(h), r)
      BY <2>1 DEF AdditionalCollection, ReportsMoney
    <2> QED BY <1>0, <1>2, <2>1, <2>2, CommitSettled
  <1> QED BY <1>1, <1>4, <1>5, <1>6, <1>7

LEMMA SettledStep ==
    ASSUME TypeOK, MoneyInv, AnswersInv, [Next]_vars
    PROVE  AnswersInv'
  <1> USE DEF TypeOK, EventsTypeOK
  <1>0. \A b \in Attempts : InReview(b) => InReview(b)'
    BY ReviewStays
  <1>1. ASSUME NEW h \in Handlers, ApplyWebhook(h)
        PROVE  AnswersInv'
    BY <1>0, <1>1, ApplySettled
  <1>2. ASSUME NEW h \in Handlers, RecordFailure(h)
        PROVE  AnswersInv'
    <2>1. /\ UNCHANGED <<eventPayload, eventRow, txn>> /\ receipt' = receipt
          /\ eventStatus' \in {eventStatus, [eventStatus EXCEPT ![working[h]] = "FAILED"]}
      BY <1>2 DEF RecordFailure, attemptVars
    <2> QED BY <1>0, <2>1, SettledKept
  <1>3. ASSUME NEW h \in Handlers, NEW e \in Events,
               (\E p \in Payloads : ReceiveWebhook(h, e, p)) \/ MarkReplay(h, e)
        PROVE  AnswersInv'
    <2>1. receipt' = receipt /\ eventRow' = eventRow /\ txn' = txn
      BY <1>3 DEF ReceiveWebhook, MarkReplay, attemptVars
    <2>2. \A f \in Events : eventStatus'[f] = "PROCESSED" =>
              eventStatus[f] = "PROCESSED" /\ eventPayload'[f] = eventPayload[f]
      BY <1>3 DEF ReceiveWebhook, MarkReplay
    <2> QED BY <1>0, <2>1, <2>2, SettledKept
  <1>4. ASSUME NEW e \in Events, CleanupEvent(e)
        PROVE  AnswersInv'
    <2>1. receipt' = receipt /\ txn' = txn
      BY <1>4 DEF CleanupEvent, attemptVars
    <2>2. \A f \in Events : eventStatus'[f] = "PROCESSED" =>
              /\ eventStatus[f] = "PROCESSED"
              /\ eventPayload'[f] = eventPayload[f] /\ eventRow'[f] = eventRow[f]
      BY <1>4 DEF CleanupEvent
    <2> QED BY <1>0, <2>1, <2>2, SettledKept
  <1>5. CASE receipt' = receipt /\ txn' = txn /\ UNCHANGED eventVars
    BY <1>0, <1>5, SettledKept DEF eventVars
  <1>6. \/ receipt' = receipt /\ txn' = txn /\ UNCHANGED eventVars
        \/ \E h \in Handlers : ApplyWebhook(h) \/ RecordFailure(h)
        \/ \E h \in Handlers, e \in Events :
               (\E p \in Payloads : ReceiveWebhook(h, e, p)) \/ MarkReplay(h, e)
        \/ \E e \in Events : CleanupEvent(e)
    BY DEF Next, HandlerStep, CreateCheckout, Tick, OfficeReject, OfficeAssign,
           OfficeReschedule, LockAttempt, FindProcessed, AbortApply, Crash, SelectOverdue,
           ExpiryFails, SweepExpire, WorkerExpire, vars, attemptVars
  <1> QED BY <1>1, <1>2, <1>3, <1>4, <1>5, <1>6

(* The provider is told PROCESSED for a PAID report of a settled attempt     *)
(* only, and without padded amounts only when that report's own row is the   *)
(* recorded collection, for any number of requests, repeats, replays,        *)
(* crashes and cleanups, and beside the blind batch; with them also when the *)
(* padding of this report or of the settlement's hides it                    *)
(* (handlePaymentWebhook).                                                   *)
THEOREM ProcessedAreSettled == Spec => []ProcessedPaidIsSettled
  <1>1. Init => AnswersInv
    BY DEF Init, AnswersInv, ProcessedPaidIsSettled, ProcessedRowStands
  <1>2. TypeOK /\ MoneyInv /\ AnswersInv /\ [Next]_vars => AnswersInv'
    BY SettledStep
  <1>3. AnswersInv => ProcessedPaidIsSettled
    BY DEF AnswersInv
  <1> QED BY <1>1, <1>2, <1>3, MoneyInvariant, PTL DEF Spec
=============================================================================
