------------------------ MODULE PaymentReleaseProofs ------------------------
(***************************************************************************)
(* What holds of PaymentSettlement even with the blind batch of the        *)
(* maintenance worker: a booking is backed by a payment, and a reservation *)
(* whose attempt failed or expired is released; how a rejection by the     *)
(* office can be undone; and why a slot can stay reserved.                 *)
(***************************************************************************)
EXTENDS PaymentPromiseProofs

LEMMA ReleaseInit == Init => ReleaseInv
  BY DEF Init, ReleaseInv, RecordedAttemptExists, LockedReadingCurrent, UnbornUntouched,
         BookingBacked, ReleasedTogether, EndedUnpaid

(* A step that leaves the attempts alone keeps what ReleaseInv says of them; *)
(* the requests it leaves locked were locked before.                         *)
LEMMA ReleaseUntouched ==
    ASSUME ReleaseInv, UNCHANGED attemptVars, RecordedAttemptExists',
           \A h \in Handlers : stage'[h] = "locked" =>
               stage[h] = "locked" /\ Subject(h)' = Subject(h) /\ seen'[h] = seen[h]
    PROVE  ReleaseInv'
  BY DEF ReleaseInv, LockedReadingCurrent, UnbornUntouched, BookingBacked,
         ReleasedTogether, EndedUnpaid, attemptVars

(* Everything but the commits, the office and the expiry.                    *)
LEMMA ReleaseRequests ==
    ASSUME TypeOK, ReleaseInv, NEW h \in Handlers, NEW e \in Events,
           \/ \E p \in Payloads : ReceiveWebhook(h, e, p)
           \/ MarkReplay(h, e) \/ FindProcessed(h) \/ AbortApply(h) \/ RecordFailure(h)
           \/ Crash(h) \/ CleanupEvent(e)
    PROVE  ReleaseInv'
  <1> USE DEF TypeOK, HandlersTypeOK, EventsTypeOK, RequestsTypeOK
  <1>1. UNCHANGED attemptVars
    BY DEF ReceiveWebhook, MarkReplay, FindProcessed, AbortApply, RecordFailure, Crash,
           CleanupEvent
  <1>2. CASE \/ \E p \in Payloads : ReceiveWebhook(h, e, p)
             \/ MarkReplay(h, e)
    <2>1. RecordedAttemptExists'
      BY <1>1, <1>2 DEF ReceiveWebhook, MarkReplay, ReleaseInv, RecordedAttemptExists,
                        attemptVars
    <2>2. \A g \in Handlers : stage'[g] = "locked" =>
              stage[g] = "locked" /\ Subject(g)' = Subject(g) /\ seen'[g] = seen[g]
      BY <1>2 DEF ReceiveWebhook, MarkReplay, Subject, Payload
    <2> QED BY <1>1, <2>1, <2>2, ReleaseUntouched
  <1>3. CASE FindProcessed(h) \/ AbortApply(h) \/ RecordFailure(h) \/ Crash(h)
    <2>1. /\ eventPayload' = eventPayload /\ stage[h] # "idle"
          /\ LeaveStage(h, "idle") \/ LeaveStage(h, "failing")
      BY <1>3 DEF FindProcessed, AbortApply, RecordFailure, Crash, eventVars
    <2>2. \A x \in Events : eventStatus'[x] # "NONE" => eventStatus[x] # "NONE"
      BY <1>3, <2>1 DEF FindProcessed, AbortApply, RecordFailure, Crash, eventVars
    <2>3. RecordedAttemptExists'
      BY <1>1, <2>1, <2>2 DEF ReleaseInv, RecordedAttemptExists, attemptVars
    <2>4. \A g \in Handlers : stage'[g] = "locked" =>
              stage[g] = "locked" /\ Subject(g)' = Subject(g) /\ seen'[g] = seen[g]
      BY <2>1 DEF LeaveStage, Subject, Payload
    <2> QED BY <1>1, <2>3, <2>4, ReleaseUntouched
  <1>4. CASE CleanupEvent(e)
    <2>1. RecordedAttemptExists'
      BY <1>1, <1>4 DEF CleanupEvent, ReleaseInv, RecordedAttemptExists, attemptVars
    <2>2. \A g \in Handlers : stage'[g] = "locked" =>
              stage[g] = "locked" /\ Subject(g)' = Subject(g) /\ seen'[g] = seen[g]
      BY <1>4 DEF CleanupEvent, handlerVars, Subject, Payload
    <2> QED BY <1>1, <2>1, <2>2, ReleaseUntouched
  <1> QED BY <1>2, <1>3, <1>4

LEMMA ReleaseLock ==
    ASSUME TypeOK, ReleaseInv, NEW h \in Handlers, LockAttempt(h)
    PROVE  ReleaseInv'
  <1>1. UNCHANGED <<attemptVars, txn, eventVars, working>> /\ stage[h] = "recorded"
    BY DEF LockAttempt
  <1>2. Subject(h) \in Attempts /\ \A g \in Handlers : Subject(g)' = Subject(g)
    BY <1>1, WorkingTyped DEF Subject, Payload, eventVars
  <1>3. LockedReadingCurrent'
    BY <1>1, <1>2 DEF LockAttempt, ReleaseInv, LockedReadingCurrent, attemptVars, TypeOK,
                      HandlersTypeOK
  <1>4. RecordedAttemptExists'
    BY <1>1 DEF ReleaseInv, RecordedAttemptExists, attemptVars, eventVars
  <1> QED BY <1>1, <1>3, <1>4 DEF ReleaseInv, UnbornUntouched, BookingBacked,
                                  ReleasedTogether, EndedUnpaid, attemptVars

(* Checkout, time, the office and the batches never put a reservation back   *)
(* under a request that has locked its attempt.                              *)
LEMMA ReleaseOutside ==
    ASSUME TypeOK, ReleaseInv,
           \/ \E a \in Attempts : \/ CreateCheckout(a) \/ Tick(a) \/ OfficeReject(a)
                                  \/ OfficeAssign(a) \/ OfficeReschedule(a)
           \/ \E s \in Sweepers \cup Workers : SweepExpire(s) \/ WorkerExpire(s)
    PROVE  ReleaseInv'
  <1> USE DEF TypeOK, AttemptsTypeOK, ReleaseInv
  <1>1. UNCHANGED <<receipt, txn, eventVars, handlerVars>>
    BY DEF CreateCheckout, Tick, OfficeReject, OfficeAssign, OfficeReschedule, SweepExpire,
           WorkerExpire
  <1>2. \A g \in Handlers : Subject(g)' = Subject(g) /\ stage'[g] = stage[g]
                            /\ seen'[g] = seen[g]
    BY <1>1 DEF Subject, Payload, eventVars, handlerVars
  <1>3. \A b \in Attempts :
            \/ /\ attempt[b] = "NONE" /\ attempt'[b] = "PENDING"
               /\ appointment'[b] = "RESERVED" /\ failureCode'[b] = failureCode[b]
            \/ /\ attempt'[b] = attempt[b] /\ failureCode'[b] = failureCode[b]
               /\ appointment'[b] \in {appointment[b], "CANCELLED", "RESCHEDULED"}
               /\ consultation'[b] \in {consultation[b], "REVIEWING", "REJECTED"}
            \/ /\ attempt'[b] = "EXPIRED" /\ failureCode'[b] = "ATTEMPT_EXPIRED"
               /\ IF appointment[b] = "RESERVED" THEN appointment'[b] = "CANCELLED"
                                                 ELSE appointment'[b] = appointment[b]
               /\ IF consultation[b] = "PAYMENT_PENDING" THEN consultation'[b] = "REVIEWING"
                                                 ELSE consultation'[b] = consultation[b]
    BY DEF CreateCheckout, Tick, OfficeReject, OfficeAssign, OfficeReschedule, SweepExpire,
           WorkerExpire, Expire
  <1>4. RecordedAttemptExists'
    BY <1>1, <1>3, PayloadTyped DEF RecordedAttemptExists, RequestsTypeOK, eventVars
  <1>5. LockedReadingCurrent'
    <2> SUFFICES ASSUME NEW g \in Handlers, stage[g] = "locked"
                 PROVE  /\ appointment'[Subject(g)] = "RESERVED" =>
                               seen[g].appointment = "RESERVED"
                        /\ consultation'[Subject(g)] = "PAYMENT_PENDING" =>
                               seen[g].consultation = "PAYMENT_PENDING"
      BY <1>2 DEF LockedReadingCurrent
    <2>1. Subject(g) \in Attempts /\ attempt[Subject(g)] # "NONE"
      BY WorkingTyped DEF RequestsTypeOK, RecordedAttemptExists, Subject, Payload
    <2> QED BY <1>3, <2>1 DEF LockedReadingCurrent
  <1>6. UnbornUntouched'
    BY <1>3 DEF UnbornUntouched
  <1>7. BookingBacked'
    BY <1>1, <1>3 DEF BookingBacked
  <1>8. ReleasedTogether'
    BY <1>1, <1>3 DEF ReleasedTogether, EndedUnpaid, UnbornUntouched
  <1> QED BY <1>4, <1>5, <1>6, <1>7, <1>8

(* A commit writes one attempt. When it ends it unpaid, it releases what it  *)
(* has read, and it has read every reservation that stands.                  *)
LEMMA ReleaseCommit ==
    ASSUME TypeOK, ReleaseInv, NEW h \in Handlers, NEW r \in Rows,
           \/ ApplyReview(h, r) \/ ApplySettlement(h, r) \/ ApplyRepeatedPaid(h, r)
           \/ ApplyReversal(h, r) \/ ApplyFailure(h, r) \/ ApplyPending(h, r),
           NEW a \in Attempts, a = Subject(h)
    PROVE  ReleaseInv'
  <1> USE DEF TypeOK, AttemptsTypeOK, EventsTypeOK, ReleaseInv
  <1>1. /\ stage[h] = "locked"
        /\ Finish(h, "PROCESSED") \/ Finish(h, "FAILED")
    BY DEF ApplyReview, ApplySettlement, ApplyRepeatedPaid, ApplyReversal, ApplyFailure,
           ApplyPending
  <1>2. /\ working[h] \in Events /\ eventStatus[working[h]] # "NONE"
        /\ attempt[a] # "NONE" /\ Payload(h).status \in Statuses
    BY <1>1, WorkingTyped, PayloadTyped
    DEF RequestsTypeOK, RecordedAttemptExists, Subject, Payload
  <1>3. \A b \in Attempts \ {a} :
            /\ attempt'[b] = attempt[b] /\ failureCode'[b] = failureCode[b]
            /\ appointment'[b] = appointment[b] /\ consultation'[b] = consultation[b]
            /\ receipt'[b] = receipt[b]
    BY DEF ApplyReview, ApplySettlement, ApplyRepeatedPaid, ApplyReversal, ApplyFailure,
           ApplyPending, releaseFailedAttempt
  <1>4. /\ appointment[a] = "RESERVED" => seen[h].appointment = "RESERVED"
        /\ consultation[a] = "PAYMENT_PENDING" => seen[h].consultation = "PAYMENT_PENDING"
    BY <1>1 DEF LockedReadingCurrent
  <1>5. /\ attempt'[a] # "NONE"
        /\ receipt[a] # None => receipt'[a] # None
        /\ appointment'[a] = "SCHEDULED" => receipt'[a] # None \/ appointment[a] = "SCHEDULED"
        /\ EndedUnpaid(a)' => appointment'[a] # "RESERVED" /\ consultation'[a] # "PAYMENT_PENDING"
    <2>1. CASE ApplyReview(h, r)
      BY <2>1, <1>2, <1>4 DEF ApplyReview, releaseFailedAttempt, Open, ReleasedTogether,
                              EndedUnpaid
    <2>2. CASE ApplySettlement(h, r)
      BY <2>2, NoneAssumption DEF ApplySettlement, EndedUnpaid, Rows
    <2>3. CASE ApplyRepeatedPaid(h, r)
      BY <2>3, <1>2 DEF ApplyRepeatedPaid, EndedUnpaid
    <2>4. CASE ApplyReversal(h, r)
      BY <2>4 DEF ApplyReversal, IsReversal, EndedUnpaid
    <2>5. CASE ApplyFailure(h, r)
      BY <2>5, <1>2, <1>4 DEF ApplyFailure, releaseFailedAttempt, Open, ReleasedTogether,
                              EndedUnpaid
    <2>6. CASE ApplyPending(h, r)
      BY <2>6, <1>2 DEF ApplyPending, ReleasedTogether, EndedUnpaid
    <2> QED BY <2>1, <2>2, <2>3, <2>4, <2>5, <2>6
  <1>6. /\ eventPayload' = eventPayload
        /\ \A e \in Events : eventStatus'[e] # "NONE" => eventStatus[e] # "NONE"
    BY <1>1, <1>2 DEF Finish
  <1>7. \A g \in Handlers : stage'[g] = "locked" =>
            /\ stage[g] = "locked" /\ seen'[g] = seen[g]
            /\ Subject(g)' = Subject(g) /\ Subject(g) \in Attempts
    BY <1>1, <1>6, WorkingTyped DEF Finish, LeaveStage, Subject, Payload, HandlersTypeOK
  <1>8. RecordedAttemptExists'
    BY <1>3, <1>5, <1>6, PayloadTyped DEF RecordedAttemptExists, RequestsTypeOK
  <1>9. /\ appointment'[a] = "RESERVED" => appointment[a] = "RESERVED"
        /\ consultation'[a] = "PAYMENT_PENDING" => consultation[a] = "PAYMENT_PENDING"
    BY DEF ApplyReview, ApplySettlement, ApplyRepeatedPaid, ApplyReversal, ApplyFailure,
           ApplyPending, releaseFailedAttempt
  <1>10. LockedReadingCurrent'
    BY <1>3, <1>7, <1>9 DEF LockedReadingCurrent
  <1>11. UnbornUntouched' /\ BookingBacked' /\ ReleasedTogether'
    BY <1>3, <1>5 DEF UnbornUntouched, BookingBacked, ReleasedTogether, EndedUnpaid
  <1> QED BY <1>8, <1>10, <1>11

LEMMA ReleaseStep ==
    ASSUME TypeOK, ReleaseInv, [Next]_vars
    PROVE  ReleaseInv'
  <1>1. ASSUME NEW h \in Handlers, ApplyWebhook(h)
        PROVE  ReleaseInv'
    <2>1. PICK r \in Rows :
              \/ ApplyReview(h, r) \/ ApplySettlement(h, r) \/ ApplyRepeatedPaid(h, r)
              \/ ApplyReversal(h, r) \/ ApplyFailure(h, r) \/ ApplyPending(h, r)
      BY <1>1 DEF ApplyWebhook
    <2>2. stage[h] # "idle"
      BY <2>1 DEF ApplyReview, ApplySettlement, ApplyRepeatedPaid, ApplyReversal,
                  ApplyFailure, ApplyPending
    <2>3. PICK a \in Attempts : a = Subject(h)
      BY <2>2, WorkingTyped
    <2> QED BY <2>1, <2>3, ReleaseCommit
  <1>2. ASSUME NEW h \in Handlers, HandlerStep(h) \/ Crash(h)
        PROVE  ReleaseInv'
    <2>1. CASE FindProcessed(h) \/ AbortApply(h) \/ RecordFailure(h) \/ Crash(h)
      <3>1. PICK e \in Events : e = working[h]
        BY <2>1 DEF TypeOK, RequestsTypeOK, FindProcessed, AbortApply, RecordFailure, Crash
      <3> QED BY <2>1, <3>1, ReleaseRequests
    <2> QED BY <1>1, <1>2, <2>1, ReleaseLock DEF HandlerStep
  <1>3. ASSUME \/ \E s \in Sweepers \cup Workers : SelectOverdue(s) \/ ExpiryFails(s)
               \/ UNCHANGED vars
        PROVE  ReleaseInv'
    <2>1. UNCHANGED <<attemptVars, txn, eventVars, handlerVars>>
      BY <1>3 DEF SelectOverdue, ExpiryFails, vars
    <2> QED BY <2>1, ReleaseUntouched
            DEF ReleaseInv, RecordedAttemptExists, Subject, Payload, attemptVars, eventVars,
                handlerVars
  <1>4. ASSUME NEW e \in Events, CleanupEvent(e)
        PROVE  ReleaseInv'
    <2>1. CASE Handlers = {}
      BY <1>4, <2>1, ReleaseUntouched DEF CleanupEvent, ReleaseInv, RecordedAttemptExists,
             attemptVars, TypeOK, EventsTypeOK
    <2>2. CASE Handlers # {}
      BY <1>4, <2>2, ReleaseRequests
    <2> QED BY <2>1, <2>2
  <1> QED BY <1>2, <1>3, <1>4, ReleaseRequests, ReleaseOutside DEF Next

LEMMA ReleaseInvariant == Spec => [](TypeOK /\ ReleaseInv)
  <1>1. Init => TypeOK /\ ReleaseInv
    BY TypeInit, ReleaseInit
  <1>2. TypeOK /\ ReleaseInv /\ [Next]_vars => TypeOK' /\ ReleaseInv'
    BY TypeStep, ReleaseStep
  <1> QED BY <1>1, <1>2, PTL DEF Spec

(* No appointment is SCHEDULED without the Payment that backs it, with or    *)
(* without the maintenance worker (confirmPaidAttempt).                      *)
THEOREM BookingsBacked == Spec => []BookingBacked
  <1>1. TypeOK /\ ReleaseInv => BookingBacked
    BY DEF ReleaseInv
  <1> QED BY <1>1, ReleaseInvariant, PTL

(* An attempt that failed or expired unpaid has released its appointment and *)
(* its consultation, whatever the office did in between                      *)
(* (releaseFailedAttempt, both expiry batches).                              *)
THEOREM ReservationsReleased == Spec => []ReleasedTogether
  <1>1. TypeOK /\ ReleaseInv => ReleasedTogether
    BY DEF ReleaseInv
  <1> QED BY <1>1, ReleaseInvariant, PTL

------------------------------------------------------------------------------
(* The window in which a payment undoes a rejection. *)

(* A consultation waits for its payment while a request that will settle it  *)
(* has it so in its reading, and one without an attempt is none.             *)
UnbornUnasked == \A a \in Attempts : attempt[a] = "NONE" => consultation[a] = "NONE"

SettlersReadWaiting ==
    \A h \in Handlers :
        stage[h] = "locked" /\ ~seen[h].blocked /\ receipt[Subject(h)] = None =>
            seen[h].consultation = "PAYMENT_PENDING"

RejectInv == UnbornUnasked /\ SettlersReadWaiting

LEMMA RejectQuiet ==
    ASSUME RejectInv, UNCHANGED attemptVars,
           \A g \in Handlers : stage'[g] = "locked" =>
               stage[g] = "locked" /\ Subject(g)' = Subject(g) /\ seen'[g] = seen[g]
    PROVE  RejectInv' /\ RejectionOvertaken
  BY DEF RejectInv, UnbornUnasked, SettlersReadWaiting, RejectionOvertaken, attemptVars

(* Requests before and after their transaction, and the cleanup.             *)
LEMMA RejectRequests ==
    ASSUME TypeOK, RejectInv,
           \/ \E h \in Handlers, e \in Events :
                  (\E p \in Payloads : ReceiveWebhook(h, e, p)) \/ MarkReplay(h, e)
           \/ \E h \in Handlers :
                  FindProcessed(h) \/ AbortApply(h) \/ RecordFailure(h) \/ Crash(h)
           \/ \E e \in Events : CleanupEvent(e)
    PROVE  RejectInv' /\ RejectionOvertaken
  <1> USE DEF TypeOK, HandlersTypeOK, EventsTypeOK, RequestsTypeOK
  <1>1. ASSUME NEW h \in Handlers, NEW e \in Events,
               (\E p \in Payloads : ReceiveWebhook(h, e, p)) \/ MarkReplay(h, e)
        PROVE  RejectInv' /\ RejectionOvertaken
    <2>1. UNCHANGED attemptVars
      BY <1>1 DEF ReceiveWebhook, MarkReplay
    <2>2. \A g \in Handlers : stage'[g] = "locked" =>
              stage[g] = "locked" /\ Subject(g)' = Subject(g) /\ seen'[g] = seen[g]
      BY <1>1 DEF ReceiveWebhook, MarkReplay, Subject, Payload
    <2> QED BY <2>1, <2>2, RejectQuiet
  <1>2. ASSUME NEW h \in Handlers,
               FindProcessed(h) \/ AbortApply(h) \/ RecordFailure(h) \/ Crash(h)
        PROVE  RejectInv' /\ RejectionOvertaken
    <2>1. /\ UNCHANGED <<attemptVars, eventPayload>> /\ stage[h] # "idle"
          /\ LeaveStage(h, "idle") \/ LeaveStage(h, "failing")
      BY <1>2 DEF FindProcessed, AbortApply, RecordFailure, Crash, eventVars
    <2>2. \A g \in Handlers : stage'[g] = "locked" =>
              stage[g] = "locked" /\ Subject(g)' = Subject(g) /\ seen'[g] = seen[g]
      BY <2>1 DEF LeaveStage, Subject, Payload
    <2> QED BY <2>1, <2>2, RejectQuiet
  <1>3. ASSUME NEW e \in Events, CleanupEvent(e)
        PROVE  RejectInv' /\ RejectionOvertaken
    <2>1. UNCHANGED attemptVars
      BY <1>3 DEF CleanupEvent
    <2>2. \A g \in Handlers : stage'[g] = "locked" =>
              stage[g] = "locked" /\ Subject(g)' = Subject(g) /\ seen'[g] = seen[g]
      BY <1>3 DEF CleanupEvent, handlerVars, Subject, Payload
    <2> QED BY <2>1, <2>2, RejectQuiet
  <1> QED BY <1>1, <1>2, <1>3

LEMMA RejectLock ==
    ASSUME TypeOK, RejectInv, NEW h \in Handlers, LockAttempt(h)
    PROVE  RejectInv' /\ RejectionOvertaken
  <1>1. UNCHANGED <<attemptVars, eventVars, working>> /\ stage[h] = "recorded"
    BY DEF LockAttempt
  <1>2. Subject(h) \in Attempts /\ \A g \in Handlers : Subject(g)' = Subject(g)
    BY <1>1, WorkingTyped DEF Subject, Payload, eventVars
  <1>3. SettlersReadWaiting'
    <2> SUFFICES ASSUME NEW g \in Handlers, stage'[g] = "locked", ~seen'[g].blocked,
                        receipt[Subject(g)] = None
                 PROVE  seen'[g].consultation = "PAYMENT_PENDING"
      BY <1>1, <1>2 DEF SettlersReadWaiting, attemptVars
    <2>1. CASE g = h
      BY <2>1, <1>2 DEF LockAttempt, Blocked, TypeOK, HandlersTypeOK
    <2>2. CASE g # h
      BY <2>2 DEF LockAttempt, RejectInv, SettlersReadWaiting, TypeOK, HandlersTypeOK
    <2> QED BY <2>1, <2>2
  <1> QED BY <1>1, <1>3 DEF RejectInv, UnbornUnasked, RejectionOvertaken, attemptVars

(* The office refuses what it has rejected, and a batch takes what waits.    *)
LEMMA RejectOutside ==
    ASSUME TypeOK, RejectInv,
           \/ \E a \in Attempts : \/ CreateCheckout(a) \/ Tick(a) \/ OfficeReject(a)
                                  \/ OfficeAssign(a) \/ OfficeReschedule(a)
           \/ \E s \in Sweepers \cup Workers : SweepExpire(s) \/ WorkerExpire(s)
    PROVE  RejectInv' /\ RejectionOvertaken
  <1> USE DEF TypeOK, AttemptsTypeOK
  <1>1. UNCHANGED <<receipt, eventVars, handlerVars>>
    BY DEF CreateCheckout, Tick, OfficeReject, OfficeAssign, OfficeReschedule, SweepExpire,
           WorkerExpire
  <1>2. \A g \in Handlers : Subject(g)' = Subject(g) /\ stage'[g] = stage[g]
                            /\ seen'[g] = seen[g]
    BY <1>1 DEF Subject, Payload, eventVars, handlerVars
  <1>3. \A b \in Attempts :
            \/ attempt[b] = "NONE" /\ attempt'[b] = "PENDING"
            \/ attempt'[b] = attempt[b] /\ consultation'[b] = consultation[b]
            \/ /\ attempt'[b] \in {attempt[b], "EXPIRED"}
               /\ consultation[b] # "NONE" /\ consultation'[b] = "REJECTED"
            \/ /\ attempt'[b] \in {attempt[b], "EXPIRED"}
               /\ consultation[b] \in {"PAYMENT_PENDING", "REVIEWING"}
            \/ attempt'[b] = "EXPIRED" /\ consultation'[b] = consultation[b]
    BY DEF CreateCheckout, Tick, OfficeReject, OfficeAssign, OfficeReschedule, SweepExpire,
           WorkerExpire, Expire
  <1>4. SettlersReadWaiting'
    BY <1>1, <1>2 DEF RejectInv, SettlersReadWaiting
  <1>5. UnbornUnasked'
    BY <1>3 DEF RejectInv, UnbornUnasked
  <1>6. RejectionOvertaken
    BY <1>3 DEF RejectInv, UnbornUnasked, RejectionOvertaken
  <1> QED BY <1>4, <1>5, <1>6 DEF RejectInv

(* A commit changes its own consultation, and only if it read it waiting.    *)
LEMMA RejectCommit ==
    ASSUME TypeOK, ReleaseInv, RejectInv, NEW h \in Handlers, NEW r \in Rows,
           \/ ApplyReview(h, r) \/ ApplySettlement(h, r) \/ ApplyRepeatedPaid(h, r)
           \/ ApplyReversal(h, r) \/ ApplyFailure(h, r) \/ ApplyPending(h, r),
           NEW a \in Attempts, a = Subject(h)
    PROVE  RejectInv' /\ RejectionOvertaken
  <1> USE DEF TypeOK, AttemptsTypeOK
  <1>1. /\ stage[h] = "locked"
        /\ Finish(h, "PROCESSED") \/ Finish(h, "FAILED")
    BY DEF ApplyReview, ApplySettlement, ApplyRepeatedPaid, ApplyReversal, ApplyFailure,
           ApplyPending
  <1>2. attempt[a] # "NONE" /\ Payload(h).status \in Statuses
    BY <1>1, WorkingTyped, PayloadTyped
    DEF ReleaseInv, RequestsTypeOK, RecordedAttemptExists, Subject, Payload
  <1>3. \A b \in Attempts \ {a} :
            attempt'[b] = attempt[b] /\ consultation'[b] = consultation[b]
    BY DEF ApplyReview, ApplySettlement, ApplyRepeatedPaid, ApplyReversal, ApplyFailure,
           ApplyPending, releaseFailedAttempt
  <1>4. \A b \in Attempts : receipt'[b] = None => receipt[b] = None
    BY NoneAssumption DEF ApplyReview, ApplySettlement, ApplyRepeatedPaid, ApplyReversal,
           ApplyFailure, ApplyPending, Rows
  <1>5. /\ attempt'[a] # "NONE"
        /\ consultation'[a] # consultation[a] => seen[h].consultation = "PAYMENT_PENDING"
    <2>1. CASE ApplySettlement(h, r)
      <3>1. ~seen[h].blocked /\ receipt[a] = None
        BY <2>1 DEF ApplySettlement, NeedsCollectionReview
      <3> QED BY <2>1, <3>1, <1>1 DEF ApplySettlement, RejectInv, SettlersReadWaiting
    <2>2. CASE ApplyReview(h, r) \/ ApplyFailure(h, r)
      BY <2>2, <1>2 DEF ApplyReview, ApplyFailure, releaseFailedAttempt
    <2>3. CASE ApplyRepeatedPaid(h, r) \/ ApplyPending(h, r)
      BY <2>3, <1>2 DEF ApplyRepeatedPaid, ApplyPending
    <2>4. CASE ApplyReversal(h, r)
      BY <2>4 DEF ApplyReversal, IsReversal
    <2> QED BY <2>1, <2>2, <2>3, <2>4
  <1>6. \A g \in Handlers : stage'[g] = "locked" =>
            stage[g] = "locked" /\ seen'[g] = seen[g] /\ Subject(g)' = Subject(g)
            /\ Subject(g) \in Attempts
    BY <1>1, WorkingTyped DEF Finish, LeaveStage, Subject, Payload, HandlersTypeOK
  <1>7. UnbornUnasked'
    BY <1>3, <1>5 DEF RejectInv, UnbornUnasked
  <1>8. SettlersReadWaiting'
    BY <1>4, <1>6 DEF RejectInv, SettlersReadWaiting
  <1>9. Holds(h, a)
    BY <1>1 DEF Holds
  <1> QED BY <1>3, <1>5, <1>7, <1>8, <1>9 DEF RejectInv, RejectionOvertaken

LEMMA RejectStep ==
    ASSUME TypeOK, ReleaseInv, RejectInv, [Next]_vars
    PROVE  RejectInv' /\ RejectionOvertaken
  <1>1. ASSUME NEW h \in Handlers, ApplyWebhook(h)
        PROVE  RejectInv' /\ RejectionOvertaken
    <2>1. PICK r \in Rows :
              \/ ApplyReview(h, r) \/ ApplySettlement(h, r) \/ ApplyRepeatedPaid(h, r)
              \/ ApplyReversal(h, r) \/ ApplyFailure(h, r) \/ ApplyPending(h, r)
      BY <1>1 DEF ApplyWebhook
    <2>2. stage[h] # "idle"
      BY <2>1 DEF ApplyReview, ApplySettlement, ApplyRepeatedPaid, ApplyReversal,
                  ApplyFailure, ApplyPending
    <2>3. PICK a \in Attempts : a = Subject(h)
      BY <2>2, WorkingTyped
    <2> QED BY <2>1, <2>3, RejectCommit
  <1>2. ASSUME \/ \E s \in Sweepers \cup Workers : SelectOverdue(s) \/ ExpiryFails(s)
               \/ UNCHANGED vars
        PROVE  RejectInv' /\ RejectionOvertaken
    <2>1. UNCHANGED <<attemptVars, eventVars, handlerVars>>
      BY <1>2 DEF SelectOverdue, ExpiryFails, vars
    <2> QED BY <2>1, RejectQuiet DEF Subject, Payload, eventVars, handlerVars
  <1> QED BY <1>1, <1>2, RejectRequests, RejectLock, RejectOutside DEF Next, HandlerStep

(* A payment undoes a rejection only in the window of one transaction: the   *)
(* request that does it has held the lock since the consultation waited for  *)
(* its payment. Any report that is locked later cannot, with or without the  *)
(* worker (applyWebhookPaymentState, paidAttemptWebhookConfirmationBlocker). *)
THEOREM RejectionWindow == Spec => RejectionUndoneOnlyInFlight
  <1>1. Init => RejectInv
    BY DEF Init, RejectInv, UnbornUnasked, SettlersReadWaiting
  <1>2. TypeOK /\ ReleaseInv /\ RejectInv /\ [Next]_vars => RejectInv'
    BY RejectStep
  <1>3. TypeOK /\ ReleaseInv /\ RejectInv /\ [Next]_vars => [RejectionOvertaken]_vars
    BY RejectStep
  <1> QED BY <1>1, <1>2, <1>3, ReleaseInvariant, PTL DEF Spec, RejectionUndoneOnlyInFlight

------------------------------------------------------------------------------
(* The reservation that no batch ends. *)

SettledUnreserved == \A a \in Attempts : receipt[a] # None => appointment[a] # "RESERVED"

SlotInv == SettledUnreserved /\ HeldSlotExplained

Reversed(a) ==
    \E r \in Rows : txn[r].attempt = a /\ txn[r].status \in {"REFUNDED", "DISPUTED"}

(* What a step does to one reservation. *)
SlotStep(b) ==
    \/ appointment'[b] # "RESERVED"
    \/ attempt'[b] = "PENDING" /\ receipt'[b] = None
    \/ /\ appointment'[b] = appointment[b] /\ attempt'[b] = attempt[b]
       /\ receipt'[b] = receipt[b]
    \/ Reversed(b)' /\ receipt'[b] = None

LEMMA ReversedStays ==
    ASSUME TypeOK, MoneyInv, [Next]_vars, NEW a \in Attempts, Reversed(a)
    PROVE  Reversed(a)'
  BY EvidenceStep DEF Reversed, EvidenceKept

(* Everything but the commits reserves only for a new attempt, and a batch   *)
(* releases what it expires.                                                 *)
LEMMA SlotOutside ==
    ASSUME TypeOK, MoneyInv, NEW b \in Attempts,
           \/ UNCHANGED attemptVars
           \/ \E a \in Attempts : \/ CreateCheckout(a) \/ Tick(a) \/ OfficeReject(a)
                                  \/ OfficeAssign(a) \/ OfficeReschedule(a)
           \/ \E s \in Sweepers \cup Workers : SweepExpire(s) \/ WorkerExpire(s)
    PROVE  SlotStep(b)
  <1> USE DEF TypeOK, AttemptsTypeOK
  <1>1. CASE UNCHANGED attemptVars
    BY <1>1 DEF SlotStep, attemptVars
  <1>2. ASSUME NEW a \in Attempts, CreateCheckout(a)
        PROVE  SlotStep(b)
    <2>1. receipt[a] = None
      BY <1>2 DEF CreateCheckout, MoneyInv, RowsInv, SettledOrExcused, Excused
    <2> QED BY <1>2, <2>1 DEF CreateCheckout, SlotStep
  <1>3. ASSUME NEW a \in Attempts,
               Tick(a) \/ OfficeReject(a) \/ OfficeAssign(a) \/ OfficeReschedule(a)
        PROVE  SlotStep(b)
    BY <1>3 DEF Tick, OfficeReject, OfficeAssign, OfficeReschedule, SlotStep
  <1>4. ASSUME NEW s \in Sweepers \cup Workers, SweepExpire(s) \/ WorkerExpire(s)
        PROVE  SlotStep(b)
    BY <1>4 DEF SweepExpire, WorkerExpire, Expire, SlotStep
  <1> QED BY <1>1, <1>2, <1>3, <1>4

(* The reversal of an open attempt without money leaves its evidence: no row *)
(* of the attempt is paid, so the report's row takes the report's status.    *)
LEMMA SlotReversal ==
    ASSUME TypeOK, MoneyInv, SlotInv, [Next]_vars, NEW h \in Handlers, NEW r \in Rows,
           ApplyReversal(h, r), NEW a \in Attempts, a = Subject(h)
    PROVE  SlotStep(a)
  <1>1. /\ stage[h] = "locked" /\ upsertPaymentTransaction(working[h], Payload(h), r)
        /\ appointment' = appointment /\ receipt' = receipt /\ IsReversal(h)
    BY DEF ApplyReversal
  <1>2. /\ working[h] \in Events /\ Payload(h) \in Payloads /\ Payload(h).attempt = a
        /\ attempt[a] # "NONE"
    BY <1>1, CommitFacts
  <1> SUFFICES ASSUME appointment[a] = "RESERVED"
               PROVE  Reversed(a)' /\ receipt[a] = None
    BY <1>1 DEF SlotStep
  <1>3. receipt[a] = None /\ Payload(h).status \in {"REFUNDED", "DISPUTED"}
    BY <1>1 DEF SlotInv, SettledUnreserved, IsReversal
  <1>4. CASE ~Open(a)
    <2>1. Reversed(a)
      BY <1>2, <1>4 DEF SlotInv, HeldSlotExplained, Reversed
    <2> QED BY <1>3, <2>1, ReversedStays
  <1>5. CASE Open(a)
    <2>1. /\ txn'[r].attempt = a
          /\ txn[r].paid => txn[r].attempt = a
      BY <1>1, <1>2, UpsertRow
    <2>2. ~txn[r].paid
      BY <1>3, <1>5, <2>1, NoneAssumption
      DEF MoneyInv, RowsInv, AccountedOrExcused, Excused, FlaggedClosed, Closed, Open, Rows,
          Unrecorded
    <2>3. txn'[r] = RowAfter(r, Payload(h)) /\ txn[r].status # "PAID"
      BY <1>1, <2>2
      DEF upsertPaymentTransaction, TypeOK, EventsTypeOK, MoneyInv, RowsInv, RowsSound
    <2>4. txn'[r].status \in {"REFUNDED", "DISPUTED"}
      BY <1>3, <2>2, <2>3 DEF RowAfter, preserveTransactionState, RowStatus, ReportsMoney
    <2> QED BY <1>3, <2>1, <2>4 DEF Reversed
  <1> QED BY <1>4, <1>5

LEMMA SlotCommit ==
    ASSUME TypeOK, MoneyInv, ReleaseInv, SlotInv, [Next]_vars,
           NEW h \in Handlers, NEW r \in Rows,
           \/ ApplyReview(h, r) \/ ApplySettlement(h, r) \/ ApplyRepeatedPaid(h, r)
           \/ ApplyReversal(h, r) \/ ApplyFailure(h, r) \/ ApplyPending(h, r),
           NEW a \in Attempts, a = Subject(h), NEW b \in Attempts
    PROVE  SlotStep(b)
  <1> USE DEF TypeOK, AttemptsTypeOK
  <1>1. CASE b # a
    <2>1. /\ attempt'[b] = attempt[b] /\ appointment'[b] = appointment[b]
          /\ receipt'[b] = receipt[b]
      BY <1>1 DEF ApplyReview, ApplySettlement, ApplyRepeatedPaid, ApplyReversal,
                  ApplyFailure, ApplyPending, releaseFailedAttempt
    <2> QED BY <2>1 DEF SlotStep
  <1>2. CASE b = a /\ (ApplyReview(h, r) \/ ApplyFailure(h, r))
    <2>1. appointment[a] = "RESERVED" => seen[h].appointment = "RESERVED"
      BY <1>2 DEF ApplyReview, ApplyFailure, ReleaseInv, LockedReadingCurrent
    <2> QED BY <1>2, <2>1 DEF ApplyReview, ApplyFailure, releaseFailedAttempt, SlotStep
  <1>3. CASE b = a /\ ApplySettlement(h, r)
    BY <1>3 DEF ApplySettlement, SlotStep
  <1>4. CASE b = a /\ (ApplyRepeatedPaid(h, r) \/ ApplyPending(h, r))
    BY <1>4 DEF ApplyRepeatedPaid, ApplyPending, SlotStep
  <1>5. CASE b = a /\ ApplyReversal(h, r)
    BY <1>5, SlotReversal
  <1> QED BY <1>1, <1>2, <1>3, <1>4, <1>5

LEMMA SlotKeeps ==
    ASSUME TypeOK, MoneyInv, ReleaseInv, SlotInv, [Next]_vars
    PROVE  SlotInv'
  <1>1. ASSUME NEW b \in Attempts PROVE SlotStep(b)
    <2>1. ASSUME NEW h \in Handlers, ApplyWebhook(h)
          PROVE  SlotStep(b)
      <3>1. PICK r \in Rows :
                \/ ApplyReview(h, r) \/ ApplySettlement(h, r) \/ ApplyRepeatedPaid(h, r)
                \/ ApplyReversal(h, r) \/ ApplyFailure(h, r) \/ ApplyPending(h, r)
        BY <2>1 DEF ApplyWebhook
      <3>2. stage[h] # "idle"
        BY <3>1 DEF ApplyReview, ApplySettlement, ApplyRepeatedPaid, ApplyReversal,
                    ApplyFailure, ApplyPending
      <3>3. PICK a \in Attempts : a = Subject(h)
        BY <3>2, WorkingTyped
      <3> QED BY <3>1, <3>3, SlotCommit
    <2>2. ASSUME \/ UNCHANGED vars
                 \/ \E h \in Handlers, e \in Events :
                        (\E p \in Payloads : ReceiveWebhook(h, e, p)) \/ MarkReplay(h, e)
                 \/ \E h \in Handlers : LockAttempt(h) \/ FindProcessed(h) \/ AbortApply(h)
                                         \/ RecordFailure(h) \/ Crash(h)
                 \/ \E s \in Sweepers \cup Workers : SelectOverdue(s) \/ ExpiryFails(s)
                 \/ \E e \in Events : CleanupEvent(e)
          PROVE  UNCHANGED attemptVars
      BY <2>2 DEF vars, ReceiveWebhook, MarkReplay, LockAttempt, FindProcessed, AbortApply,
                  RecordFailure, Crash, SelectOverdue, ExpiryFails, CleanupEvent
    <2> QED BY <2>1, <2>2, SlotOutside DEF Next, HandlerStep
  <1>2. ASSUME NEW a \in Attempts, Reversed(a) PROVE Reversed(a)'
    BY <1>2, ReversedStays
  <1>3. SettledUnreserved'
    BY <1>1 DEF SlotInv, SettledUnreserved, SlotStep
  <1>4. \A a \in Attempts : appointment'[a] = "RESERVED" /\ attempt'[a] \notin {"NONE", "PENDING"}
            => Reversed(a)'
    <2> SUFFICES ASSUME NEW a \in Attempts, appointment'[a] = "RESERVED",
                        attempt'[a] \notin {"NONE", "PENDING"}
                 PROVE  Reversed(a)'
      OBVIOUS
    <2>1. SlotStep(a)
      BY <1>1
    <2>2. CASE /\ appointment'[a] = appointment[a] /\ attempt'[a] = attempt[a]
      BY <1>2, <2>2 DEF SlotInv, HeldSlotExplained, Reversed, Open
    <2> QED BY <2>1, <2>2 DEF SlotStep
  <1> QED BY <1>3, <1>4 DEF SlotInv, HeldSlotExplained, Reversed, Open

(* A slot that stays reserved after its attempt has ended carries a refund   *)
(* or a dispute of money that never arrived here: nothing else withholds it  *)
(* from the batches, with or without the worker, and its evidence stays for  *)
(* whoever releases it (the reversal branch of applyWebhookPaymentState).    *)
THEOREM HeldSlotsExplained == Spec => []HeldSlotExplained
  <1>1. Init => SlotInv
    BY DEF Init, SlotInv, SettledUnreserved, HeldSlotExplained
  <1>2. TypeOK /\ MoneyInv /\ ReleaseInv /\ SlotInv /\ [Next]_vars => SlotInv'
    BY SlotKeeps
  <1>3. SlotInv => HeldSlotExplained
    BY DEF SlotInv
  <1> QED BY <1>1, <1>2, <1>3, MoneyInvariant, ReleaseInvariant, PTL DEF Spec
=============================================================================
