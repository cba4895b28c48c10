----------------------- MODULE ConsultationDeskProofs -----------------------
(***************************************************************************)
(* Safety of ConsultationDesk for every number of requests and lawyers and *)
(* every set of slots, and that its requests live by OutcomeLifecycle.     *)
(***************************************************************************)
EXTENDS ConsultationDesk, TLAPS

(* What a request r and its own appointment p are to each other at time t: *)
(* the strengthening that makes the row invariants inductive.              *)
HandledRow(r) == r.lawyer # None \/ r.reviewed

RowTyped(r, p) ==
  /\ r \in Request /\ p \in Appointment
  /\ p.status # "ABSENT" => p.slot \in Slots

RowAgrees(r, p, t) ==
  /\ r.outcome \in {"AWAITING_RESULT", "MISSED", "SUCCESSFUL", "NO_SHOW"} =>
       IF p.status # "ABSENT" THEN p.slot.end <= t ELSE r.status = "CONVERTED"
  /\ r.outcome = "MISSED" => ~HandledRow(r)

RowSupports(r, p) ==
  /\ r.status = "ABSENT" => p.status = "ABSENT" /\ r = NoRequest
  /\ r.status = "PAYMENT_PENDING" => p.status # "ABSENT"
  /\ r.session => r.status # "PAYMENT_PENDING" /\ p.status # "RESERVED"
  /\ r.session /\ r.status \in {"NEW", "REVIEWING"} => r.outcome = "PENDING" /\ p.status = "ABSENT"
  /\ p.status \in {"COMPLETED", "NO_SHOW"} => r.outcome \in FinalOutcomes
  /\ r.status = "CONVERTED" =>
       r.lawyer # None /\ (r.outcome = "PENDING" => p.status = "ABSENT")

RowOK(r, p, t) == RowTyped(r, p) /\ RowAgrees(r, p, t) /\ RowSupports(r, p)

Rows(c) == RowOK(request[c], appointment[Primary(c)], now)
RunInv == run.at <= now

(* Payment reports work on booked requests of the public form only.        *)
ReadingInv ==
  \A c \in Consultations :
    reading[c].request = "PAYMENT_PENDING" \/ reading[c].appointment = "RESERVED" =>
      appointment[Primary(c)].status # "ABSENT" /\ ~request[c].session

DeskInv ==
  /\ TypeOK
  /\ \A c \in Consultations : Rows(c)
  /\ RunInv
  /\ ReadingInv

(* ResultAgrees and LawyerAgrees, of one request and its appointment.      *)
ResultRow(r, p) ==
  r.outcome \in FinalOutcomes /\ p.status # "ABSENT" =>
    p.status \in ClosedStatuses /\ TerminalOutcome(p.status) = r.outcome
LawyerRow(r, p) ==
  p.status # "ABSENT" /\ r.status # "CONVERTED" => p.lawyer = r.lawyer

(* What a step that turns old and was into r and p leaves as it was.       *)
StaysBooked(old, was, r, p) ==
  /\ was.status # "ABSENT" => p.status # "ABSENT"
  /\ old.status # "ABSENT" => r.session = old.session
RowKeeps(old, was, r, p) ==
  /\ StaysBooked(old, was, r, p)
  /\ ResultRow(old, was) => ResultRow(r, p)
  /\ LawyerRow(old, was) => LawyerRow(r, p)

-----------------------------------------------------------------------------
(* A step that writes one request and its appointment keeps the others.    *)
LEMMA RowStep ==
    ASSUME TypeOK, \A c \in Consultations : Rows(c),
           NEW c \in Consultations, NEW r, NEW p,
           request' = [request EXCEPT ![c] = r],
           appointment' = [appointment EXCEPT ![Primary(c)] = p],
           now' = now,
           RowOK(r, p, now)
    PROVE  /\ \A d \in Consultations : Rows(d)'
           /\ request' \in [Consultations -> Request]
           /\ appointment' \in [Appointments -> Appointment]
           /\ \A a \in Appointments : appointment'[a].status # "ABSENT" => appointment'[a].slot \in Slots
  <1>1. \A d \in Consultations : Primary(d) \in Appointments /\ (Primary(d) = Primary(c) <=> d = c)
    BY DEF Primary, Appointments
  <1>2. /\ request' \in [Consultations -> Request]
        /\ appointment' \in [Appointments -> Appointment]
        /\ \A a \in Appointments : appointment'[a].status # "ABSENT" => appointment'[a].slot \in Slots
    BY <1>1 DEF TypeOK, RowOK, RowTyped
  <1>3. ASSUME NEW d \in Consultations
        PROVE  Rows(d)'
    <2>1. CASE d = c
      <3>1. request'[d] = r /\ appointment'[Primary(d)] = p
        BY <1>1, <2>1 DEF TypeOK
      <3> QED BY <3>1 DEF Rows
    <2>2. CASE d # c
      <3>1. request'[d] = request[d] /\ appointment'[Primary(d)] = appointment[Primary(d)]
        BY <1>1, <2>2 DEF TypeOK
      <3> QED BY <3>1 DEF Rows
    <2> QED BY <2>1, <2>2
  <1> QED BY <1>2, <1>3


(* The rows of a request, and that they are functions of their keys.        *)
LEMMA RowAt ==
    ASSUME DeskInv, NEW c \in Consultations
    PROVE  /\ RowOK(request[c], appointment[Primary(c)], now)
           /\ Primary(c) \in Appointments
           /\ appointment = [appointment EXCEPT ![Primary(c)] = appointment[Primary(c)]]
           /\ request = [request EXCEPT ![c] = request[c]]
           /\ now \in Nat
  BY DEF DeskInv, TypeOK, Rows, Primary, Appointments

(* What one step writes: request c becomes r and its appointment p.         *)
Writes(c, r, p) ==
  /\ request' = [request EXCEPT ![c] = r]
  /\ appointment' = [appointment EXCEPT ![Primary(c)] = p]
  /\ now' = now
  /\ RowOK(r, p, now)
  /\ StaysBooked(request[c], appointment[Primary(c)], r, p)
  /\ WritesLate(c) \/ RowKeeps(request[c], appointment[Primary(c)], r, p)
  /\ \/ WritesLate(c) /\ request[c].status = "CONVERTED"
     \/ LawyerRow(request[c], appointment[Primary(c)]) => LawyerRow(r, p)

LEMMA SubmitWrites ==
    ASSUME DeskInv, NEW c \in Consultations, SubmitRequest(c) \/ RequestCallback(c)
    PROVE  \E r, p : Writes(c, r, p)
  <1> DEFINE p == appointment[Primary(c)]
  <1>1. request[c].status = "ABSENT" /\ appointment' = appointment /\ now' = now
    BY DEF SubmitRequest, RequestCallback, Exists
  <1>2. PICK source \in Sources, session \in BOOLEAN, asked \in Slots \cup {None} :
          request' = [request EXCEPT ![c] = NewRequest("NEW", None, source, session, asked)]
    BY DEF SubmitRequest, RequestCallback, Sources
  <1> DEFINE r == NewRequest("NEW", None, source, session, asked)
  <1>3. RowOK(r, p, now)
    BY <1>1, RowAt DEF RowOK, RowTyped, RowAgrees, RowSupports, HandledRow, NewRequest, Request,
       ConsultationStatuses, Outcomes, FinalOutcomes, Sources
  <1>4. RowKeeps(request[c], p, r, p)
    BY <1>1, RowAt DEF RowOK, RowSupports, RowKeeps, StaysBooked, ResultRow, LawyerRow
  <1> QED BY <1>1, <1>2, <1>3, <1>4, RowAt DEF Writes, RowKeeps

LEMMA BookingWrites ==
    ASSUME DeskInv, NEW c \in Consultations, NEW s \in Slots,
           BookPublicly(c, s) \/ (\E l \in Lawyers : DirectBook(c, s, l))
    PROVE  \E r, p : Writes(c, r, p)
  <1>1. PICK status \in {"PAYMENT_PENDING", "SCHEDULED"}, l \in Lawyers \cup {None},
             source \in Sources, session \in BOOLEAN, asked \in Slots \cup {None} :
          /\ request' = [request EXCEPT ![c] = NewRequest(status, l, source, session, asked)]
          /\ appointment' = [appointment EXCEPT ![Primary(c)] = NewAppointment(
               IF status = "PAYMENT_PENDING" THEN "RESERVED" ELSE "SCHEDULED", s, l, "REQUEST")]
          /\ session => status = "SCHEDULED"
    <2>1. CASE BookPublicly(c, s)
      BY <2>1 DEF BookPublicly, Book, Sources
    <2>2. CASE \E l \in Lawyers : DirectBook(c, s, l)
      BY <2>2 DEF DirectBook, Book, Sources
    <2> QED BY <2>1, <2>2
  <1>2. now' = now /\ request[c].status = "ABSENT" /\ appointment[Primary(c)].status = "ABSENT"
    BY RowAt DEF BookPublicly, DirectBook, Exists, RowOK, RowSupports
  <1>3. RowOK(NewRequest(status, l, source, session, asked),
              NewAppointment(IF status = "PAYMENT_PENDING" THEN "RESERVED" ELSE "SCHEDULED",
                             s, l, "REQUEST"), now)
    BY <1>1 DEF RowOK, RowTyped, RowAgrees, RowSupports, HandledRow, NewRequest, Request,
       ConsultationStatuses, Outcomes, FinalOutcomes, Sources, NewAppointment, Appointment,
       ActiveStatuses, ClosedStatuses, Kinds
  <1> DEFINE r == NewRequest(status, l, source, session, asked)
             p == NewAppointment(IF status = "PAYMENT_PENDING" THEN "RESERVED" ELSE "SCHEDULED",
                                 s, l, "REQUEST")
  <1>4. p.status # "ABSENT" /\ p.lawyer = r.lawyer /\ r.outcome = "PENDING"
    BY DEF NewRequest, NewAppointment
  <1> HIDE DEF r, p
  <1>5. RowKeeps(request[c], appointment[Primary(c)], r, p)
    BY <1>2, <1>4 DEF RowKeeps, StaysBooked, ResultRow, LawyerRow, FinalOutcomes
  <1>6. RowOK(r, p, now)
    BY <1>3 DEF r, p
  <1>7. /\ request' = [request EXCEPT ![c] = r]
        /\ appointment' = [appointment EXCEPT ![Primary(c)] = p]
    BY <1>1 DEF r, p
  <1> QED BY <1>2, <1>5, <1>6, <1>7 DEF Writes, RowKeeps

LEMMA ConfirmWrites ==
    ASSUME DeskInv, NEW c \in Consultations, ConfirmPaid(c)
    PROVE  \E r, p : Writes(c, r, p)
  <1> DEFINE old == request[c]
             was == appointment[Primary(c)]
             r == [old EXCEPT !.status = "SCHEDULED"]
             p == [was EXCEPT !.status = "SCHEDULED"]
  <1>1. RowOK(old, was, now)
    BY RowAt
  <1>2. /\ old \in Request /\ was \in Appointment
        /\ was.status # "ABSENT" /\ was.slot \in Slots /\ ~old.session
        /\ old.status # "ABSENT"
    BY <1>1 DEF RowOK, RowTyped, RowSupports, DeskInv, ReadingInv, ConfirmPaid, Awaited
  <1>3. /\ r.status = "SCHEDULED" /\ r.outcome = old.outcome /\ r.version = old.version
        /\ r.lawyer = old.lawyer /\ r.reviewed = old.reviewed /\ r.session = old.session
        /\ p.status = "SCHEDULED" /\ p.slot = was.slot /\ p.lawyer = was.lawyer
    BY <1>2 DEF Request, Appointment
  <1>4. r \in Request /\ p \in Appointment
    BY <1>2 DEF Request, Appointment, ConsultationStatuses, ActiveStatuses
  <1>5. request' = [request EXCEPT ![c] = r] /\ appointment' = [appointment EXCEPT ![Primary(c)] = p]
    BY DEF ConfirmPaid, Close
  <1>6. now' = now
    BY DEF ConfirmPaid
  <1>7. WritesLate(c) \/ (old.status = "PAYMENT_PENDING" /\ was.status = "RESERVED")
    BY DEF WritesLate, Overtaken, ConfirmPaid, Awaited
  <1> HIDE DEF old, was, r, p
  <1>8. RowOK(r, p, now)
    BY <1>1, <1>2, <1>3, <1>4, DeskAssumption DEF RowOK, RowTyped, RowAgrees, RowSupports, HandledRow
  <1>9. StaysBooked(old, was, r, p)
    BY <1>3 DEF StaysBooked
  <1>10. old.status # "CONVERTED" => (LawyerRow(old, was) => LawyerRow(r, p))
    BY <1>2, <1>3 DEF LawyerRow
  <1>11. WritesLate(c) \/ RowKeeps(old, was, r, p)
    BY <1>2, <1>3, <1>7, <1>9, <1>10 DEF RowKeeps, ResultRow, ClosedStatuses, FinalOutcomes
  <1>12. \/ WritesLate(c) /\ old.status = "CONVERTED"
         \/ LawyerRow(old, was) => LawyerRow(r, p)
    BY <1>10, <1>11 DEF RowKeeps
  <1> QED BY <1>5, <1>6, <1>8, <1>9, <1>11, <1>12 DEF Writes, old, was

LEMMA ReleaseWrites ==
    ASSUME DeskInv, NEW c \in Consultations, ReleaseFailed(c) \/ ReleaseExpired(c)
    PROVE  \E r, p : Writes(c, r, p)
  <1> DEFINE old == request[c]
             was == appointment[Primary(c)]
             seen == IF ReleaseFailed(c) THEN reading[c]
                     ELSE [request |-> old.status, appointment |-> was.status]
             r == [old EXCEPT !.status = IF seen.request = "PAYMENT_PENDING" THEN "REVIEWING" ELSE @]
             p == [was EXCEPT !.status = IF seen.appointment = "RESERVED" THEN "CANCELLED" ELSE @]
  <1>1. RowOK(old, was, now)
    BY RowAt
  <1>2. old \in Request /\ was \in Appointment
    BY <1>1 DEF RowOK, RowTyped
  <1>3. seen.request = "PAYMENT_PENDING" \/ seen.appointment = "RESERVED" =>
          was.status # "ABSENT" /\ ~old.session
    BY <1>1 DEF RowOK, RowSupports, DeskInv, ReadingInv
  <1>4. /\ r.status = IF seen.request = "PAYMENT_PENDING" THEN "REVIEWING" ELSE old.status
        /\ r.outcome = old.outcome /\ r.version = old.version
        /\ r.lawyer = old.lawyer /\ r.reviewed = old.reviewed /\ r.session = old.session
        /\ p.status = IF seen.appointment = "RESERVED" THEN "CANCELLED" ELSE was.status
        /\ p.slot = was.slot /\ p.lawyer = was.lawyer
        /\ seen.request # "PAYMENT_PENDING" => r = old
    BY <1>2 DEF Request, Appointment
  <1>5. r \in Request /\ p \in Appointment
    BY <1>2 DEF Request, Appointment, ConsultationStatuses, ClosedStatuses
  <1>6. request' = [request EXCEPT ![c] = r] /\ appointment' = [appointment EXCEPT ![Primary(c)] = p]
    <2>1. CASE ReleaseFailed(c)
      BY <2>1 DEF ReleaseFailed
    <2>2. CASE ~ReleaseFailed(c)
      <3>1. ReleaseExpired(c)
        BY <2>2
      <3> QED BY <2>2, <3>1, RowAt DEF ReleaseExpired
    <2> QED BY <2>1, <2>2
  <1>7. now' = now
    BY DEF ReleaseFailed, ReleaseExpired
  <1>8. WritesLate(c) \/ (seen.request = old.status /\ seen.appointment = was.status)
    BY DEF WritesLate, Overtaken
  <1> HIDE DEF old, was, seen, r, p
  <1>9. RowOK(r, p, now)
    <2>1. RowTyped(r, p)
      BY <1>1, <1>3, <1>4, <1>5 DEF RowOK, RowTyped
    <2>2. RowAgrees(r, p, now)
      BY <1>1, <1>3, <1>4 DEF RowOK, RowAgrees, HandledRow
    <2>3. RowSupports(r, p)
      BY <1>1, <1>3, <1>4 DEF RowOK, RowSupports
    <2> QED BY <2>1, <2>2, <2>3 DEF RowOK
  <1>10. StaysBooked(old, was, r, p)
    BY <1>4 DEF StaysBooked
  <1>11. old.status # "CONVERTED" => (LawyerRow(old, was) => LawyerRow(r, p))
    BY <1>3, <1>4 DEF LawyerRow
  <1>12. WritesLate(c) \/ RowKeeps(old, was, r, p)
    <2>1. CASE seen.request = old.status /\ seen.appointment = was.status
      BY <1>1, <1>3, <1>4, <1>10, <2>1 DEF RowKeeps, ResultRow, LawyerRow, ClosedStatuses, FinalOutcomes
    <2> QED BY <1>8, <2>1
  <1>13. \/ WritesLate(c) /\ old.status = "CONVERTED"
         \/ LawyerRow(old, was) => LawyerRow(r, p)
    BY <1>11, <1>12 DEF RowKeeps
  <1> QED BY <1>6, <1>7, <1>9, <1>10, <1>12, <1>13 DEF Writes, old, was

LEMMA RescheduleWrites ==
    ASSUME DeskInv, NEW c \in Consultations, NEW s \in Slots, NEW l \in Lawyers,
           DirectReschedule(c, s, l)
    PROVE  \E r, p : Writes(c, r, p)
  <1> DEFINE old == request[c]
             was == appointment[Primary(c)]
             r == [old EXCEPT !.lawyer = l, !.asked = s, !.version = @ + 1]
             p == [was EXCEPT !.status = "RESCHEDULED", !.slot = s, !.lawyer = l]
  <1>1. RowOK(old, was, now)
    BY RowAt
  <1>2. /\ old \in Request /\ old.version + 1 \in Nat
        /\ was \in Appointment /\ (was.status # "ABSENT" => was.slot \in Slots)
    BY <1>1 DEF RowOK, RowTyped, Request
  <1>3. old.outcome = "PENDING" /\ was.status \in {"SCHEDULED", "RESCHEDULED"}
    BY <1>1, <1>2, RowAt, DeskAssumption DEF DirectReschedule, Editable
  <1>4. /\ r.status = old.status /\ r.outcome = old.outcome /\ r.version = old.version + 1 /\ r.lawyer = l
        /\ r.reviewed = old.reviewed /\ r.source = old.source /\ r.session = old.session /\ r.asked = s
        /\ p.status = "RESCHEDULED" /\ p.slot = s /\ p.lawyer = l /\ p.kind = was.kind
    BY <1>2 DEF Request, Appointment
  <1>5. r \in Request
    BY <1>2, <1>3, <1>4 DEF Request
  <1>6. p \in Appointment
    BY <1>2, <1>3 DEF Appointment, ActiveStatuses, ClosedStatuses, FinalOutcomes, Kinds
  <1>7. request' = [request EXCEPT ![c] = r]
    BY <1>2, RowAt DEF DirectReschedule, Move
  <1>8. appointment' = [appointment EXCEPT ![Primary(c)] = p] /\ now' = now
    BY <1>2, RowAt DEF DirectReschedule, Move
  <1> HIDE DEF old, was, r, p
  <1>9. RowAgrees(r, p, now)
    BY <1>1, <1>2, <1>3, <1>4, RowAt, DeskAssumption DEF RowOK, RowAgrees, RowSupports, HandledRow,
       FinalOutcomes, ActiveStatuses, ClosedStatuses, TerminalOutcome
  <1>10. RowSupports(r, p)
    BY <1>1, <1>2, <1>3, <1>4, RowAt, DeskAssumption DEF RowOK, RowAgrees, RowSupports, HandledRow,
       FinalOutcomes, ActiveStatuses, ClosedStatuses, TerminalOutcome
  <1>11. p.status # "ABSENT" => p.slot \in Slots
    BY <1>2, <1>3, <1>4
  <1>12. RowKeeps(old, was, r, p)
    BY <1>1, <1>2, <1>3, <1>4, RowAt, DeskAssumption DEF RowOK, RowAgrees, RowSupports, RowKeeps,
       StaysBooked, ResultRow, LawyerRow, FinalOutcomes, ActiveStatuses, ClosedStatuses, TerminalOutcome
  <1> QED BY <1>5, <1>6, <1>7, <1>8, <1>9, <1>10, <1>11, <1>12
          DEF Writes, RowOK, RowTyped, RowKeeps, old, was

LEMMA CancelWrites ==
    ASSUME DeskInv, NEW c \in Consultations,
           DirectCancel(c)
    PROVE  \E r, p : Writes(c, r, p)
  <1> DEFINE old == request[c]
             was == appointment[Primary(c)]
             r == [old EXCEPT !.status = "REJECTED", !.outcome = "CANCELLED", !.version = @ + 1]
             p == [was EXCEPT !.status = "CANCELLED"]
  <1>1. RowOK(old, was, now)
    BY RowAt
  <1>2. /\ old \in Request /\ old.version + 1 \in Nat
        /\ was \in Appointment /\ (was.status # "ABSENT" => was.slot \in Slots)
    BY <1>1 DEF RowOK, RowTyped, Request
  <1>3. old.outcome = "PENDING" /\ was.status \in {"SCHEDULED", "RESCHEDULED"}
    BY <1>1, <1>2, RowAt, DeskAssumption DEF DirectCancel, Editable
  <1>4. /\ r.status = "REJECTED" /\ r.outcome = "CANCELLED" /\ r.version = old.version + 1 /\ r.lawyer = old.lawyer
        /\ r.reviewed = old.reviewed /\ r.source = old.source /\ r.session = old.session /\ r.asked = old.asked
        /\ p.status = "CANCELLED" /\ p.slot = was.slot /\ p.lawyer = was.lawyer /\ p.kind = was.kind
    BY <1>2 DEF Request, Appointment
  <1>5. r \in Request
    BY <1>2, <1>3, <1>4 DEF Request, ConsultationStatuses, Outcomes, FinalOutcomes, ClosedStatuses, TerminalOutcome
  <1>6. p \in Appointment
    BY <1>2, <1>3 DEF Appointment, ActiveStatuses, ClosedStatuses, FinalOutcomes, Kinds
  <1>7. request' = [request EXCEPT ![c] = r]
    BY <1>2, RowAt DEF DirectCancel, Close
  <1>8. appointment' = [appointment EXCEPT ![Primary(c)] = p] /\ now' = now
    BY <1>2, RowAt DEF DirectCancel, Close
  <1> HIDE DEF old, was, r, p
  <1>9. RowAgrees(r, p, now)
    BY <1>1, <1>2, <1>3, <1>4, RowAt, DeskAssumption DEF RowOK, RowAgrees, RowSupports, HandledRow,
       FinalOutcomes, ActiveStatuses, ClosedStatuses, TerminalOutcome
  <1>10. RowSupports(r, p)
    BY <1>1, <1>2, <1>3, <1>4, RowAt, DeskAssumption DEF RowOK, RowAgrees, RowSupports, HandledRow,
       FinalOutcomes, ActiveStatuses, ClosedStatuses, TerminalOutcome
  <1>11. p.status # "ABSENT" => p.slot \in Slots
    BY <1>2, <1>3, <1>4
  <1>12. RowKeeps(old, was, r, p)
    BY <1>1, <1>2, <1>3, <1>4, RowAt, DeskAssumption DEF RowOK, RowAgrees, RowSupports, RowKeeps,
       StaysBooked, ResultRow, LawyerRow, FinalOutcomes, ActiveStatuses, ClosedStatuses, TerminalOutcome
  <1> QED BY <1>5, <1>6, <1>7, <1>8, <1>9, <1>10, <1>11, <1>12
          DEF Writes, RowOK, RowTyped, RowKeeps, old, was

LEMMA AlternativeWrites ==
    ASSUME DeskInv, NEW c \in Consultations, NEW s \in Slots, NEW seen \in Versions,
           RequestAlternativeTime(c, s, seen)
    PROVE  \E r, p : Writes(c, r, p)
  <1> DEFINE old == request[c]
             was == appointment[Primary(c)]
             r == [old EXCEPT !.asked = s, !.version = @ + 1]
             p == was
  <1>1. RowOK(old, was, now)
    BY RowAt
  <1>2. /\ old \in Request /\ old.version + 1 \in Nat
        /\ was \in Appointment /\ (was.status # "ABSENT" => was.slot \in Slots)
    BY <1>1 DEF RowOK, RowTyped, Request
  <1>3. old.session /\ old.status \in {"NEW", "REVIEWING"}
    BY <1>1, <1>2, RowAt, DeskAssumption DEF RequestAlternativeTime
  <1>4. /\ r.status = old.status /\ r.outcome = old.outcome /\ r.version = old.version + 1 /\ r.lawyer = old.lawyer
        /\ r.reviewed = old.reviewed /\ r.source = old.source /\ r.session = old.session /\ r.asked = s
        /\ p = was
    BY <1>2 DEF Request, Appointment
  <1>5. r \in Request
    BY <1>2, <1>3, <1>4 DEF Request
  <1>6. p \in Appointment
    BY <1>2, <1>3 DEF Appointment, ActiveStatuses, ClosedStatuses, FinalOutcomes, Kinds
  <1>7. request' = [request EXCEPT ![c] = r]
    BY <1>2, RowAt DEF RequestAlternativeTime
  <1>8. appointment' = [appointment EXCEPT ![Primary(c)] = p] /\ now' = now
    BY <1>2, RowAt DEF RequestAlternativeTime
  <1> HIDE DEF old, was, r, p
  <1>9. RowAgrees(r, p, now)
    BY <1>1, <1>2, <1>3, <1>4, RowAt, DeskAssumption DEF RowOK, RowAgrees, RowSupports, HandledRow,
       FinalOutcomes, ActiveStatuses, ClosedStatuses, TerminalOutcome
  <1>10. RowSupports(r, p)
    BY <1>1, <1>2, <1>3, <1>4, RowAt, DeskAssumption DEF RowOK, RowAgrees, RowSupports, HandledRow,
       FinalOutcomes, ActiveStatuses, ClosedStatuses, TerminalOutcome
  <1>11. p.status # "ABSENT" => p.slot \in Slots
    BY <1>2, <1>3, <1>4
  <1>12. RowKeeps(old, was, r, p)
    BY <1>1, <1>2, <1>3, <1>4, RowAt, DeskAssumption DEF RowOK, RowAgrees, RowSupports, RowKeeps,
       StaysBooked, ResultRow, LawyerRow, FinalOutcomes, ActiveStatuses, ClosedStatuses, TerminalOutcome
  <1> QED BY <1>5, <1>6, <1>7, <1>8, <1>9, <1>10, <1>11, <1>12
          DEF Writes, RowOK, RowTyped, RowKeeps, old, was

LEMMA ScheduleWrites ==
    ASSUME DeskInv, NEW c \in Consultations, NEW s \in Slots, NEW l \in Lawyers, NEW seen \in Versions,
           Schedule(c, s, l, seen)
    PROVE  \E r, p : Writes(c, r, p)
  <1> DEFINE old == request[c]
             was == appointment[Primary(c)]
             r == [old EXCEPT !.status = "SCHEDULED", !.lawyer = l, !.reviewed = TRUE, !.version = @ + 1]
             p == NewAppointment("SCHEDULED", s, l, "REQUEST")
  <1>1. RowOK(old, was, now)
    BY RowAt
  <1>2. /\ old \in Request /\ old.version + 1 \in Nat
        /\ was \in Appointment /\ (was.status # "ABSENT" => was.slot \in Slots)
    BY <1>1 DEF RowOK, RowTyped, Request
  <1>3. old.outcome = "PENDING" /\ old.status # "ABSENT"
    BY <1>1, <1>2, RowAt, DeskAssumption DEF Schedule
  <1>4. /\ r.status = "SCHEDULED" /\ r.outcome = old.outcome /\ r.version = old.version + 1 /\ r.lawyer = l
        /\ r.reviewed = TRUE /\ r.source = old.source /\ r.session = old.session /\ r.asked = old.asked
        /\ p.status = "SCHEDULED" /\ p.slot = s /\ p.lawyer = l /\ p.kind = "REQUEST"
    BY <1>2 DEF Request, Appointment, NewAppointment
  <1>5. r \in Request
    BY <1>2, <1>3, <1>4 DEF Request, ConsultationStatuses
  <1>6. p \in Appointment
    BY <1>2, <1>3 DEF Appointment, ActiveStatuses, ClosedStatuses, FinalOutcomes, Kinds, NewAppointment
  <1>7. request' = [request EXCEPT ![c] = r]
    BY <1>2, RowAt DEF Schedule, Book
  <1>8. appointment' = [appointment EXCEPT ![Primary(c)] = p] /\ now' = now
    BY <1>2, RowAt DEF Schedule, Book
  <1> HIDE DEF old, was, r, p
  <1>9. RowAgrees(r, p, now)
    BY <1>1, <1>2, <1>3, <1>4, RowAt, DeskAssumption DEF RowOK, RowAgrees, RowSupports, HandledRow,
       FinalOutcomes, ActiveStatuses, ClosedStatuses, TerminalOutcome
  <1>10. RowSupports(r, p)
    BY <1>1, <1>2, <1>3, <1>4, RowAt, DeskAssumption DEF RowOK, RowAgrees, RowSupports, HandledRow,
       FinalOutcomes, ActiveStatuses, ClosedStatuses, TerminalOutcome
  <1>11. p.status # "ABSENT" => p.slot \in Slots
    BY <1>2, <1>3, <1>4
  <1>12. RowKeeps(old, was, r, p)
    BY <1>1, <1>2, <1>3, <1>4, RowAt, DeskAssumption DEF RowOK, RowAgrees, RowSupports, RowKeeps,
       StaysBooked, ResultRow, LawyerRow, FinalOutcomes, ActiveStatuses, ClosedStatuses, TerminalOutcome
  <1> QED BY <1>5, <1>6, <1>7, <1>8, <1>9, <1>10, <1>11, <1>12
          DEF Writes, RowOK, RowTyped, RowKeeps, old, was

LEMMA AssignWrites ==
    ASSUME DeskInv, NEW c \in Consultations, NEW l \in Lawyers,
           Assign(c, l)
    PROVE  \E r, p : Writes(c, r, p)
  <1> DEFINE old == request[c]
             was == appointment[Primary(c)]
             r == [old EXCEPT !.lawyer = l, !.status = (IF @ = "SCHEDULED" THEN @ ELSE "REVIEWING"), !.reviewed = (@ \/ old.status = "SCHEDULED")]
             p == [was EXCEPT !.lawyer = (IF was.status # "ABSENT" THEN l ELSE @)]
  <1>1. RowOK(old, was, now)
    BY RowAt
  <1>2. /\ old \in Request /\ old.version + 1 \in Nat
        /\ was \in Appointment /\ (was.status # "ABSENT" => was.slot \in Slots)
    BY <1>1 DEF RowOK, RowTyped, Request
  <1>3. old.outcome \in {"PENDING", "AWAITING_RESULT"} /\ old.status \in {"NEW", "REVIEWING", "PAYMENT_PENDING", "SCHEDULED"}
    BY <1>1, <1>2, RowAt, DeskAssumption DEF Assign, Mutable
  <1>4. /\ r.status = (IF old.status = "SCHEDULED" THEN old.status ELSE "REVIEWING") /\ r.outcome = old.outcome /\ r.version = old.version /\ r.lawyer = l
        /\ r.reviewed = (old.reviewed \/ old.status = "SCHEDULED") /\ r.source = old.source /\ r.session = old.session /\ r.asked = old.asked
        /\ p.status = was.status /\ p.slot = was.slot /\ p.lawyer = (IF was.status # "ABSENT" THEN l ELSE was.lawyer) /\ p.kind = was.kind
    BY <1>2 DEF Request, Appointment
  <1>5. r \in Request
    BY <1>2, <1>3, <1>4 DEF Request, ConsultationStatuses
  <1>6. p \in Appointment
    BY <1>2, <1>3 DEF Appointment, ActiveStatuses, ClosedStatuses, FinalOutcomes, Kinds
  <1>7. request' = [request EXCEPT ![c] = r]
    BY <1>2, RowAt DEF Assign, Booked
  <1>8. appointment' = [appointment EXCEPT ![Primary(c)] = p] /\ now' = now
    BY <1>2, RowAt DEF Assign, Booked
  <1> HIDE DEF old, was, r, p
  <1>9. RowAgrees(r, p, now)
    BY <1>1, <1>2, <1>3, <1>4, RowAt, DeskAssumption DEF RowOK, RowAgrees, RowSupports, HandledRow,
       FinalOutcomes, ActiveStatuses, ClosedStatuses, TerminalOutcome
  <1>10. RowSupports(r, p)
    BY <1>1, <1>2, <1>3, <1>4, RowAt, DeskAssumption DEF RowOK, RowAgrees, RowSupports, HandledRow,
       FinalOutcomes, ActiveStatuses, ClosedStatuses, TerminalOutcome
  <1>11. p.status # "ABSENT" => p.slot \in Slots
    BY <1>2, <1>3, <1>4
  <1>12. RowKeeps(old, was, r, p)
    BY <1>1, <1>2, <1>3, <1>4, RowAt, DeskAssumption DEF RowOK, RowAgrees, RowSupports, RowKeeps,
       StaysBooked, ResultRow, LawyerRow, FinalOutcomes, ActiveStatuses, ClosedStatuses, TerminalOutcome
  <1> QED BY <1>5, <1>6, <1>7, <1>8, <1>9, <1>10, <1>11, <1>12
          DEF Writes, RowOK, RowTyped, RowKeeps, old, was

LEMMA ReviewWrites ==
    ASSUME DeskInv, NEW c \in Consultations,
           Review(c)
    PROVE  \E r, p : Writes(c, r, p)
  <1> DEFINE old == request[c]
             was == appointment[Primary(c)]
             r == [old EXCEPT !.reviewed = TRUE]
             p == was
  <1>1. RowOK(old, was, now)
    BY RowAt
  <1>2. /\ old \in Request /\ old.version + 1 \in Nat
        /\ was \in Appointment /\ (was.status # "ABSENT" => was.slot \in Slots)
    BY <1>1 DEF RowOK, RowTyped, Request
  <1>3. old.outcome # "MISSED" /\ old.status # "ABSENT"
    BY <1>1, <1>2, RowAt, DeskAssumption DEF Review, Mutable
  <1>4. /\ r.status = old.status /\ r.outcome = old.outcome /\ r.version = old.version /\ r.lawyer = old.lawyer
        /\ r.reviewed = TRUE /\ r.source = old.source /\ r.session = old.session /\ r.asked = old.asked
        /\ p = was
    BY <1>2 DEF Request, Appointment
  <1>5. r \in Request
    BY <1>2, <1>3, <1>4 DEF Request
  <1>6. p \in Appointment
    BY <1>2, <1>3 DEF Appointment, ActiveStatuses, ClosedStatuses, FinalOutcomes, Kinds
  <1>7. request' = [request EXCEPT ![c] = r]
    BY <1>2, RowAt DEF Review
  <1>8. appointment' = [appointment EXCEPT ![Primary(c)] = p] /\ now' = now
    BY <1>2, RowAt DEF Review
  <1> HIDE DEF old, was, r, p
  <1>9. RowAgrees(r, p, now)
    BY <1>1, <1>2, <1>3, <1>4, RowAt, DeskAssumption DEF RowOK, RowAgrees, RowSupports, HandledRow,
       FinalOutcomes, ActiveStatuses, ClosedStatuses, TerminalOutcome
  <1>10. RowSupports(r, p)
    BY <1>1, <1>2, <1>3, <1>4, RowAt, DeskAssumption DEF RowOK, RowAgrees, RowSupports, HandledRow,
       FinalOutcomes, ActiveStatuses, ClosedStatuses, TerminalOutcome
  <1>11. p.status # "ABSENT" => p.slot \in Slots
    BY <1>2, <1>3, <1>4
  <1>12. RowKeeps(old, was, r, p)
    BY <1>1, <1>2, <1>3, <1>4, RowAt, DeskAssumption DEF RowOK, RowAgrees, RowSupports, RowKeeps,
       StaysBooked, ResultRow, LawyerRow, FinalOutcomes, ActiveStatuses, ClosedStatuses, TerminalOutcome
  <1> QED BY <1>5, <1>6, <1>7, <1>8, <1>9, <1>10, <1>11, <1>12
          DEF Writes, RowOK, RowTyped, RowKeeps, old, was

LEMMA RejectWrites ==
    ASSUME DeskInv, NEW c \in Consultations,
           Reject(c)
    PROVE  \E r, p : Writes(c, r, p)
  <1> DEFINE old == request[c]
             was == appointment[Primary(c)]
             r == [old EXCEPT !.status = "REJECTED", !.outcome = "CANCELLED", !.version = @ + 1]
             p == [was EXCEPT !.status = (IF was.status # "ABSENT" THEN "CANCELLED" ELSE @)]
  <1>1. RowOK(old, was, now)
    BY RowAt
  <1>2. /\ old \in Request /\ old.version + 1 \in Nat
        /\ was \in Appointment /\ (was.status # "ABSENT" => was.slot \in Slots)
    BY <1>1 DEF RowOK, RowTyped, Request
  <1>3. old.outcome \in {"PENDING", "AWAITING_RESULT"} /\ old.status \in {"NEW", "REVIEWING", "PAYMENT_PENDING", "SCHEDULED"}
    BY <1>1, <1>2, RowAt, DeskAssumption DEF Reject
  <1>4. /\ r.status = "REJECTED" /\ r.outcome = "CANCELLED" /\ r.version = old.version + 1 /\ r.lawyer = old.lawyer
        /\ r.reviewed = old.reviewed /\ r.source = old.source /\ r.session = old.session /\ r.asked = old.asked
        /\ p.status = (IF was.status # "ABSENT" THEN "CANCELLED" ELSE was.status) /\ p.slot = was.slot /\ p.lawyer = was.lawyer /\ p.kind = was.kind
    BY <1>2 DEF Request, Appointment
  <1>5. r \in Request
    BY <1>2, <1>3, <1>4 DEF Request, ConsultationStatuses, Outcomes, FinalOutcomes, ClosedStatuses, TerminalOutcome
  <1>6. p \in Appointment
    BY <1>2, <1>3 DEF Appointment, ActiveStatuses, ClosedStatuses, FinalOutcomes, Kinds
  <1>7. request' = [request EXCEPT ![c] = r]
    BY <1>2, RowAt DEF Reject, Booked
  <1>8. appointment' = [appointment EXCEPT ![Primary(c)] = p] /\ now' = now
    BY <1>2, RowAt DEF Reject, Booked
  <1> HIDE DEF old, was, r, p
  <1>9. RowAgrees(r, p, now)
    BY <1>1, <1>2, <1>3, <1>4, RowAt, DeskAssumption DEF RowOK, RowAgrees, RowSupports, HandledRow,
       FinalOutcomes, ActiveStatuses, ClosedStatuses, TerminalOutcome
  <1>10. RowSupports(r, p)
    BY <1>1, <1>2, <1>3, <1>4, RowAt, DeskAssumption DEF RowOK, RowAgrees, RowSupports, HandledRow,
       FinalOutcomes, ActiveStatuses, ClosedStatuses, TerminalOutcome
  <1>11. p.status # "ABSENT" => p.slot \in Slots
    BY <1>2, <1>3, <1>4
  <1>12. RowKeeps(old, was, r, p)
    BY <1>1, <1>2, <1>3, <1>4, RowAt, DeskAssumption DEF RowOK, RowAgrees, RowSupports, RowKeeps,
       StaysBooked, ResultRow, LawyerRow, FinalOutcomes, ActiveStatuses, ClosedStatuses, TerminalOutcome
  <1> QED BY <1>5, <1>6, <1>7, <1>8, <1>9, <1>10, <1>11, <1>12
          DEF Writes, RowOK, RowTyped, RowKeeps, old, was

LEMMA OutcomeWrites ==
    ASSUME DeskInv, NEW c \in Consultations, NEW outcome \in FinalOutcomes, NEW seen \in Versions, NEW asOf \in Recent,
           SetOutcome(c, outcome, seen, asOf)
    PROVE  \E r, p : Writes(c, r, p)
  <1> DEFINE old == request[c]
             was == appointment[Primary(c)]
             r == [old EXCEPT !.outcome = outcome, !.version = @ + 1]
             p == [was EXCEPT !.status = (IF was.status = "ABSENT" THEN @ ELSE IF outcome = "SUCCESSFUL" THEN "COMPLETED" ELSE outcome)]
  <1>1. RowOK(old, was, now)
    BY RowAt
  <1>2. /\ old \in Request /\ old.version + 1 \in Nat
        /\ was \in Appointment /\ (was.status # "ABSENT" => was.slot \in Slots)
    BY <1>1 DEF RowOK, RowTyped, Request
  <1>3. /\ old.status # "ABSENT"
        /\ IF was.status # "ABSENT" THEN was.slot.end <= asOf ELSE old.status = "CONVERTED"
        /\ asOf \in Nat /\ asOf <= now /\ (was.slot \in Slots => was.slot.end \in Nat)
    BY <1>1, <1>2, RowAt, DeskAssumption DEF SetOutcome, Exists, Booked, Ended, Recent, DeskInv, TypeOK
  <1>4. /\ r.status = old.status /\ r.outcome = outcome /\ r.version = old.version + 1 /\ r.lawyer = old.lawyer
        /\ r.reviewed = old.reviewed /\ r.source = old.source /\ r.session = old.session /\ r.asked = old.asked
        /\ p.status = (IF was.status = "ABSENT" THEN was.status ELSE IF outcome = "SUCCESSFUL" THEN "COMPLETED" ELSE outcome) /\ p.slot = was.slot /\ p.lawyer = was.lawyer /\ p.kind = was.kind
    BY <1>2 DEF Request, Appointment
  <1>5. r \in Request
    BY <1>2, <1>3, <1>4 DEF Request, Outcomes, FinalOutcomes, ClosedStatuses, TerminalOutcome
  <1>6. p \in Appointment
    BY <1>2, <1>3 DEF Appointment, ActiveStatuses, ClosedStatuses, FinalOutcomes, Kinds
  <1>7. request' = [request EXCEPT ![c] = r]
    BY <1>2, RowAt DEF SetOutcome, Booked
  <1>8. appointment' = [appointment EXCEPT ![Primary(c)] = p] /\ now' = now
    BY <1>2, RowAt DEF SetOutcome, Booked
  <1> HIDE DEF old, was, r, p
  <1>9. RowAgrees(r, p, now)
    BY <1>1, <1>2, <1>3, <1>4, RowAt, DeskAssumption DEF RowOK, RowAgrees, RowSupports, HandledRow,
       FinalOutcomes, ActiveStatuses, ClosedStatuses, TerminalOutcome
  <1>10. RowSupports(r, p)
    BY <1>1, <1>2, <1>3, <1>4, RowAt, DeskAssumption DEF RowOK, RowAgrees, RowSupports, HandledRow,
       FinalOutcomes, ActiveStatuses, ClosedStatuses, TerminalOutcome
  <1>11. p.status # "ABSENT" => p.slot \in Slots
    BY <1>2, <1>3, <1>4
  <1>12. RowKeeps(old, was, r, p)
    BY <1>1, <1>2, <1>3, <1>4, RowAt, DeskAssumption DEF RowOK, RowAgrees, RowSupports, RowKeeps,
       StaysBooked, ResultRow, LawyerRow, FinalOutcomes, ActiveStatuses, ClosedStatuses, TerminalOutcome
  <1> QED BY <1>5, <1>6, <1>7, <1>8, <1>9, <1>10, <1>11, <1>12
          DEF Writes, RowOK, RowTyped, RowKeeps, old, was

LEMMA ReopenWrites ==
    ASSUME DeskInv, NEW c \in Consultations, NEW s \in Slots, NEW l \in Lawyers, NEW seen \in Versions, NEW asOf \in Recent,
           Reopen(c, s, l, seen, asOf)
    PROVE  \E r, p : Writes(c, r, p)
  <1> DEFINE old == request[c]
             was == appointment[Primary(c)]
             r == [old EXCEPT !.lawyer = l, !.reviewed = TRUE, !.outcome = "PENDING", !.version = @ + 1]
             p == [was EXCEPT !.status = "RESCHEDULED", !.slot = s, !.lawyer = l]
  <1>1. RowOK(old, was, now)
    BY RowAt
  <1>2. /\ old \in Request /\ old.version + 1 \in Nat
        /\ was \in Appointment /\ (was.status # "ABSENT" => was.slot \in Slots)
    BY <1>1 DEF RowOK, RowTyped, Request
  <1>3. old.outcome = "MISSED" /\ was.status # "ABSENT"
    BY <1>1, <1>2, RowAt, DeskAssumption DEF Reopen, Booked
  <1>4. /\ r.status = old.status /\ r.outcome = "PENDING" /\ r.version = old.version + 1 /\ r.lawyer = l
        /\ r.reviewed = TRUE /\ r.source = old.source /\ r.session = old.session /\ r.asked = old.asked
        /\ p.status = "RESCHEDULED" /\ p.slot = s /\ p.lawyer = l /\ p.kind = was.kind
    BY <1>2 DEF Request, Appointment
  <1>5. r \in Request
    BY <1>2, <1>3, <1>4 DEF Request, Outcomes, FinalOutcomes, ClosedStatuses, TerminalOutcome
  <1>6. p \in Appointment
    BY <1>2, <1>3 DEF Appointment, ActiveStatuses, ClosedStatuses, FinalOutcomes, Kinds
  <1>7. request' = [request EXCEPT ![c] = r]
    BY <1>2, RowAt DEF Reopen, Move
  <1>8. appointment' = [appointment EXCEPT ![Primary(c)] = p] /\ now' = now
    BY <1>2, RowAt DEF Reopen, Move
  <1> HIDE DEF old, was, r, p
  <1>9. RowAgrees(r, p, now)
    BY <1>1, <1>2, <1>3, <1>4, RowAt, DeskAssumption DEF RowOK, RowAgrees, RowSupports, HandledRow,
       FinalOutcomes, ActiveStatuses, ClosedStatuses, TerminalOutcome
  <1>10. RowSupports(r, p)
    BY <1>1, <1>2, <1>3, <1>4, RowAt, DeskAssumption DEF RowOK, RowAgrees, RowSupports, HandledRow,
       FinalOutcomes, ActiveStatuses, ClosedStatuses, TerminalOutcome
  <1>11. p.status # "ABSENT" => p.slot \in Slots
    BY <1>2, <1>3, <1>4
  <1>12. RowKeeps(old, was, r, p)
    BY <1>1, <1>2, <1>3, <1>4, RowAt, DeskAssumption DEF RowOK, RowAgrees, RowSupports, RowKeeps,
       StaysBooked, ResultRow, LawyerRow, FinalOutcomes, ActiveStatuses, ClosedStatuses, TerminalOutcome
  <1> QED BY <1>5, <1>6, <1>7, <1>8, <1>9, <1>10, <1>11, <1>12
          DEF Writes, RowOK, RowTyped, RowKeeps, old, was

LEMMA MoveWrites ==
    ASSUME DeskInv, NEW c \in Consultations, NEW s \in Slots,
           CalendarReschedule(Primary(c), s)
    PROVE  \E r, p : Writes(c, r, p)
  <1> DEFINE old == request[c]
             was == appointment[Primary(c)]
             r == old
             p == [was EXCEPT !.status = "RESCHEDULED", !.slot = s]
  <1>1. RowOK(old, was, now)
    BY RowAt
  <1>2. /\ old \in Request /\ old.version + 1 \in Nat
        /\ was \in Appointment /\ (was.status # "ABSENT" => was.slot \in Slots)
    BY <1>1 DEF RowOK, RowTyped, Request
  <1>3. old.outcome = "PENDING" /\ was.status \in ActiveStatuses
    BY <1>1, <1>2, RowAt, DeskAssumption DEF CalendarReschedule, Primary, Active
  <1>4. /\ r = old
        /\ p.status = "RESCHEDULED" /\ p.slot = s /\ p.lawyer = was.lawyer /\ p.kind = was.kind
    BY <1>2 DEF Request, Appointment
  <1>5. r \in Request
    BY <1>2, <1>3, <1>4 DEF Request
  <1>6. p \in Appointment
    BY <1>2, <1>3 DEF Appointment, ActiveStatuses, ClosedStatuses, FinalOutcomes, Kinds
  <1>7. request' = [request EXCEPT ![c] = r]
    BY <1>2, RowAt DEF CalendarReschedule, Move
  <1>8. appointment' = [appointment EXCEPT ![Primary(c)] = p] /\ now' = now
    BY <1>2, RowAt DEF CalendarReschedule, Move
  <1> HIDE DEF old, was, r, p
  <1>9. RowAgrees(r, p, now)
    BY <1>1, <1>2, <1>3, <1>4, RowAt, DeskAssumption DEF RowOK, RowAgrees, RowSupports, HandledRow,
       FinalOutcomes, ActiveStatuses, ClosedStatuses, TerminalOutcome
  <1>10. RowSupports(r, p)
    BY <1>1, <1>2, <1>3, <1>4, RowAt, DeskAssumption DEF RowOK, RowAgrees, RowSupports, HandledRow,
       FinalOutcomes, ActiveStatuses, ClosedStatuses, TerminalOutcome
  <1>11. p.status # "ABSENT" => p.slot \in Slots
    BY <1>2, <1>3, <1>4
  <1>12. RowKeeps(old, was, r, p)
    BY <1>1, <1>2, <1>3, <1>4, RowAt, DeskAssumption DEF RowOK, RowAgrees, RowSupports, RowKeeps,
       StaysBooked, ResultRow, LawyerRow, FinalOutcomes, ActiveStatuses, ClosedStatuses, TerminalOutcome
  <1> QED BY <1>5, <1>6, <1>7, <1>8, <1>9, <1>10, <1>11, <1>12
          DEF Writes, RowOK, RowTyped, RowKeeps, old, was

LEMMA ReconcileWrites ==
    ASSUME DeskInv, NEW c \in Consultations,
           Reconcile(c), Due(c, run.at)
    PROVE  \E r, p : Writes(c, r, p)
  <1> DEFINE old == request[c]
             was == appointment[Primary(c)]
             r == [old EXCEPT !.outcome = HistoricalOutcome(c, run.at), !.version = @ + 1]
             p == [was EXCEPT !.status = (IF old.status = "REJECTED" /\ was.status # "ABSENT" THEN "CANCELLED" ELSE @)]
  <1>1. RowOK(old, was, now)
    BY RowAt
  <1>2. /\ old \in Request /\ old.version + 1 \in Nat
        /\ was \in Appointment /\ (was.status # "ABSENT" => was.slot \in Slots)
    BY <1>1 DEF RowOK, RowTyped, Request
  <1>3. /\ old.outcome = "PENDING" /\ r.outcome # "PENDING"
        /\ run.at \in Nat /\ run.at <= now /\ (was.slot \in Slots => was.slot.end \in Nat)
        /\ r.outcome = IF old.status = "REJECTED" THEN "CANCELLED"
                       ELSE IF was.status = "ABSENT" THEN IF old.status = "CONVERTED" THEN "AWAITING_RESULT" ELSE "PENDING"
                       ELSE IF was.status \in ClosedStatuses THEN TerminalOutcome(was.status)
                       ELSE IF ~(was.slot.end <= run.at) THEN "PENDING"
                       ELSE IF HandledRow(old) THEN "AWAITING_RESULT" ELSE "MISSED"
    BY <1>1, <1>2, RowAt, DeskAssumption DEF DeskInv, TypeOK, RunInv, Due, HistoricalOutcome, Handled, HandledRow, Booked, Ended, Request
  <1>4. /\ r.status = old.status /\ r.outcome = HistoricalOutcome(c, run.at) /\ r.version = old.version + 1 /\ r.lawyer = old.lawyer
        /\ r.reviewed = old.reviewed /\ r.source = old.source /\ r.session = old.session /\ r.asked = old.asked
        /\ p.status = (IF old.status = "REJECTED" /\ was.status # "ABSENT" THEN "CANCELLED" ELSE was.status) /\ p.slot = was.slot /\ p.lawyer = was.lawyer
        /\ p.kind = was.kind
    BY <1>2 DEF Request, Appointment
  <1>5. r \in Request
    BY <1>2, <1>3, <1>4 DEF Request, Outcomes, FinalOutcomes, ClosedStatuses, TerminalOutcome
  <1>6. p \in Appointment
    BY <1>2, <1>3 DEF Appointment, ActiveStatuses, ClosedStatuses, FinalOutcomes, Kinds
  <1>7. request' = [request EXCEPT ![c] = r]
    BY <1>2, RowAt DEF Reconcile, Booked
  <1>8. appointment' = [appointment EXCEPT ![Primary(c)] = p] /\ now' = now
    BY <1>2, RowAt DEF Reconcile, Booked
  <1> HIDE DEF old, was, r, p
  <1>9. RowAgrees(r, p, now)
    BY <1>1, <1>2, <1>3, <1>4, RowAt, DeskAssumption DEF RowOK, RowAgrees, RowSupports, HandledRow,
       FinalOutcomes, ActiveStatuses, ClosedStatuses, TerminalOutcome
  <1>10. RowSupports(r, p)
    BY <1>1, <1>2, <1>3, <1>4, RowAt, DeskAssumption DEF RowOK, RowAgrees, RowSupports, HandledRow,
       FinalOutcomes, ActiveStatuses, ClosedStatuses, TerminalOutcome
  <1>11. p.status # "ABSENT" => p.slot \in Slots
    BY <1>2, <1>3, <1>4
  <1>12. RowKeeps(old, was, r, p)
    BY <1>1, <1>2, <1>3, <1>4, RowAt, DeskAssumption DEF RowOK, RowAgrees, RowSupports, RowKeeps,
       StaysBooked, ResultRow, LawyerRow, FinalOutcomes, ActiveStatuses, ClosedStatuses, TerminalOutcome
  <1> QED BY <1>5, <1>6, <1>7, <1>8, <1>9, <1>10, <1>11, <1>12
          DEF Writes, RowOK, RowTyped, RowKeeps, old, was

(* A step that writes the meeting of a case, and perhaps its request.       *)
WritesCase(c, r, q) ==
  /\ request' = [request EXCEPT ![c] = r]
  /\ appointment' = [appointment EXCEPT ![CaseMeeting(c)] = q]
  /\ now' = now
  /\ RowOK(r, appointment[Primary(c)], now)
  /\ RowKeeps(request[c], appointment[Primary(c)], r, appointment[Primary(c)])
  /\ q \in Appointment /\ q.status # "ABSENT" /\ q.slot \in Slots

LEMMA CaseStep ==
    ASSUME TypeOK, \A c \in Consultations : Rows(c),
           NEW c \in Consultations, NEW r, NEW q, WritesCase(c, r, q)
    PROVE  /\ \A d \in Consultations : Rows(d)'
           /\ request' \in [Consultations -> Request]
           /\ appointment' \in [Appointments -> Appointment]
           /\ \A a \in Appointments : appointment'[a].status # "ABSENT" => appointment'[a].slot \in Slots
  <1>1. /\ CaseMeeting(c) \in Appointments
        /\ \A d \in Consultations : Primary(d) \in Appointments /\ Primary(d) # CaseMeeting(c)
    BY DEF Primary, CaseMeeting, Appointments
  <1>2. /\ request' \in [Consultations -> Request]
        /\ appointment' \in [Appointments -> Appointment]
        /\ \A a \in Appointments : appointment'[a].status # "ABSENT" => appointment'[a].slot \in Slots
    BY <1>1 DEF TypeOK, WritesCase, RowOK, RowTyped
  <1>3. \A d \in Consultations : appointment'[Primary(d)] = appointment[Primary(d)]
    BY <1>1 DEF TypeOK, WritesCase
  <1>4. \A d \in Consultations : request'[d] = IF d = c THEN r ELSE request[d]
    BY DEF TypeOK, WritesCase
  <1> QED BY <1>2, <1>3, <1>4 DEF Rows, WritesCase

LEMMA ConvertedRow ==
    ASSUME DeskInv, NEW c \in Consultations, NEW s \in Slots \cup {None}, NEW l \in Lawyers,
           Convert(c, s, l)
    PROVE  /\ RowOK([request[c] EXCEPT !.status = "CONVERTED", !.lawyer = l],
                    appointment[Primary(c)], now)
           /\ RowKeeps(request[c], appointment[Primary(c)],
                       [request[c] EXCEPT !.status = "CONVERTED", !.lawyer = l], appointment[Primary(c)])
           /\ request' = [request EXCEPT ![c] = [request[c] EXCEPT !.status = "CONVERTED", !.lawyer = l]]
  <1> DEFINE old == request[c]
             was == appointment[Primary(c)]
             r == [old EXCEPT !.status = "CONVERTED", !.lawyer = l]
  <1>1. RowOK(old, was, now)
    BY RowAt
  <1>2. old \in Request /\ old.outcome \in {"AWAITING_RESULT", "SUCCESSFUL"} /\ old.status # "ABSENT"
    BY <1>1 DEF Convert, RowOK, RowTyped
  <1>3. r \in Request
    BY <1>2 DEF Request, ConsultationStatuses
  <1>4. /\ r.status = "CONVERTED" /\ r.lawyer = l /\ r.outcome = old.outcome
        /\ r.reviewed = old.reviewed /\ r.session = old.session
    BY <1>2 DEF Request
  <1>5. request' = [request EXCEPT ![c] = r]
    BY <1>2, RowAt DEF Convert
  <1> HIDE DEF old, was, r
  <1>6. RowAgrees(r, was, now)
    BY <1>1, <1>2, <1>4 DEF RowOK, RowAgrees, FinalOutcomes, HandledRow
  <1>7. RowSupports(r, was)
    BY <1>1, <1>2, <1>4, DeskAssumption DEF RowOK, RowSupports
  <1>8. RowOK(r, was, now)
    BY <1>1, <1>3, <1>6, <1>7 DEF RowOK, RowTyped
  <1>9. RowKeeps(old, was, r, was)
    BY <1>4 DEF RowKeeps, StaysBooked, ResultRow, LawyerRow
  <1> QED BY <1>5, <1>8, <1>9 DEF old, was, r

LEMMA ConvertWrites ==
    ASSUME DeskInv, NEW c \in Consultations, NEW s \in Slots \cup {None}, NEW l \in Lawyers,
           Convert(c, s, l)
    PROVE  \E r, p : Writes(c, r, p) \/ WritesCase(c, r, p)
  <1> DEFINE r == [request[c] EXCEPT !.status = "CONVERTED", !.lawyer = l]
             q == NewAppointment("SCHEDULED", s, l, "REQUEST")
  <1>1. /\ request' = [request EXCEPT ![c] = r] /\ RowOK(r, appointment[Primary(c)], now) /\ now' = now
        /\ RowKeeps(request[c], appointment[Primary(c)], r, appointment[Primary(c)])
    BY ConvertedRow DEF Convert
  <1>2. CASE s = None
    <2>1. appointment' = [appointment EXCEPT ![Primary(c)] = appointment[Primary(c)]]
      BY <1>2, RowAt DEF Convert
    <2> QED BY <1>1, <2>1 DEF Writes, RowKeeps
  <1>3. CASE s # None
    <2>1. appointment' = [appointment EXCEPT ![CaseMeeting(c)] = q]
      BY <1>3 DEF Convert, Book
    <2>2. q \in Appointment /\ q.status # "ABSENT" /\ q.slot \in Slots
      BY <1>3 DEF NewAppointment, Appointment, ActiveStatuses, Kinds
    <2> QED BY <1>1, <2>1, <2>2 DEF WritesCase
  <1> QED BY <1>2, <1>3

LEMMA CalendarWrites ==
    ASSUME DeskInv, NEW c \in Consultations, NEW s \in Slots,
           CalendarCreate(c, s) \/ CalendarReschedule(CaseMeeting(c), s)
    PROVE  \E r, p : WritesCase(c, r, p)
  <1>1. /\ request' = [request EXCEPT ![c] = request[c]] /\ now' = now
        /\ RowOK(request[c], appointment[Primary(c)], now)
        /\ RowKeeps(request[c], appointment[Primary(c)], request[c], appointment[Primary(c)])
    BY RowAt DEF CalendarCreate, CalendarReschedule, RowKeeps, StaysBooked
  <1>2. CASE CalendarCreate(c, s)
    <2>1. request[c].lawyer \in Lawyers \cup {None}
      BY <1>1 DEF RowOK, RowTyped, Request
    <2>2. PICK kind \in Kinds : appointment' = [appointment EXCEPT ![CaseMeeting(c)] =
                                   NewAppointment("SCHEDULED", s, request[c].lawyer, kind)]
      BY <1>2 DEF CalendarCreate, Book, Kinds
    <2>3. /\ NewAppointment("SCHEDULED", s, request[c].lawyer, kind) \in Appointment
          /\ NewAppointment("SCHEDULED", s, request[c].lawyer, kind).status = "SCHEDULED"
          /\ NewAppointment("SCHEDULED", s, request[c].lawyer, kind).slot = s
      BY <2>1 DEF NewAppointment, Appointment, ActiveStatuses
    <2> QED BY <1>1, <2>2, <2>3 DEF WritesCase
  <1>3. CASE CalendarReschedule(CaseMeeting(c), s)
    <2> DEFINE was == appointment[CaseMeeting(c)]
               q == [was EXCEPT !.status = "RESCHEDULED", !.slot = s]
    <2>1. was \in Appointment
      BY DEF DeskInv, TypeOK, CaseMeeting, Appointments
    <2>2. q \in Appointment /\ q.status = "RESCHEDULED" /\ q.slot = s
      BY <2>1 DEF Appointment, ActiveStatuses
    <2>3. appointment' = [appointment EXCEPT ![CaseMeeting(c)] = q]
      BY <1>3, <2>1 DEF CalendarReschedule, Move, Appointment
    <2> QED BY <1>1, <2>2, <2>3 DEF WritesCase
  <1> QED BY <1>2, <1>3

-----------------------------------------------------------------------------
(* Every step writes one request at most, or moves the clock or the worker. *)
LEMMA StepWrites ==
    ASSUME DeskInv, [Next]_vars
    PROVE  \/ Tick
           \/ UNCHANGED <<now, request, appointment>>
           \/ \E c \in Consultations : \E r, p : Writes(c, r, p) \/ WritesCase(c, r, p)
  <1>1. ASSUME NEW c \in Consultations, ClientStep(c)
        PROVE  \E r, p : Writes(c, r, p)
    BY <1>1, SubmitWrites, BookingWrites, RescheduleWrites, CancelWrites, AlternativeWrites
       DEF ClientStep
  <1>2. ASSUME NEW c \in Consultations, DeskStep(c)
        PROVE  \E r, p : Writes(c, r, p) \/ WritesCase(c, r, p)
    <2>1. CASE Review(c) \/ Reject(c)
      BY <2>1, ReviewWrites, RejectWrites
    <2>2. ASSUME NEW l \in Lawyers, Assign(c, l)
          PROVE  \E r, p : Writes(c, r, p)
      BY <2>2, AssignWrites
    <2>3. ASSUME NEW l \in Lawyers, NEW s \in Slots \cup {None}, Convert(c, s, l)
          PROVE  \E r, p : Writes(c, r, p) \/ WritesCase(c, r, p)
      BY <2>3, ConvertWrites
    <2>4. ASSUME NEW seen \in Versions, NEW asOf \in Recent, NEW outcome \in FinalOutcomes,
                 SetOutcome(c, outcome, seen, asOf)
          PROVE  \E r, p : Writes(c, r, p)
      BY <2>4, OutcomeWrites
    <2>5. ASSUME NEW seen \in Versions, NEW asOf \in Recent, NEW s \in Slots, NEW l \in Lawyers,
                 Reopen(c, s, l, seen, asOf)
          PROVE  \E r, p : Writes(c, r, p)
      BY <2>5, ReopenWrites
    <2>6. ASSUME NEW s \in Slots, NEW l \in Lawyers, NEW seen \in Versions, Schedule(c, s, l, seen)
          PROVE  \E r, p : Writes(c, r, p)
      BY <2>6, ScheduleWrites
    <2>7. ASSUME NEW s \in Slots, CalendarCreate(c, s)
          PROVE  \E r, p : WritesCase(c, r, p)
      BY <2>7, CalendarWrites
    <2> HIDE DEF Writes, WritesCase
    <2> QED BY <1>2, <2>1, <2>2, <2>3, <2>4, <2>5, <2>6, <2>7 DEF DeskStep
  <1>3. ASSUME NEW c \in Consultations, Reconcile(c)
        PROVE  UNCHANGED <<now, request, appointment>> \/ \E r, p : Writes(c, r, p)
    BY <1>3, ReconcileWrites DEF Reconcile
  <1>4. ASSUME NEW a \in Appointments, NEW s \in Slots, CalendarReschedule(a, s)
        PROVE  \E c \in Consultations : \E r, p : Writes(c, r, p) \/ WritesCase(c, r, p)
    <2>1. PICK c \in Consultations : a = Primary(c) \/ a = CaseMeeting(c)
      BY DEF Appointments, Primary, CaseMeeting
    <2> QED BY <1>4, <2>1, MoveWrites, CalendarWrites
  <1>5. ASSUME NEW c \in Consultations, PaymentStep(c)
        PROVE  UNCHANGED <<now, request, appointment>> \/ \E r, p : Writes(c, r, p)
    BY <1>5, ConfirmWrites, ReleaseWrites DEF PaymentStep, ReadReport, LeaveReport
  <1>6. StartRun \/ StopRun \/ (\E c \in Consultations : LoseRace(c)) \/ UNCHANGED vars
          => UNCHANGED <<now, request, appointment>>
    BY DEF StartRun, StopRun, LoseRace, vars
  <1> QED BY <1>1, <1>2, <1>3, <1>4, <1>5, <1>6 DEF Next

LEMMA RunStep ==
    ASSUME DeskInv, [Next]_vars
    PROVE  run' \in [at : Nat, rows : SUBSET Consultations] /\ run'.at <= now' /\ now' \in Nat
  <1>1. /\ run \in [at : Nat, rows : SUBSET Consultations] /\ run.at <= now /\ now \in Nat
    BY DEF DeskInv, TypeOK, RunInv
  <1>2. /\ NoRun \in [at : Nat, rows : SUBSET Consultations] /\ NoRun.at <= now
    BY <1>1 DEF NoRun
  <1>3. CASE UNCHANGED <<now, run>>
    BY <1>1, <1>3
  <1>4. CASE Tick
    BY <1>1, <1>4, DeskAssumption DEF Tick
  <1>5. CASE StartRun \/ StopRun
    BY <1>1, <1>2, <1>5 DEF StartRun, StopRun
  <1>6. CASE \E c \in Consultations : Reconcile(c) \/ LoseRace(c)
    BY <1>1, <1>2, <1>6 DEF Reconcile, LoseRace, LeaveRow
  <1>7. ASSUME NEW c \in Consultations, ClientStep(c) \/ PaymentStep(c)
        PROVE  UNCHANGED <<now, run>>
    BY <1>7 DEF ClientStep, SubmitRequest, RequestCallback, DirectCancel, BookPublicly,
       RequestAlternativeTime, DirectBook, DirectReschedule, PaymentStep, ReadReport, ConfirmPaid,
       ReleaseFailed, LeaveReport, ReleaseExpired
  <1>8. ASSUME NEW c \in Consultations, DeskStep(c)
        PROVE  UNCHANGED <<now, run>>
    BY <1>8 DEF DeskStep, Review, Reject, Assign, Convert, SetOutcome, Reopen, Schedule, CalendarCreate
  <1>9. ASSUME NEW a \in Appointments, NEW s \in Slots, CalendarReschedule(a, s)
        PROVE  UNCHANGED <<now, run>>
    BY <1>9 DEF CalendarReschedule
  <1> QED BY <1>3, <1>4, <1>5, <1>6, <1>7, <1>8, <1>9 DEF Next, vars

(* Only payment reports read and forget the rows they decide on.            *)
LEMMA ReadingStep ==
    ASSUME DeskInv, [Next]_vars
    PROVE  \/ reading' = reading
           \/ \E c \in Consultations : reading' = [reading EXCEPT ![c] = NoReading]
           \/ /\ UNCHANGED <<now, request, appointment, run>>
              /\ \E c \in Consultations : reading' = [reading EXCEPT ![c] =
                   [request |-> request[c].status, appointment |-> appointment[Primary(c)].status]]
  <1>1. ASSUME NEW c \in Consultations, PaymentStep(c)
        PROVE  \/ reading' = reading
               \/ reading' = [reading EXCEPT ![c] = NoReading]
               \/ /\ UNCHANGED <<now, request, appointment, run>>
                  /\ reading' = [reading EXCEPT ![c] =
                       [request |-> request[c].status, appointment |-> appointment[Primary(c)].status]]
    BY <1>1 DEF PaymentStep, ReadReport, ConfirmPaid, ReleaseFailed, LeaveReport, ReleaseExpired
  <1>2. ASSUME NEW c \in Consultations, ClientStep(c)
        PROVE  reading' = reading
    BY <1>2 DEF ClientStep, SubmitRequest, RequestCallback, DirectCancel, BookPublicly,
       RequestAlternativeTime, DirectBook, DirectReschedule
  <1>3. ASSUME NEW c \in Consultations, DeskStep(c)
        PROVE  reading' = reading
    BY <1>3 DEF DeskStep, Review, Reject, Assign, Convert, SetOutcome, Reopen, Schedule, CalendarCreate
  <1>4. ASSUME NEW a \in Appointments, NEW s \in Slots, CalendarReschedule(a, s)
        PROVE  reading' = reading
    BY <1>4 DEF CalendarReschedule
  <1>5. ASSUME \/ Tick \/ StartRun \/ StopRun \/ UNCHANGED vars
               \/ \E c \in Consultations : Reconcile(c) \/ LoseRace(c)
        PROVE  reading' = reading
    BY <1>5 DEF Tick, StartRun, StopRun, Reconcile, LoseRace, vars
  <1> QED BY <1>1, <1>2, <1>3, <1>4, <1>5 DEF Next

(* What a report has read stays of use: bookings and their ways in stand.   *)
LEMMA ReadingKept ==
    ASSUME DeskInv, [Next]_vars,
           \A c \in Consultations :
             StaysBooked(request[c], appointment[Primary(c)], request'[c], appointment'[Primary(c)])
    PROVE  reading' \in [Consultations -> Reading] /\ ReadingInv'
  <1>1. /\ reading \in [Consultations -> Reading] /\ ReadingInv
        /\ \A c \in Consultations :
             /\ request[c].status \in ConsultationStatuses \cup {"ABSENT"}
             /\ appointment[Primary(c)].status \in ActiveStatuses \cup ClosedStatuses \cup {"ABSENT"}
             /\ request[c].status = "ABSENT" => appointment[Primary(c)].status = "ABSENT"
             /\ request[c].status = "PAYMENT_PENDING" => appointment[Primary(c)].status # "ABSENT"
             /\ request[c].session =>
                  request[c].status # "PAYMENT_PENDING" /\ appointment[Primary(c)].status # "RESERVED"
    BY RowAt DEF DeskInv, TypeOK, RowOK, RowTyped, RowSupports, Request, Appointment
  <1>2. NoReading \in Reading
    BY DEF NoReading, Reading
  <1>3. CASE reading' = reading
    BY <1>1, <1>3 DEF ReadingInv, StaysBooked
  <1>4. ASSUME NEW c \in Consultations, reading' = [reading EXCEPT ![c] = NoReading]
        PROVE  reading' \in [Consultations -> Reading] /\ ReadingInv'
    <2>1. \A d \in Consultations : reading'[d] = IF d = c THEN NoReading ELSE reading[d]
      BY <1>1, <1>4
    <2>2. NoReading.request = "ABSENT" /\ NoReading.appointment = "ABSENT"
      BY DEF NoReading
    <2>3. reading' \in [Consultations -> Reading]
      BY <1>1, <1>2, <1>4
    <2> QED BY <1>1, <2>1, <2>2, <2>3 DEF ReadingInv, StaysBooked
  <1>5. ASSUME NEW c \in Consultations, UNCHANGED <<request, appointment>>,
               reading' = [reading EXCEPT ![c] =
                 [request |-> request[c].status, appointment |-> appointment[Primary(c)].status]]
        PROVE  reading' \in [Consultations -> Reading] /\ ReadingInv'
    <2> DEFINE got == [request |-> request[c].status, appointment |-> appointment[Primary(c)].status]
    <2>1. \A d \in Consultations : reading'[d] = IF d = c THEN got ELSE reading[d]
      BY <1>1, <1>5
    <2>2. got \in Reading /\ got.request = request[c].status /\ got.appointment = appointment[Primary(c)].status
      BY <1>1 DEF Reading
    <2>3. reading' \in [Consultations -> Reading]
      BY <1>1, <1>5, <2>2
    <2> HIDE DEF got
    <2> QED BY <1>1, <1>5, <2>1, <2>2, <2>3 DEF ReadingInv
  <1> QED BY <1>3, <1>4, <1>5, ReadingStep

(* Every step but a payment report's late write keeps what it must of every *)
(* request and its appointment.                                             *)
LEMMA RowsKept ==
    ASSUME DeskInv, [Next]_vars, NEW d \in Consultations
    PROVE  /\ StaysBooked(request[d], appointment[Primary(d)], request'[d], appointment'[Primary(d)])
           /\ \/ WritesLate(d)
              \/ RowKeeps(request[d], appointment[Primary(d)], request'[d], appointment'[Primary(d)])
           /\ \/ WritesLate(d) /\ request[d].status = "CONVERTED"
              \/ LawyerRow(request[d], appointment[Primary(d)])
                   => LawyerRow(request'[d], appointment'[Primary(d)])
  <1>1. \A c \in Consultations : /\ Primary(c) \in Appointments /\ CaseMeeting(c) \in Appointments
                                 /\ CaseMeeting(c) # Primary(d) /\ (Primary(c) = Primary(d) => c = d)
    BY DEF Primary, CaseMeeting, Appointments
  <1>2. request \in [Consultations -> Request] /\ appointment \in [Appointments -> Appointment]
    BY DEF DeskInv, TypeOK
  <1>3. CASE request'[d] = request[d] /\ appointment'[Primary(d)] = appointment[Primary(d)]
    BY <1>3 DEF RowKeeps, StaysBooked
  <1>4. CASE Tick \/ UNCHANGED <<now, request, appointment>>
    BY <1>3, <1>4 DEF Tick
  <1>5. ASSUME NEW c \in Consultations, NEW r, NEW p, Writes(c, r, p)
        PROVE  \/ request'[d] = request[d] /\ appointment'[Primary(d)] = appointment[Primary(d)]
               \/ c = d /\ request'[d] = r /\ appointment'[Primary(d)] = p
    BY <1>1, <1>2, <1>5 DEF Writes
  <1>6. ASSUME NEW c \in Consultations, NEW r, NEW p, Writes(c, r, p),
               c = d /\ request'[d] = r /\ appointment'[Primary(d)] = p
        PROVE  /\ StaysBooked(request[d], appointment[Primary(d)], request'[d], appointment'[Primary(d)])
               /\ \/ WritesLate(d)
                  \/ RowKeeps(request[d], appointment[Primary(d)], request'[d], appointment'[Primary(d)])
               /\ \/ WritesLate(d) /\ request[d].status = "CONVERTED"
                  \/ LawyerRow(request[d], appointment[Primary(d)])
                       => LawyerRow(request'[d], appointment'[Primary(d)])
    BY <1>6 DEF Writes
  <1>7. ASSUME NEW c \in Consultations, NEW r, NEW p, WritesCase(c, r, p)
        PROVE  \/ request'[d] = request[d] /\ appointment'[Primary(d)] = appointment[Primary(d)]
               \/ RowKeeps(request[d], appointment[Primary(d)], request'[d], appointment'[Primary(d)])
    <2>1. appointment'[Primary(d)] = appointment[Primary(d)]
      BY <1>1, <1>2, <1>7 DEF WritesCase
    <2>2. CASE c = d
      <3>1. request'[d] = r
        BY <1>2, <1>7, <2>2 DEF WritesCase
      <3> QED BY <1>7, <2>1, <2>2, <3>1 DEF WritesCase
    <2>3. CASE c # d
      BY <1>2, <1>7, <2>1, <2>3 DEF WritesCase
    <2> QED BY <2>2, <2>3
  <1>8. ASSUME RowKeeps(request[d], appointment[Primary(d)], request'[d], appointment'[Primary(d)])
        PROVE  /\ StaysBooked(request[d], appointment[Primary(d)], request'[d], appointment'[Primary(d)])
               /\ LawyerRow(request[d], appointment[Primary(d)])
                    => LawyerRow(request'[d], appointment'[Primary(d)])
    BY <1>8 DEF RowKeeps
  <1> QED BY <1>3, <1>4, <1>5, <1>6, <1>7, <1>8, StepWrites

LEMMA DeskStepInv ==
    ASSUME DeskInv, [Next]_vars
    PROVE  DeskInv'
  <1>0. reading' \in [Consultations -> Reading] /\ ReadingInv'
    BY RowsKept, ReadingKept
  <1>1. CASE Tick
    <2>1. request' = request /\ appointment' = appointment /\ now' = now + 1
      BY <1>1 DEF Tick
    <2>2. ASSUME NEW c \in Consultations
          PROVE  Rows(c)'
      <3>1. RowOK(request[c], appointment[Primary(c)], now) /\ now \in Nat
        BY RowAt
      <3>2. appointment[Primary(c)].slot \in Slots => appointment[Primary(c)].slot.end \in Nat
        BY DeskAssumption
      <3> QED BY <2>1, <3>1, <3>2 DEF Rows, RowOK, RowTyped, RowAgrees
    <2> QED BY <1>0, <2>1, <2>2, RunStep DEF DeskInv, TypeOK, RunInv
  <1>2. CASE UNCHANGED <<now, request, appointment>>
    BY <1>0, <1>2, RunStep DEF DeskInv, TypeOK, RunInv, Rows
  <1>3. ASSUME NEW c \in Consultations, NEW r, NEW p, Writes(c, r, p) \/ WritesCase(c, r, p)
        PROVE  DeskInv'
    <2>1. /\ \A d \in Consultations : Rows(d)'
          /\ request' \in [Consultations -> Request]
          /\ appointment' \in [Appointments -> Appointment]
          /\ \A a \in Appointments : appointment'[a].status # "ABSENT" => appointment'[a].slot \in Slots
      BY <1>3, RowStep, CaseStep DEF DeskInv, Writes
    <2> QED BY <1>0, <2>1, RunStep DEF DeskInv, TypeOK, RunInv
  <1> QED BY <1>1, <1>2, <1>3, StepWrites

LEMMA DeskInit == Init => DeskInv
  <1> SUFFICES ASSUME Init PROVE DeskInv
    OBVIOUS
  <1> DEFINE pairs == LegacyPairs \cup {<<NoRequest, NoAppointment>>}
  <1>1. PICK old \in [Consultations -> pairs] :
          /\ request = [c \in Consultations |-> old[c][1]]
          /\ appointment = [a \in Appointments |-> IF a[2] = "primary" THEN old[a[1]][2] ELSE NoAppointment]
    BY DEF Init
  <1>2. ASSUME NEW pair \in pairs
        PROVE  RowOK(pair[1], pair[2], 0)
    <2>1. CASE pair = <<NoRequest, NoAppointment>>
      BY <2>1 DEF NoRequest, NoAppointment, NewRequest, NewAppointment, RowOK, RowTyped,
         RowAgrees, RowSupports, HandledRow, Request, Appointment, Outcomes, FinalOutcomes,
         Sources, ActiveStatuses, ClosedStatuses, Kinds
    <2>2. ASSUME NEW l \in Lawyers,
                 pair = <<NewRequest("CONVERTED", l, "STAFF_APPROVAL", FALSE, None), NoAppointment>>
          PROVE  RowOK(pair[1], pair[2], 0)
      BY <2>2, DeskAssumption DEF NoAppointment, NewRequest, NewAppointment, RowOK, RowTyped,
         RowAgrees, RowSupports, HandledRow, Request, Appointment, Outcomes, FinalOutcomes,
         Sources, ConsultationStatuses, ActiveStatuses, ClosedStatuses, Kinds
    <2>3. ASSUME NEW s \in Slots,
                 pair = <<NewRequest("REJECTED", None, "STAFF_APPROVAL", FALSE, None),
                          NewAppointment("SCHEDULED", s, None, "REQUEST")>>
          PROVE  RowOK(pair[1], pair[2], 0)
      BY <2>3 DEF NewRequest, NewAppointment, RowOK, RowTyped,
         RowAgrees, RowSupports, HandledRow, Request, Appointment, Outcomes, FinalOutcomes,
         Sources, ConsultationStatuses, ActiveStatuses, ClosedStatuses, Kinds
    <2> QED BY <2>1, <2>2, <2>3 DEF LegacyPairs
  <1>3. ASSUME NEW c \in Consultations
        PROVE  RowOK(request[c], appointment[Primary(c)], 0)
    BY <1>1, <1>2 DEF Primary, Appointments
  <1>4. NoAppointment \in Appointment /\ NoAppointment.status = "ABSENT"
    BY DEF NoAppointment, NewAppointment, Appointment, Kinds
  <1>5. ASSUME NEW a \in Appointments
        PROVE  appointment[a] \in Appointment /\ (appointment[a].status # "ABSENT" => appointment[a].slot \in Slots)
    <2>1. a[1] \in Consultations /\ old[a[1]] \in pairs
      BY DEF Appointments
    <2> QED BY <1>1, <1>2, <1>4, <2>1 DEF RowOK, RowTyped
  <1>6. request \in [Consultations -> Request] /\ appointment \in [Appointments -> Appointment]
    BY <1>1, <1>3, <1>5 DEF RowOK, RowTyped
  <1>7. now = 0 /\ run \in [at : Nat, rows : SUBSET Consultations] /\ run.at <= now
    BY DEF Init, NoRun
  <1>8. reading = [c \in Consultations |-> NoReading] /\ NoReading \in Reading
        /\ NoReading.request = "ABSENT" /\ NoReading.appointment = "ABSENT"
    BY DEF Init, NoReading, Reading
  <1> QED BY <1>3, <1>5, <1>6, <1>7, <1>8 DEF DeskInv, TypeOK, Rows, RunInv, ReadingInv

LEMMA DeskInvariant == Spec => []DeskInv
  <1>1. DeskInv /\ [Next]_vars => DeskInv'
    BY DeskStepInv
  <1> QED BY <1>1, DeskInit, PTL DEF Spec

(* Every row the desk, the assistant, the calendar and the worker write is  *)
(* well typed.                                                              *)
THEOREM TypeCorrect == Spec => []TypeOK
  <1>1. DeskInv => TypeOK
    BY DEF DeskInv
  <1> QED BY <1>1, DeskInvariant, PTL

(* No consultation is classified or given a result before its meeting is    *)
(* over, and none is moved into the future afterwards                       *)
(* (determineHistoricalOutcome, setConsultationOutcome,                     *)
(* canUseGenericCalendarReschedule).                                        *)
THEOREM NothingRecordedEarly == Spec => []RecordedAfterTheMeeting
  <1>1. DeskInv => RecordedAfterTheMeeting
    BY DEF DeskInv, Rows, RowOK, RowAgrees, RecordedAfterTheMeeting, Booked, Ended
  <1> QED BY <1>1, DeskInvariant, PTL

(* The rows of a request that told one result tell one result after every   *)
(* step, whichever handler writes them                                      *)
(* (appointmentStatusForConsultationOutcome), but after the write of a      *)
(* payment report that others overtook (applyWebhookPaymentState).          *)
THEOREM ResultsAgree == Spec => OnlyLateReportsPartResults
  <1>1. ASSUME DeskInv, [Next]_vars
        PROVE  [\A c \in Consultations : ResultAgrees(c) => ResultAgrees(c)' \/ WritesLate(c)]_vars
    <2>1. \A c \in Consultations : /\ ResultAgrees(c) <=> ResultRow(request[c], appointment[Primary(c)])
                                   /\ ResultAgrees(c)' <=> ResultRow(request'[c], appointment'[Primary(c)])
      BY DEF ResultAgrees, ResultRow, Booked
    <2>2. ASSUME NEW c \in Consultations
          PROVE  WritesLate(c) \/ (ResultRow(request[c], appointment[Primary(c)])
                                     => ResultRow(request'[c], appointment'[Primary(c)]))
      BY <1>1, RowsKept DEF RowKeeps
    <2> QED BY <2>1, <2>2
  <1> QED BY <1>1, DeskInvariant, PTL DEF Spec, OnlyLateReportsPartResults

(* The request and its appointment stay with one lawyer until the request   *)
(* is converted (assignConsultation, scheduleConsultation,                  *)
(* reopenMissedConsultation, mutateDirectBooking), or a payment report that *)
(* did not see the conversion takes it back.                                *)
THEOREM LawyersStayAgreed == Spec => OnlyLateReportsPartLawyers
  <1>1. ASSUME DeskInv, [Next]_vars
        PROVE  [\A c \in Consultations : LawyerAgrees(c) =>
                  LawyerAgrees(c)' \/ (WritesLate(c) /\ request[c].status = "CONVERTED")]_vars
    <2>1. \A c \in Consultations : /\ LawyerAgrees(c) <=> LawyerRow(request[c], appointment[Primary(c)])
                                   /\ LawyerAgrees(c)' <=> LawyerRow(request'[c], appointment'[Primary(c)])
      BY DEF LawyerAgrees, LawyerRow, Booked
    <2> QED BY <1>1, <2>1, RowsKept
  <1> QED BY <1>1, DeskInvariant, PTL DEF Spec, OnlyLateReportsPartLawyers

-----------------------------------------------------------------------------
(* A step that writes no appointment but a, and a only where its lawyer was *)
(* free, or already was, or not at all, books nobody twice.                 *)
NoNewClash ==
  \A a \in Appointments : \A b \in Appointments : Clash(a, b)' => Clash(a, b)

LEMMA PlaceKeeps ==
    ASSUME TypeOK, NEW a \in Appointments, NEW q,
           appointment' = [appointment EXCEPT ![a] = q],
           \/ q.status \notin ActiveStatuses
           \/ q.lawyer = None
           \/ Active(a) /\ q.slot = appointment[a].slot /\ q.lawyer = appointment[a].lawyer
           \/ LawyerFree(a, q.slot, q.lawyer)
    PROVE  NoNewClash
  <1>1. /\ appointment'[a] = q
        /\ \A b \in Appointments \ {a} : appointment'[b] = appointment[b]
    BY DEF TypeOK
  <1>2. ASSUME NEW b \in Appointments, b # a, appointment[b].status \in ActiveStatuses,
               q.status \in ActiveStatuses, q.lawyer # None, q.lawyer = appointment[b].lawyer,
               Overlap(appointment[b].slot, q.slot)
        PROVE  Clash(a, b) /\ Clash(b, a)
    <2>1. ~LawyerFree(a, q.slot, q.lawyer)
      BY <1>2 DEF LawyerFree, Free, Active
    <2> QED BY <1>2, <2>1 DEF Clash, Active, Overlap
  <1>3. ASSUME NEW x \in Appointments, NEW y \in Appointments, x # y,
               appointment'[x].status \in ActiveStatuses, appointment'[y].status \in ActiveStatuses,
               appointment'[x].lawyer # None, appointment'[x].lawyer = appointment'[y].lawyer,
               Overlap(appointment'[x].slot, appointment'[y].slot)
        PROVE  Clash(x, y)
    <2>1. CASE x # a /\ y # a
      BY <1>1, <1>3, <2>1 DEF Clash, Active
    <2>2. CASE x = a
      BY <1>1, <1>2, <1>3, <2>2 DEF Overlap
    <2>3. CASE y = a
      BY <1>1, <1>2, <1>3, <2>3 DEF Overlap
    <2> QED BY <2>1, <2>2, <2>3
  <1> QED BY <1>3 DEF NoNewClash, Clash, Active

LEMMA UntouchedKeeps ==
    ASSUME appointment' = appointment
    PROVE  NoNewClash
  BY DEF NoNewClash, Clash, Active

(* The ways an appointment is written.                                      *)
LEMMA Written ==
    ASSUME DeskInv, NEW a \in Appointments
    PROVE  /\ appointment[a] \in Appointment
           /\ \A status, slot, lawyer, kind :
                /\ NewAppointment(status, slot, lawyer, kind).status = status
                /\ NewAppointment(status, slot, lawyer, kind).slot = slot
                /\ NewAppointment(status, slot, lawyer, kind).lawyer = lawyer
           /\ \A status, slot, lawyer :
                LET q == [appointment[a] EXCEPT !.status = status, !.slot = slot, !.lawyer = lawyer]
                IN q.status = status /\ q.slot = slot /\ q.lawyer = lawyer
           /\ \A status :
                LET q == [appointment[a] EXCEPT !.status = status]
                IN q.status = status /\ q.slot = appointment[a].slot /\ q.lawyer = appointment[a].lawyer
  BY DEF DeskInv, TypeOK, NewAppointment, Appointment

LEMMA BookKeeps ==
    ASSUME DeskInv, NEW a \in Appointments, NEW s \in Slots, NEW l, NEW kind,
           Book(a, "SCHEDULED", s, l, kind) \/ Book(a, "RESERVED", s, l, kind),
           l = None \/ LawyerFree(a, s, l)
    PROVE  NoNewClash
  <1>1. PICK status \in {"SCHEDULED", "RESERVED"} : Book(a, status, s, l, kind)
    OBVIOUS
  <1> DEFINE q == NewAppointment(status, s, l, kind)
  <1>2. appointment' = [appointment EXCEPT ![a] = q]
    BY <1>1 DEF Book
  <1>3. q.slot = s /\ q.lawyer = l
    BY DEF NewAppointment
  <1> HIDE DEF q
  <1> QED BY <1>2, <1>3, PlaceKeeps DEF DeskInv

LEMMA MoveKeeps ==
    ASSUME DeskInv, NEW a \in Appointments, NEW s \in Slots, NEW l,
           Move(a, s, l), l = None \/ LawyerFree(a, s, l)
    PROVE  NoNewClash
  <1> DEFINE q == [appointment[a] EXCEPT !.status = "RESCHEDULED", !.slot = s, !.lawyer = l]
  <1>0. appointment[a] \in Appointment
    BY Written
  <1>1. appointment' = [appointment EXCEPT ![a] = q]
    BY <1>0 DEF Move, Appointment
  <1>2. q.slot = s /\ q.lawyer = l
    BY Written
  <1> HIDE DEF q
  <1> QED BY <1>1, <1>2, PlaceKeeps DEF DeskInv

LEMMA StatusKeeps ==
    ASSUME DeskInv, NEW a \in Appointments, NEW status,
           appointment' = [appointment EXCEPT ![a].status = status],
           Active(a) \/ (status = appointment[a].status)
    PROVE  NoNewClash
  <1> DEFINE q == [appointment[a] EXCEPT !.status = status]
  <1>1. appointment' = [appointment EXCEPT ![a] = q]
    OBVIOUS
  <1>2. q.status = status /\ q.slot = appointment[a].slot /\ q.lawyer = appointment[a].lawyer
    BY Written
  <1>3. q.status \notin ActiveStatuses \/ Active(a)
    BY <1>2 DEF Active, ActiveStatuses, ClosedStatuses
  <1> HIDE DEF q
  <1> QED BY <1>1, <1>2, <1>3, PlaceKeeps DEF DeskInv

LEMMA CloseKeeps ==
    ASSUME DeskInv, NEW a \in Appointments,
           \E status \in ClosedStatuses : Close(a, status)
    PROVE  NoNewClash
  <1>1. PICK status \in ClosedStatuses : appointment' = [appointment EXCEPT ![a].status = status]
    BY DEF Close
  <1>2. appointment[a] \in Appointment
    BY Written
  <1> DEFINE q == [appointment[a] EXCEPT !.status = status]
  <1>3. appointment' = [appointment EXCEPT ![a] = q]
    BY <1>1
  <1>4. q.status \notin ActiveStatuses
    BY <1>2 DEF ActiveStatuses, ClosedStatuses, Appointment
  <1> HIDE DEF q
  <1> QED BY <1>3, <1>4, PlaceKeeps DEF DeskInv

LEMMA BookingStep ==
    ASSUME DeskInv, [Next]_vars, \A c \in Consultations : ~Revives(c)
    PROVE  NoNewClash
  <1>0. \A c \in Consultations : Primary(c) \in Appointments /\ CaseMeeting(c) \in Appointments
    BY DEF Primary, CaseMeeting, Appointments
  <1>1. ASSUME NEW c \in Consultations, ClientStep(c)
        PROVE  NoNewClash
    <2>1. CASE SubmitRequest(c) \/ RequestCallback(c)
      BY <2>1, UntouchedKeeps DEF SubmitRequest, RequestCallback
    <2>2. CASE DirectCancel(c)
      <3>1. Close(Primary(c), "CANCELLED") /\ "CANCELLED" \in ClosedStatuses
        BY <2>2 DEF DirectCancel, ClosedStatuses
      <3> QED BY <1>0, <3>1, CloseKeeps
    <2>3. ASSUME NEW s \in Slots, BookPublicly(c, s)
          PROVE  NoNewClash
      BY <1>0, <2>3, BookKeeps DEF BookPublicly
    <2>4. ASSUME NEW s \in Slots, NEW seen \in Versions, RequestAlternativeTime(c, s, seen)
          PROVE  NoNewClash
      BY <2>4, UntouchedKeeps DEF RequestAlternativeTime
    <2>5. ASSUME NEW s \in Slots, NEW l \in Lawyers, DirectBook(c, s, l)
          PROVE  NoNewClash
      BY <1>0, <2>5, BookKeeps DEF DirectBook, Offered
    <2>6. ASSUME NEW s \in Slots, NEW l \in Lawyers, DirectReschedule(c, s, l)
          PROVE  NoNewClash
      BY <1>0, <2>6, MoveKeeps DEF DirectReschedule, Offered
    <2> QED BY <1>1, <2>1, <2>2, <2>3, <2>4, <2>5, <2>6 DEF ClientStep
  <1>2. ASSUME NEW c \in Consultations, DeskStep(c)
        PROVE  NoNewClash
    <2>1. CASE Review(c)
      BY <2>1, UntouchedKeeps DEF Review
    <2>2. CASE Reject(c)
      <3>1. CASE Booked(c)
        <4>1. Close(Primary(c), "CANCELLED") /\ "CANCELLED" \in ClosedStatuses
          BY <2>2, <3>1 DEF Reject, Close, ClosedStatuses
        <4> QED BY <1>0, <4>1, CloseKeeps
      <3>2. CASE ~Booked(c)
        <4>1. appointment' = [appointment EXCEPT ![Primary(c)].status = appointment[Primary(c)].status]
          BY <2>2, <3>2 DEF Reject
        <4> QED BY <1>0, <4>1, StatusKeeps
      <3> QED BY <3>1, <3>2
    <2>3. ASSUME NEW l \in Lawyers, Assign(c, l)
          PROVE  NoNewClash
      <3> DEFINE was == appointment[Primary(c)]
                 q == [was EXCEPT !.lawyer = IF Booked(c) THEN l ELSE @]
      <3>1. was \in Appointment
        BY <1>0, Written
      <3>2. /\ appointment' = [appointment EXCEPT ![Primary(c)] = q]
            /\ q.status = was.status /\ q.slot = was.slot /\ q.lawyer = IF Booked(c) THEN l ELSE was.lawyer
        BY <2>3, <3>1 DEF Assign, Appointment
      <3>3. Active(Primary(c)) => Booked(c) /\ LawyerFree(Primary(c), was.slot, l)
        BY <2>3 DEF Assign, Active, Booked, ActiveStatuses
      <3> HIDE DEF q
      <3> QED BY <1>0, <3>2, <3>3, PlaceKeeps DEF Active, DeskInv
    <2>4. ASSUME NEW l \in Lawyers, NEW s \in Slots \cup {None}, Convert(c, s, l)
          PROVE  NoNewClash
      BY <1>0, <2>4, BookKeeps, UntouchedKeeps DEF Convert
    <2>5. ASSUME NEW seen \in Versions, NEW asOf \in Recent, NEW outcome \in FinalOutcomes,
                 SetOutcome(c, outcome, seen, asOf)
          PROVE  NoNewClash
      <3>1. CASE Booked(c)
        <4> DEFINE status == IF outcome = "SUCCESSFUL" THEN "COMPLETED" ELSE outcome
        <4>1. status \in ClosedStatuses
          BY <2>5 DEF ClosedStatuses, FinalOutcomes
        <4>2. Close(Primary(c), status)
          BY <2>5, <3>1 DEF SetOutcome, Close
        <4> HIDE DEF status
        <4> QED BY <1>0, <4>1, <4>2, CloseKeeps
      <3>2. CASE ~Booked(c)
        <4>1. appointment' = [appointment EXCEPT ![Primary(c)].status = appointment[Primary(c)].status]
          BY <2>5, <3>2 DEF SetOutcome
        <4> QED BY <1>0, <4>1, StatusKeeps
      <3> QED BY <3>1, <3>2
    <2>6. ASSUME NEW seen \in Versions, NEW asOf \in Recent, NEW s \in Slots, NEW l \in Lawyers,
                 Reopen(c, s, l, seen, asOf)
          PROVE  NoNewClash
      BY <1>0, <2>6, MoveKeeps DEF Reopen
    <2>7. ASSUME NEW s \in Slots, NEW l \in Lawyers, NEW seen \in Versions, Schedule(c, s, l, seen)
          PROVE  NoNewClash
      BY <1>0, <2>7, BookKeeps DEF Schedule
    <2>8. ASSUME NEW s \in Slots, CalendarCreate(c, s)
          PROVE  NoNewClash
      BY <1>0, <2>8, BookKeeps DEF CalendarCreate
    <2> QED BY <1>2, <2>1, <2>2, <2>3, <2>4, <2>5, <2>6, <2>7, <2>8 DEF DeskStep
  <1>3. ASSUME NEW c \in Consultations, ConfirmPaid(c)
        PROVE  NoNewClash
    <2>1. Active(Primary(c))
      BY <1>3 DEF Revives
    <2> QED BY <1>0, <1>3, <2>1, StatusKeeps DEF ConfirmPaid, Close
  <1>4. ASSUME NEW c \in Consultations, ReleaseFailed(c) \/ ReleaseExpired(c)
        PROVE  NoNewClash
    <2>1. CASE appointment' = [appointment EXCEPT ![Primary(c)].status = "CANCELLED"]
      <3>1. Close(Primary(c), "CANCELLED") /\ "CANCELLED" \in ClosedStatuses
        BY <2>1 DEF Close, ClosedStatuses
      <3> QED BY <1>0, <3>1, CloseKeeps
    <2>2. CASE appointment' = [appointment EXCEPT ![Primary(c)].status = appointment[Primary(c)].status]
      BY <1>0, <2>2, StatusKeeps
    <2> QED BY <1>4, <2>1, <2>2 DEF ReleaseFailed, ReleaseExpired
  <1>5. ASSUME NEW c \in Consultations, Reconcile(c)
        PROVE  NoNewClash
    <2>1. CASE appointment' = appointment
      BY <2>1, UntouchedKeeps
    <2>2. CASE appointment' = [appointment EXCEPT ![Primary(c)].status = "CANCELLED"]
      <3>1. Close(Primary(c), "CANCELLED") /\ "CANCELLED" \in ClosedStatuses
        BY <2>2 DEF Close, ClosedStatuses
      <3> QED BY <1>0, <3>1, CloseKeeps
    <2>3. CASE appointment' = [appointment EXCEPT ![Primary(c)].status = appointment[Primary(c)].status]
      BY <1>0, <2>3, StatusKeeps
    <2> QED BY <1>5, <2>1, <2>2, <2>3 DEF Reconcile
  <1>6. ASSUME NEW a \in Appointments, NEW s \in Slots, CalendarReschedule(a, s)
        PROVE  NoNewClash
    BY <1>6, MoveKeeps DEF CalendarReschedule
  <1>7. ASSUME \/ Tick \/ StartRun \/ StopRun \/ UNCHANGED vars
               \/ \E c \in Consultations : LoseRace(c) \/ ReadReport(c) \/ LeaveReport(c)
        PROVE  appointment' = appointment
    BY <1>7 DEF Tick, StartRun, StopRun, LoseRace, ReadReport, LeaveReport, vars
  <1> QED BY <1>1, <1>2, <1>3, <1>4, <1>5, <1>6, <1>7, UntouchedKeeps DEF Next, PaymentStep

(* A settlement that revives an appointment makes that one clash, no other. *)
LEMMA RevivalTouchesOne ==
    ASSUME DeskInv, NEW c \in Consultations, Revives(c),
           NEW a \in Appointments, NEW b \in Appointments, Clash(a, b)', Primary(c) \notin {a, b}
    PROVE  Clash(a, b)
  <1>1. appointment'[a] = appointment[a] /\ appointment'[b] = appointment[b]
    BY DEF Revives, ConfirmPaid, Close, DeskInv, TypeOK
  <1> QED BY <1>1 DEF Clash, Active

(* No lawyer becomes promised to two meetings at once, for any number of    *)
(* requests and lawyers (assertNoAppointmentConflict and its callers), but  *)
(* by the settlement of a booking that was cancelled while it was at work.  *)
THEOREM NobodyBookedTwice == Spec => OnlyRevivalsDoubleBook
  <1> DEFINE Step == \A a \in Appointments : \A b \in Appointments :
                       Clash(a, b)' => Clash(a, b) \/ \E c \in Consultations : Primary(c) \in {a, b} /\ Revives(c)
  <1>1. ASSUME DeskInv, [Next]_vars
        PROVE  Step
    <2>1. CASE \A c \in Consultations : ~Revives(c)
      BY <1>1, <2>1, BookingStep DEF NoNewClash
    <2>2. CASE \E c \in Consultations : Revives(c)
      BY <1>1, <2>2, RevivalTouchesOne
    <2> QED BY <2>1, <2>2
  <1>2. Step => \A a, b \in Appointments :
          Clash(a, b)' => Clash(a, b) \/ \E c \in Consultations : Primary(c) \in {a, b} /\ Revives(c)
    OBVIOUS
  <1> HIDE DEF Step
  <1> QED BY <1>1, <1>2, DeskInvariant, PTL DEF Spec, OnlyRevivalsDoubleBook

-----------------------------------------------------------------------------
(* The desk lives by OutcomeLifecycle: what one step may do to one request. *)
LifeStep(old, new) ==
  \/ /\ new.outcome = old.outcome /\ new.version = old.version
     /\ HandledRow(new) <=> HandledRow(old)
  \/ /\ new.outcome = old.outcome /\ new.version = old.version
     /\ HandledRow(new) /\ old.outcome # "MISSED"
  \/ /\ new.outcome = "PENDING" /\ new.version = old.version + 1
     /\ \/ old.outcome = "PENDING" /\ (HandledRow(old) => HandledRow(new))
        \/ old.outcome = "MISSED" /\ HandledRow(new)
  \/ /\ new.version = old.version + 1
     /\ HandledRow(new) <=> HandledRow(old)
     /\ \/ old.outcome = "PENDING" /\ HandledRow(old) /\ new.outcome = "AWAITING_RESULT"
        \/ old.outcome = "PENDING" /\ ~HandledRow(old) /\ new.outcome = "MISSED"
        \/ old.outcome \in {"PENDING", "AWAITING_RESULT"} /\ new.outcome = "CANCELLED"
        \/ /\ old.outcome \in {"AWAITING_RESULT"} \cup FinalOutcomes
           /\ new.outcome \in FinalOutcomes \ {old.outcome}

(* One request moves, the others stay.                                      *)
OneMoves(c) ==
  /\ \A d \in Consultations \ {c} : request'[d] = request[d]
  /\ LifeStep(request[c], request'[c])

LEMMA LifeStepRefines ==
    ASSUME DeskInv, TypeOK', NEW c \in Consultations, OneMoves(c)
    PROVE  Lifecycle!Next \/ UNCHANGED Lifecycle!lifeVars
  <1> DEFINE stage == [d \in Consultations |-> request[d].outcome]
             revision == [d \in Consultations |-> request[d].version]
             handled == [d \in Consultations |-> Handled(d)]
             h == HandledRow(request'[c])
  <1>1. /\ stage' = [stage EXCEPT ![c] = request'[c].outcome]
        /\ revision' = [revision EXCEPT ![c] = request'[c].version]
    BY DEF OneMoves
  <1>2. handled' = [handled EXCEPT ![c] = h]
    BY DEF OneMoves, Handled, HandledRow
  <1>3. /\ stage[c] = request[c].outcome /\ revision[c] = request[c].version
        /\ handled[c] <=> HandledRow(request[c])
        /\ h \in BOOLEAN /\ handled[c] \in BOOLEAN
    BY DEF Handled, HandledRow, DeskInv, TypeOK, Request
  <1>4. /\ stage = [stage EXCEPT ![c] = stage[c]]
        /\ revision = [revision EXCEPT ![c] = revision[c]]
        /\ handled = [handled EXCEPT ![c] = handled[c]]
    OBVIOUS
  <1>5. CASE /\ request'[c].outcome = request[c].outcome /\ request'[c].version = request[c].version
             /\ h <=> HandledRow(request[c])
    BY <1>1, <1>2, <1>3, <1>4, <1>5 DEF Lifecycle!lifeVars
  <1>6. CASE /\ request'[c].outcome = request[c].outcome /\ request'[c].version = request[c].version
             /\ h /\ request[c].outcome # "MISSED"
    <2>1. Lifecycle!Handle(c)
      BY <1>1, <1>2, <1>3, <1>4, <1>6 DEF Lifecycle!Handle
    <2> QED BY <2>1 DEF Lifecycle!Next
  <1>7. CASE /\ request'[c].outcome = "PENDING" /\ request'[c].version = request[c].version + 1
             /\ request[c].outcome = "PENDING" /\ (HandledRow(request[c]) => h)
    <2>1. Lifecycle!Revise(c)
      BY <1>1, <1>2, <1>3, <1>4, <1>7 DEF Lifecycle!Revise, Lifecycle!Advance
    <2> QED BY <2>1 DEF Lifecycle!Next
  <1>8. CASE /\ request'[c].outcome = "PENDING" /\ request'[c].version = request[c].version + 1
             /\ request[c].outcome = "MISSED" /\ h
    <2>1. Lifecycle!Reopen(c)
      BY <1>1, <1>2, <1>3, <1>8 DEF Lifecycle!Reopen, Lifecycle!Advance
    <2> QED BY <2>1 DEF Lifecycle!Next
  <1>9. CASE /\ request'[c].version = request[c].version + 1 /\ (h <=> HandledRow(request[c]))
             /\ \/ request[c].outcome = "PENDING" /\ HandledRow(request[c]) /\ request'[c].outcome = "AWAITING_RESULT"
                \/ request[c].outcome = "PENDING" /\ ~HandledRow(request[c]) /\ request'[c].outcome = "MISSED"
                \/ request[c].outcome \in {"PENDING", "AWAITING_RESULT"} /\ request'[c].outcome = "CANCELLED"
                \/ /\ request[c].outcome \in {"AWAITING_RESULT"} \cup FinalOutcomes
                   /\ request'[c].outcome \in FinalOutcomes \ {request[c].outcome}
    <2>0. request'[c].version = request[c].version + 1 /\ (h <=> HandledRow(request[c]))
      BY <1>9
    <2>1. handled' = handled
      BY <1>2, <1>3, <1>4, <2>0
    <2>2. CASE request[c].outcome = "PENDING" /\ HandledRow(request[c]) /\ request'[c].outcome = "AWAITING_RESULT"
      <3>1. Lifecycle!Wait(c)
        BY <1>1, <1>3, <2>0, <2>1, <2>2 DEF Lifecycle!Wait, Lifecycle!Advance
      <3> QED BY <3>1 DEF Lifecycle!Next
    <2>3. CASE request[c].outcome = "PENDING" /\ ~HandledRow(request[c]) /\ request'[c].outcome = "MISSED"
      <3>1. Lifecycle!Miss(c)
        BY <1>1, <1>3, <2>0, <2>1, <2>3 DEF Lifecycle!Miss, Lifecycle!Advance
      <3> QED BY <3>1 DEF Lifecycle!Next
    <2>4. CASE request[c].outcome \in {"PENDING", "AWAITING_RESULT"} /\ request'[c].outcome = "CANCELLED"
      <3>1. Lifecycle!CallOff(c)
        BY <1>1, <1>3, <2>0, <2>1, <2>4 DEF Lifecycle!CallOff, Lifecycle!Advance
      <3> QED BY <3>1 DEF Lifecycle!Next
    <2>5. CASE /\ request[c].outcome \in {"AWAITING_RESULT"} \cup FinalOutcomes
               /\ request'[c].outcome \in FinalOutcomes \ {request[c].outcome}
      <3>1. Lifecycle!Record(c, request'[c].outcome)
        BY <1>1, <1>3, <2>0, <2>1, <2>5 DEF Lifecycle!Record, Lifecycle!Advance, Lifecycle!Results, FinalOutcomes
      <3>2. request'[c].outcome \in Lifecycle!Results
        BY <2>5 DEF Lifecycle!Results, FinalOutcomes
      <3> QED BY <3>1, <3>2 DEF Lifecycle!Next
    <2> QED BY <1>9, <2>2, <2>3, <2>4, <2>5
  <1> QED BY <1>5, <1>6, <1>7, <1>8, <1>9 DEF OneMoves, LifeStep

LEMMA RowFacts ==
    ASSUME DeskInv, NEW c \in Consultations
    PROVE  /\ request \in [Consultations -> Request]
           /\ request[c].reviewed \in BOOLEAN /\ request[c].version \in Nat
           /\ request[c].lawyer \in Lawyers \cup {None}
           /\ request[c].outcome = "MISSED" => ~HandledRow(request[c])
           /\ request[c].status = "ABSENT" => request[c] = NoRequest
           /\ request[c].session /\ request[c].status \in {"NEW", "REVIEWING"} =>
                request[c].outcome = "PENDING"
           /\ request[c].status = "CONVERTED" => request[c].lawyer # None
           /\ appointment[Primary(c)].status \in {"COMPLETED", "NO_SHOW"} =>
                request[c].outcome \in FinalOutcomes
  BY RowAt DEF DeskInv, TypeOK, RowOK, RowTyped, RowAgrees, RowSupports, Request

LEMMA SubmitMoves ==
    ASSUME DeskInv, NEW c \in Consultations,
           SubmitRequest(c) \/ RequestCallback(c)
    PROVE  OneMoves(c)
  BY RowFacts, DeskAssumption DEF OneMoves, LifeStep, HandledRow, SubmitRequest, RequestCallback, Exists, NewRequest, NoRequest, Request

LEMMA BookMoves ==
    ASSUME DeskInv, NEW c \in Consultations, NEW s \in Slots,
           BookPublicly(c, s) \/ (\E l \in Lawyers : DirectBook(c, s, l))
    PROVE  OneMoves(c)
  BY RowFacts, DeskAssumption DEF OneMoves, LifeStep, HandledRow, BookPublicly, DirectBook, Exists, NewRequest, NoRequest, Request

LEMMA PaymentMoves ==
    ASSUME DeskInv, NEW c \in Consultations, ConfirmPaid(c) \/ ReleaseFailed(c) \/ ReleaseExpired(c)
    PROVE  OneMoves(c)
  BY RowFacts, DeskAssumption DEF OneMoves, LifeStep, HandledRow, ConfirmPaid, ReleaseFailed, ReleaseExpired, Request

LEMMA DirectMoves ==
    ASSUME DeskInv, NEW c \in Consultations, NEW s \in Slots, NEW l \in Lawyers,
           DirectReschedule(c, s, l)
    PROVE  OneMoves(c)
  BY RowFacts, DeskAssumption DEF OneMoves, LifeStep, HandledRow, DirectReschedule, Editable, Request

LEMMA CancelMoves ==
    ASSUME DeskInv, NEW c \in Consultations, DirectCancel(c)
    PROVE  OneMoves(c)
  BY RowFacts, DeskAssumption DEF OneMoves, LifeStep, HandledRow, DirectCancel, Editable, Request

LEMMA AlternativeMoves ==
    ASSUME DeskInv, NEW c \in Consultations, NEW s \in Slots, NEW seen,
           RequestAlternativeTime(c, s, seen)
    PROVE  OneMoves(c)
  BY RowFacts, DeskAssumption DEF OneMoves, LifeStep, HandledRow, RequestAlternativeTime, Request

LEMMA ScheduleMoves ==
    ASSUME DeskInv, NEW c \in Consultations, NEW s \in Slots, NEW l \in Lawyers, NEW seen,
           Schedule(c, s, l, seen)
    PROVE  OneMoves(c)
  BY RowFacts, DeskAssumption DEF OneMoves, LifeStep, HandledRow, Schedule, Request

LEMMA AssignMoves ==
    ASSUME DeskInv, NEW c \in Consultations, NEW l \in Lawyers, Assign(c, l)
    PROVE  OneMoves(c)
  BY RowFacts, DeskAssumption DEF OneMoves, LifeStep, HandledRow, Assign, Mutable, Request

LEMMA ReviewMoves ==
    ASSUME DeskInv, NEW c \in Consultations, Review(c)
    PROVE  OneMoves(c)
  BY RowFacts, DeskAssumption DEF OneMoves, LifeStep, HandledRow, Review, Mutable, Request

LEMMA RejectMoves ==
    ASSUME DeskInv, NEW c \in Consultations, Reject(c)
    PROVE  OneMoves(c)
  BY RowFacts, DeskAssumption DEF OneMoves, LifeStep, HandledRow, Reject, Request

LEMMA ConvertMoves ==
    ASSUME DeskInv, NEW c \in Consultations, NEW s, NEW l \in Lawyers, Convert(c, s, l)
    PROVE  OneMoves(c)
  BY RowFacts, DeskAssumption DEF OneMoves, LifeStep, HandledRow, Convert, Request, FinalOutcomes

LEMMA OutcomeMoves ==
    ASSUME DeskInv, NEW c \in Consultations, NEW seen, NEW asOf, NEW outcome \in FinalOutcomes,
           SetOutcome(c, outcome, seen, asOf)
    PROVE  OneMoves(c)
  BY RowFacts, DeskAssumption DEF OneMoves, LifeStep, HandledRow, SetOutcome, Request, FinalOutcomes

LEMMA ReopenMoves ==
    ASSUME DeskInv, NEW c \in Consultations, NEW s \in Slots, NEW l \in Lawyers, NEW seen, NEW asOf,
           Reopen(c, s, l, seen, asOf)
    PROVE  OneMoves(c)
  BY RowFacts, DeskAssumption DEF OneMoves, LifeStep, HandledRow, Reopen, Request

LEMMA ReconcileMoves ==
    ASSUME DeskInv, NEW c \in Consultations, Reconcile(c)
    PROVE  OneMoves(c) \/ request' = request
  <1>1. CASE ~Due(c, run.at)
    BY <1>1 DEF Reconcile
  <1>2. CASE Due(c, run.at)
    <2> DEFINE outcome == HistoricalOutcome(c, run.at)
    <2>1. /\ request[c].outcome = "PENDING" /\ outcome # "PENDING"
          /\ request' = [request EXCEPT ![c].outcome = outcome, ![c].version = @ + 1]
      BY <1>2 DEF Reconcile, Due
    <2>2. /\ outcome \in {"CANCELLED", "AWAITING_RESULT", "MISSED"}
          /\ outcome = "AWAITING_RESULT" => HandledRow(request[c])
          /\ outcome = "MISSED" => ~HandledRow(request[c])
      BY <2>1, RowFacts DEF HistoricalOutcome, Handled, HandledRow, ClosedStatuses, TerminalOutcome,
         FinalOutcomes
    <2> HIDE DEF outcome
    <2>3. /\ \A d \in Consultations \ {c} : request'[d] = request[d]
          /\ request'[c].outcome = outcome /\ request'[c].version = request[c].version + 1
          /\ request'[c].lawyer = request[c].lawyer /\ request'[c].reviewed = request[c].reviewed
      BY <2>1, RowFacts DEF Request
    <2> QED BY <2>1, <2>2, <2>3 DEF OneMoves, LifeStep, HandledRow
  <1> QED BY <1>1, <1>2

LEMMA LifecycleInit == Init => Lifecycle!Init
  <1> SUFFICES ASSUME Init PROVE Lifecycle!Init
    OBVIOUS
  <1>1. \A c \in Consultations : request[c].outcome = "PENDING" /\ request[c].version = 0
    BY DEF Init, LegacyPairs, NewRequest, NoRequest
  <1>2. \A c \in Consultations : Handled(c) \in BOOLEAN
    BY DeskInit, RowFacts DEF Handled
  <1> QED BY <1>1, <1>2 DEF Lifecycle!Init

(* Every consultation moves only as the office promises, each move a new    *)
(* revision, for any number of requests, clients and people at the desk:    *)
(* what the checks on expectedOutcomeVersion rely on.                       *)
THEOREM DeskRefinesLifecycle == Spec => LifecycleSpec
  <1>1. ASSUME DeskInv, TypeOK', [Next]_vars
        PROVE  [Lifecycle!Next]_(Lifecycle!lifeVars)
    <2>1. ASSUME request' = request PROVE UNCHANGED Lifecycle!lifeVars
      BY <2>1 DEF Handled, Lifecycle!lifeVars
    <2>2. ASSUME NEW c \in Consultations, OneMoves(c) PROVE [Lifecycle!Next]_(Lifecycle!lifeVars)
      BY <1>1, <2>2, LifeStepRefines
    <2>3. ASSUME NEW c \in Consultations, ClientStep(c) PROVE OneMoves(c)
      BY <1>1, <2>3, SubmitMoves, BookMoves, DirectMoves, CancelMoves, AlternativeMoves DEF ClientStep
    <2>4. ASSUME NEW c \in Consultations, DeskStep(c)
          PROVE  OneMoves(c) \/ request' = request
      <3>1. ASSUME NEW s \in Slots, CalendarCreate(c, s) PROVE request' = request
        BY <3>1 DEF CalendarCreate
      <3> QED BY <1>1, <2>4, <3>1, ReviewMoves, RejectMoves, AssignMoves, ConvertMoves, OutcomeMoves,
                 ReopenMoves, ScheduleMoves DEF DeskStep
    <2>5. ASSUME NEW c \in Consultations,
                 PaymentStep(c) \/ Reconcile(c) \/ LoseRace(c)
          PROVE  OneMoves(c) \/ request' = request
      BY <1>1, <2>5, PaymentMoves, ReconcileMoves DEF LoseRace, PaymentStep, ReadReport, LeaveReport
    <2>6. \/ Tick \/ StartRun \/ StopRun \/ UNCHANGED vars
          \/ (\E a \in Appointments, s \in Slots : CalendarReschedule(a, s))
          => request' = request
      BY DEF Tick, StartRun, StopRun, CalendarReschedule, vars
    <2> QED BY <1>1, <2>1, <2>2, <2>3, <2>4, <2>5, <2>6 DEF Next
  <1>2. DeskInv => TypeOK
    BY DEF DeskInv
  <1> QED BY <1>1, <1>2, LifecycleInit, DeskInvariant, PTL DEF Spec, LifecycleSpec, Lifecycle!Spec

=============================================================================
