-------------------------- MODULE ConsultationDesk --------------------------
(***************************************************************************)
(* Consultation requests from intake to result, and the appointments that  *)
(* carry them.  Clients book, move and cancel through the public assistant *)
(* (direct-booking-service.ts, consultation-assistant-service.ts), staff   *)
(* schedule, assign, review, reject, convert and record results            *)
(* (consultation-review-service.ts, consultation-outcome-service.ts), the  *)
(* calendar moves appointments (case-operations-service.ts) and a worker   *)
(* classifies the consultations whose time has passed                      *)
(* (consultation-outcome-maintenance.mjs).                                 *)
(*                                                                         *)
(* Every handler of the clients, the desk and the calendar is one          *)
(* serializable transaction (runAppointmentConflictTransaction), hence one *)
(* action; what it reads before its transaction (the clock, the page's     *)
(* version) is a parameter.  The worker selects its rows first and settles *)
(* them one by one later, each in a transaction of its own.  A payment     *)
(* report is handled under the lock of the payment attempt alone           *)
(* (applyWebhookPaymentState): the request and the appointment are read in *)
(* one step and written in a later one, and the others may come between.   *)
(***************************************************************************)
EXTENDS Integers, FiniteSets

CONSTANTS
  Consultations,  \* identities of consultation requests
  Lawyers,        \* active users with the lawyer role
  Legacy,         \* the requests that may be older than recorded outcomes
  None,           \* null: no lawyer, no time
  Charged,        \* the requests whose public booking has a fee
  ClientOf,       \* the client record of a request
  PhoneOf,        \* the canonical phone of a request
  Horizon,        \* the last instant of the run
  Slots,          \* the intervals [start, end] that can be booked
  Lag,            \* how old a clock reading may be when its transaction commits
  MaxVersion      \* bound on outcomeVersion for the operations people perform

ASSUME DeskAssumption ==
  /\ None \notin Lawyers
  /\ None \notin Slots
  /\ Slots \subseteq [start : Nat, end : Nat]
  /\ \A s \in Slots : s.start < s.end
  /\ Horizon \in Nat /\ Lag \in Nat /\ MaxVersion \in Nat

VARIABLES
  now,          \* the wall clock
  request,      \* ConsultationRequest rows
  appointment,  \* Appointment rows: the primary one and one of its case
  run,          \* the maintenance pass: its clock and the rows it has selected
  reading       \* the statuses read by the payment report in hand, if any

vars == <<now, request, appointment, run, reading>>

ConsultationStatuses ==
  {"NEW", "REVIEWING", "PAYMENT_PENDING", "SCHEDULED", "CONVERTED", "REJECTED"}
FinalOutcomes == {"SUCCESSFUL", "NO_SHOW", "CANCELLED"}
Outcomes == {"PENDING", "AWAITING_RESULT", "MISSED"} \cup FinalOutcomes
Sources == {"STAFF_APPROVAL", "PUBLISHED_SLOT", "CALLBACK_REQUEST"}
ActiveStatuses == {"RESERVED", "SCHEDULED", "RESCHEDULED"}
ClosedStatuses == {"COMPLETED", "NO_SHOW", "CANCELLED"}

(* REQUEST: type CONSULTATION with a consultationRequestId; CONSULTATION:  *)
(* that type without one; OTHER: any other type.                           *)
Kinds == {"REQUEST", "CONSULTATION", "OTHER"}

Primary(c) == <<c, "primary">>     \* type CONSULTATION, caseId null
CaseMeeting(c) == <<c, "case">>    \* an appointment of the converted case
Appointments == Consultations \X {"primary", "case"}

(* status "ABSENT": the row does not exist. *)
Request == [status : ConsultationStatuses \cup {"ABSENT"}, outcome : Outcomes,
            version : Nat, lawyer : Lawyers \cup {None}, reviewed : BOOLEAN,
            source : Sources, session : BOOLEAN, asked : Slots \cup {None}]
Appointment == [status : ActiveStatuses \cup ClosedStatuses \cup {"ABSENT"},
                slot : Slots \cup {None}, lawyer : Lawyers \cup {None},
                kind : Kinds]

NewRequest(status, lawyer, source, session, asked) ==
  [status |-> status, outcome |-> "PENDING", version |-> 0, lawyer |-> lawyer,
   reviewed |-> FALSE, source |-> source, session |-> session, asked |-> asked]
NoRequest == NewRequest("ABSENT", None, "STAFF_APPROVAL", FALSE, None)
NewAppointment(status, slot, lawyer, kind) ==
  [status |-> status, slot |-> slot, lawyer |-> lawyer, kind |-> kind]
NoAppointment == NewAppointment("ABSENT", None, None, "REQUEST")
NoRun == [at |-> 0, rows |-> {}]

(* What the handler of a payment report decides on. *)
Reading == [request : ConsultationStatuses \cup {"ABSENT"},
            appointment : ActiveStatuses \cup ClosedStatuses \cup {"ABSENT"}]
NoReading == [request |-> "ABSENT", appointment |-> "ABSENT"]
Awaited == [request |-> "PAYMENT_PENDING", appointment |-> "RESERVED"]

(* Rows from before outcomes were recorded: the column starts at PENDING,  *)
(* whatever had already become of the consultation.                        *)
LegacyPairs ==
  {<<NewRequest("CONVERTED", l, "STAFF_APPROVAL", FALSE, None), NoAppointment>> : l \in Lawyers}
  \cup {<<NewRequest("REJECTED", None, "STAFF_APPROVAL", FALSE, None),
          NewAppointment("SCHEDULED", s, None, "REQUEST")>> : s \in Slots}

TypeOK ==
  /\ now \in Nat
  /\ request \in [Consultations -> Request]
  /\ appointment \in [Appointments -> Appointment]
  /\ \A a \in Appointments : appointment[a].status # "ABSENT" => appointment[a].slot \in Slots
  /\ run \in [at : Nat, rows : SUBSET Consultations]
  /\ reading \in [Consultations -> Reading]

Init ==
  /\ now = 0
  /\ \E old \in [Consultations -> LegacyPairs \cup {<<NoRequest, NoAppointment>>}] :
       /\ \A c \in Consultations \ Legacy : old[c] = <<NoRequest, NoAppointment>>
       /\ request = [c \in Consultations |-> old[c][1]]
       /\ appointment = [a \in Appointments |->
                           IF a[2] = "primary" THEN old[a[1]][2] ELSE NoAppointment]
  /\ run = NoRun
  /\ reading = [c \in Consultations |-> NoReading]

-----------------------------------------------------------------------------
(* Conflicts between appointments. *)

Active(a) == appointment[a].status \in ActiveStatuses
Overlap(s, t) == s.start < t.end /\ t.start < s.end

(* No active appointment of the scope, other than a itself, overlaps s. *)
Free(a, s, scope) ==
  \A b \in scope \ {a} : Active(b) => ~Overlap(appointment[b].slot, s)

OfficeFree(a, s) == Free(a, s, {b \in Appointments : appointment[b].kind # "OTHER"})
LawyerFree(a, s, l) == Free(a, s, {b \in Appointments : appointment[b].lawyer \in {l, None}})
ClientFree(a, s) == Free(a, s, {b \in Appointments : ClientOf[b[1]] = ClientOf[a[1]]})

Exists(c) == request[c].status # "ABSENT"
Booked(c) == appointment[Primary(c)].status # "ABSENT"
Handled(c) == request[c].lawyer # None \/ request[c].reviewed
Ended(a, t) == appointment[a].slot.end <= t
Recent == {t \in 0..now : now - t <= Lag}   \* clock readings still in use
MayRevise(c) == request[c].version < MaxVersion

Book(a, status, slot, lawyer, kind) ==
  appointment' = [appointment EXCEPT ![a] = NewAppointment(status, slot, lawyer, kind)]
Move(a, slot, lawyer) ==
  appointment' = [appointment EXCEPT ![a].status = "RESCHEDULED", ![a].slot = slot, ![a].lawyer = lawyer]
Close(a, status) == appointment' = [appointment EXCEPT ![a].status = status]

-----------------------------------------------------------------------------
(* Intake. *)

(* A request without an appointment: the public form, or the assistant's   *)
(* submission, which carries the time the client asked for.                *)
SubmitRequest(c) ==
  /\ ~Exists(c)
  /\ \E session \in BOOLEAN, asked \in Slots \cup {None} :
       /\ asked # None => session /\ asked.start > now
       /\ request' = [request EXCEPT ![c] = NewRequest("NEW", None, "STAFF_APPROVAL", session, asked)]
  /\ UNCHANGED <<now, appointment, run, reading>>

(* A consultation booked through the assistant form: reserved until it is  *)
(* paid, or scheduled at once when no fee is due.  No lawyer yet.  The     *)
(* refusal of a second booking by one contact within 24 hours is left out: *)
(* requests carry no creation time, any two may be days apart.             *)
BookPublicly(c, s) ==
  /\ ~Exists(c)
  /\ s.start > now
  /\ OfficeFree(Primary(c), s)
  /\ request' = [request EXCEPT ![c] = NewRequest(
       IF c \in Charged THEN "PAYMENT_PENDING" ELSE "SCHEDULED", None, "STAFF_APPROVAL", FALSE, None)]
  /\ Book(Primary(c), IF c \in Charged THEN "RESERVED" ELSE "SCHEDULED", s, None, "REQUEST")
  /\ UNCHANGED <<now, run, reading>>

(* A payment report for a reserved booking is in hand: the attempt is      *)
(* locked, so no second report and no expiry batch works on it, and the    *)
(* rows are read without a lock.  One that finds nothing to settle or to   *)
(* release changes nothing here; PaymentSettlement details the rest.       *)
ReadReport(c) ==
  /\ reading[c] = NoReading
  /\ request[c].status = "PAYMENT_PENDING" \/ appointment[Primary(c)].status = "RESERVED"
  /\ reading' = [reading EXCEPT ![c] =
        [request |-> request[c].status, appointment |-> appointment[Primary(c)].status]]
  /\ UNCHANGED <<now, request, appointment, run>>

(* The settlement writes both rows, whatever has become of them since.     *)
ConfirmPaid(c) ==
  /\ reading[c] = Awaited
  /\ reading' = [reading EXCEPT ![c] = NoReading]
  /\ request' = [request EXCEPT ![c].status = "SCHEDULED"]
  /\ Close(Primary(c), "SCHEDULED")
  /\ UNCHANGED <<now, run>>

(* So does the release by a failed report, each as it was read.            *)
ReleaseFailed(c) ==
  /\ reading[c] # NoReading
  /\ reading' = [reading EXCEPT ![c] = NoReading]
  /\ request' = [request EXCEPT ![c].status =
                    IF reading[c].request = "PAYMENT_PENDING" THEN "REVIEWING" ELSE @]
  /\ appointment' = [appointment EXCEPT ![Primary(c)].status =
                        IF reading[c].appointment = "RESERVED" THEN "CANCELLED" ELSE @]
  /\ UNCHANGED <<now, run>>

(* The report closes its attempt without these rows, or its transaction is *)
(* rolled back.                                                            *)
LeaveReport(c) ==
  /\ reading[c] # NoReading
  /\ reading' = [reading EXCEPT ![c] = NoReading]
  /\ UNCHANGED <<now, request, appointment, run>>

(* The expiry batches write the rows that are still reserved, and only     *)
(* after the attempt, whose lock they wait for.                            *)
ReleaseExpired(c) ==
  /\ reading[c] = NoReading
  /\ request[c].status = "PAYMENT_PENDING" \/ appointment[Primary(c)].status = "RESERVED"
  /\ request' = [request EXCEPT ![c].status = IF @ = "PAYMENT_PENDING" THEN "REVIEWING" ELSE @]
  /\ appointment' = [appointment EXCEPT ![Primary(c)].status = IF @ = "RESERVED" THEN "CANCELLED" ELSE @]
  /\ UNCHANGED <<now, run, reading>>

(* The assistant's own bookings.  A phone has one upcoming booking.        *)
Duplicate(c) ==
  \E a \in Appointments :
    /\ a[1] # c /\ PhoneOf[a[1]] = PhoneOf[c]
    /\ request[a[1]].source = "PUBLISHED_SLOT"
    /\ appointment[a].kind = "REQUEST" /\ Active(a) /\ appointment[a].slot.start > now

(* A published slot and a lawyer of the roster who can take it.            *)
Offered(c, s, l) ==
  /\ s.start > now
  /\ OfficeFree(Primary(c), s) /\ LawyerFree(Primary(c), s, l) /\ ClientFree(Primary(c), s)

DirectBook(c, s, l) ==
  /\ ~Exists(c) /\ ~Duplicate(c) /\ Offered(c, s, l)
  /\ request' = [request EXCEPT ![c] = NewRequest("SCHEDULED", l, "PUBLISHED_SLOT", TRUE, s)]
  /\ Book(Primary(c), "SCHEDULED", s, l, "REQUEST")
  /\ UNCHANGED <<now, run, reading>>

RequestCallback(c) ==
  /\ ~Exists(c) /\ ~Duplicate(c)
  /\ request' = [request EXCEPT ![c] = NewRequest("NEW", None, "CALLBACK_REQUEST", TRUE, None)]
  /\ UNCHANGED <<now, appointment, run, reading>>

(* What the client may still change: a booking made without staff approval,*)
(* not begun, without a result.                                            *)
Editable(c) ==
  /\ request[c].source # "STAFF_APPROVAL"
  /\ appointment[Primary(c)].status \in {"SCHEDULED", "RESCHEDULED"}
  /\ appointment[Primary(c)].slot.start > now
  /\ request[c].outcome = "PENDING"

DirectReschedule(c, s, l) ==
  /\ Editable(c) /\ MayRevise(c) /\ ~Duplicate(c) /\ Offered(c, s, l)
  /\ request' = [request EXCEPT ![c].lawyer = l, ![c].asked = s, ![c].version = @ + 1]
  /\ Move(Primary(c), s, l)
  /\ UNCHANGED <<now, run, reading>>

DirectCancel(c) ==
  /\ Editable(c) /\ MayRevise(c)
  /\ request' = [request EXCEPT ![c].status = "REJECTED", ![c].outcome = "CANCELLED", ![c].version = @ + 1]
  /\ Close(Primary(c), "CANCELLED")
  /\ UNCHANGED <<now, run, reading>>

(* The client asks for another time of a request staff have not booked.    *)
RequestAlternativeTime(c, s, seen) ==
  /\ request[c].session /\ request[c].status \in {"NEW", "REVIEWING"}
  /\ request[c].version = seen /\ MayRevise(c)
  /\ s.start > now
  /\ request' = [request EXCEPT ![c].asked = s, ![c].version = @ + 1]
  /\ UNCHANGED <<now, appointment, run, reading>>

-----------------------------------------------------------------------------
(* The desk.  `seen` is the version of the page the decision was made on.  *)

Schedule(c, s, l, seen) ==
  /\ request[c].version = seen /\ MayRevise(c)
  /\ request[c].outcome = "PENDING"
  /\ request[c].status \in {"NEW", "REVIEWING", "PAYMENT_PENDING", "SCHEDULED"}
  /\ ~Booked(c)
  /\ s.start > now
  /\ request[c].session => request[c].asked \in {None, s} /\ OfficeFree(Primary(c), s)
  /\ LawyerFree(Primary(c), s, l) /\ ClientFree(Primary(c), s)
  /\ request' = [request EXCEPT ![c].status = "SCHEDULED", ![c].lawyer = l,
                                ![c].reviewed = TRUE, ![c].version = @ + 1]
  /\ Book(Primary(c), "SCHEDULED", s, l, "REQUEST")
  /\ UNCHANGED <<now, run, reading>>

(* Assigning and reviewing wait for the result of a meeting that is over.  *)
Mutable(c) ==
  /\ request[c].outcome \in {"PENDING", "AWAITING_RESULT"}
  /\ ~(request[c].outcome = "PENDING" /\ Booked(c) /\ Ended(Primary(c), now))

(* Variant: assigning does not look at the lawyer's other meetings. *)
AssignUnchecked(c, l) ==
  /\ request[c].status \in {"NEW", "REVIEWING", "PAYMENT_PENDING", "SCHEDULED"}
  /\ Mutable(c)
  /\ request' = [request EXCEPT ![c].lawyer = l]
  /\ appointment' = [appointment EXCEPT ![Primary(c)].lawyer = IF Booked(c) THEN l ELSE @]
  /\ UNCHANGED <<now, run, reading>>

(* Variant: assigning leaves the appointment with its lawyer. *)
AssignRequestOnly(c, l) ==
  /\ request[c].status \in {"NEW", "REVIEWING", "PAYMENT_PENDING", "SCHEDULED"}
  /\ Mutable(c)
  /\ request' = [request EXCEPT ![c].lawyer = l]
  /\ UNCHANGED <<now, appointment, run, reading>>

Assign(c, l) ==
  /\ request[c].status \in {"NEW", "REVIEWING", "PAYMENT_PENDING", "SCHEDULED"}
  /\ Mutable(c)
  /\ Active(Primary(c)) => LawyerFree(Primary(c), appointment[Primary(c)].slot, l)
  /\ request' = [request EXCEPT ![c].lawyer = l,
                    ![c].status = IF @ = "SCHEDULED" THEN @ ELSE "REVIEWING",
                    ![c].reviewed = @ \/ request[c].status = "SCHEDULED"]
  /\ appointment' = [appointment EXCEPT ![Primary(c)].lawyer = IF Booked(c) THEN l ELSE @]
  /\ UNCHANGED <<now, run, reading>>

Review(c) ==
  /\ request[c].status \in {"NEW", "REVIEWING", "SCHEDULED"}
  /\ Mutable(c)
  /\ request' = [request EXCEPT ![c].reviewed = TRUE]
  /\ UNCHANGED <<now, appointment, run, reading>>

(* Variant: a rejection leaves the appointment standing. *)
RejectRequestOnly(c) ==
  /\ request[c].status \in {"NEW", "REVIEWING", "PAYMENT_PENDING", "SCHEDULED"}
  /\ request[c].outcome \in {"PENDING", "AWAITING_RESULT"} /\ MayRevise(c)
  /\ request' = [request EXCEPT ![c].status = "REJECTED", ![c].outcome = "CANCELLED", ![c].version = @ + 1]
  /\ UNCHANGED <<now, appointment, run, reading>>

(* The page's version is optional here. *)
Reject(c) ==
  /\ request[c].status \in {"NEW", "REVIEWING", "PAYMENT_PENDING", "SCHEDULED"}
  /\ request[c].outcome \in {"PENDING", "AWAITING_RESULT"} /\ MayRevise(c)
  /\ request' = [request EXCEPT ![c].status = "REJECTED", ![c].outcome = "CANCELLED", ![c].version = @ + 1]
  /\ appointment' = [appointment EXCEPT ![Primary(c)].status = IF Booked(c) THEN "CANCELLED" ELSE @]
  /\ UNCHANGED <<now, run, reading>>

(* The consultation becomes a case of lawyer l, perhaps with a follow-up   *)
(* meeting at s.                                                           *)
Convert(c, s, l) ==
  /\ request[c].status \in {"NEW", "REVIEWING", "PAYMENT_PENDING", "SCHEDULED"}
  /\ request[c].outcome \in {"AWAITING_RESULT", "SUCCESSFUL"}
  /\ request' = [request EXCEPT ![c].status = "CONVERTED", ![c].lawyer = l]
  /\ \/ s = None /\ UNCHANGED appointment
     \/ /\ s # None /\ LawyerFree(CaseMeeting(c), s, l)
        /\ Book(CaseMeeting(c), "SCHEDULED", s, l, "REQUEST")
  /\ UNCHANGED <<now, run, reading>>

(* Variant: the result is written to the appointment under its own name. *)
SetOutcomeVerbatim(c, outcome, seen, asOf) ==
  /\ Booked(c) /\ Ended(Primary(c), asOf)
  /\ request[c].outcome = "AWAITING_RESULT"
  /\ request' = [request EXCEPT ![c].outcome = outcome, ![c].version = seen + 1]
  /\ Close(Primary(c), outcome)
  /\ UNCHANGED <<now, run, reading>>

(* The result of a consultation, first recorded or corrected.  A converted *)
(* request that never had an appointment has no meeting to wait for.       *)
SetOutcome(c, outcome, seen, asOf) ==
  /\ Exists(c) /\ request[c].version = seen /\ MayRevise(c)
  /\ request[c].outcome \in {"AWAITING_RESULT"} \cup FinalOutcomes
  /\ request[c].outcome # outcome
  /\ IF Booked(c) THEN Ended(Primary(c), asOf) ELSE request[c].status = "CONVERTED"
  /\ request' = [request EXCEPT ![c].outcome = outcome, ![c].version = @ + 1]
  /\ appointment' = [appointment EXCEPT ![Primary(c)].status =
                        IF ~Booked(c) THEN @
                        ELSE IF outcome = "SUCCESSFUL" THEN "COMPLETED" ELSE outcome]
  /\ UNCHANGED <<now, run, reading>>

(* A consultation nobody handled in time gets a lawyer and a new time.     *)
Reopen(c, s, l, seen, asOf) ==
  /\ request[c].version = seen /\ MayRevise(c)
  /\ request[c].outcome = "MISSED"
  /\ request[c].status \notin {"REJECTED", "CONVERTED"}
  /\ Booked(c)
  /\ s.start > asOf
  /\ LawyerFree(Primary(c), s, l) /\ ClientFree(Primary(c), s)
  /\ request' = [request EXCEPT ![c].lawyer = l, ![c].reviewed = TRUE,
                                ![c].outcome = "PENDING", ![c].version = @ + 1]
  /\ Move(Primary(c), s, l)
  /\ UNCHANGED <<now, run, reading>>

-----------------------------------------------------------------------------
(* The calendar. *)

(* Bound: a case has one appointment. *)
CalendarCreate(c, s) ==
  /\ request[c].status = "CONVERTED" /\ appointment[CaseMeeting(c)].status = "ABSENT"
  /\ LawyerFree(CaseMeeting(c), s, request[c].lawyer)
  /\ \E kind \in {"CONSULTATION", "OTHER"} :
       Book(CaseMeeting(c), "SCHEDULED", s, request[c].lawyer, kind)
  /\ UNCHANGED <<now, request, run, reading>>

(* Variant: any active appointment can be moved. *)
RescheduleAnyOutcome(a, s) ==
  /\ Active(a)
  /\ LawyerFree(a, s, appointment[a].lawyer)
  /\ Move(a, s, appointment[a].lawyer)
  /\ UNCHANGED <<now, request, run, reading>>

(* The generic move.  It does not touch the request: neither its version   *)
(* nor the time the client asked for.  The new time may lie in the past.   *)
CalendarReschedule(a, s) ==
  /\ Active(a)
  /\ a = Primary(a[1]) => request[a[1]].outcome = "PENDING" /\ ~Ended(a, now)
  /\ IF appointment[a].lawyer = None THEN OfficeFree(a, s)
     ELSE LawyerFree(a, s, appointment[a].lawyer)
  /\ Move(a, s, appointment[a].lawyer)
  /\ UNCHANGED <<now, request, run, reading>>

-----------------------------------------------------------------------------
(* The maintenance worker. *)

(* The outcome a closed appointment stands for; the other names coincide.  *)
TerminalOutcome(status) == IF status = "COMPLETED" THEN "SUCCESSFUL" ELSE status

(* What has become of a pending consultation by time t: PENDING if nothing.*)
HistoricalOutcome(c, t) ==
  LET primary == appointment[Primary(c)] IN
  IF request[c].status = "REJECTED" THEN "CANCELLED"
  ELSE IF ~Booked(c) THEN IF request[c].status = "CONVERTED" THEN "AWAITING_RESULT" ELSE "PENDING"
  ELSE IF primary.status \in ClosedStatuses THEN TerminalOutcome(primary.status)
  ELSE IF ~Ended(Primary(c), t) THEN "PENDING"
  ELSE IF Handled(c) THEN "AWAITING_RESULT" ELSE "MISSED"

(* Variant: only what somebody handled is classified. *)
DueHandled(c, t) ==
  request[c].outcome = "PENDING" /\ Handled(c) /\ HistoricalOutcome(c, t) # "PENDING"

Due(c, t) == request[c].outcome = "PENDING" /\ HistoricalOutcome(c, t) # "PENDING"

StartRun ==
  /\ run = NoRun
  /\ \E c \in Consultations : Due(c, now)
  /\ run' = [at |-> now, rows |-> {c \in Consultations : Due(c, now)}]
  /\ UNCHANGED <<now, request, appointment, reading>>

LeaveRow(c) ==
  run' = IF run.rows = {c} THEN NoRun ELSE [run EXCEPT !.rows = @ \ {c}]

(* Variant: the worker's change is not a new version. *)
ReconcileUnversioned(c) ==
  /\ c \in run.rows
  /\ LeaveRow(c)
  /\ request' = [request EXCEPT ![c].outcome = HistoricalOutcome(c, run.at)]
  /\ UNCHANGED <<now, appointment, reading>>

(* The row is read again; the clock is still the one the pass began with.  *)
Reconcile(c) ==
  LET outcome == HistoricalOutcome(c, run.at) IN
  /\ c \in run.rows
  /\ LeaveRow(c)
  /\ IF Due(c, run.at)
     THEN /\ request' = [request EXCEPT ![c].outcome = outcome, ![c].version = @ + 1]
          /\ appointment' = [appointment EXCEPT ![Primary(c)].status =
                IF request[c].status = "REJECTED" /\ Booked(c) THEN "CANCELLED" ELSE @]
     ELSE UNCHANGED <<request, appointment>>
  /\ UNCHANGED <<now, reading>>

(* A serialization conflict: the row waits for the next pass. *)
LoseRace(c) ==
  /\ c \in run.rows
  /\ LeaveRow(c)
  /\ UNCHANGED <<now, request, appointment, reading>>

(* The process is stopped: the next pass selects anew. *)
StopRun ==
  /\ run.rows # {}
  /\ run' = NoRun
  /\ UNCHANGED <<now, request, appointment, reading>>

Tick == now < Horizon /\ now' = now + 1 /\ UNCHANGED <<request, appointment, run, reading>>

-----------------------------------------------------------------------------
Versions == 0..MaxVersion

ClientStep(c) ==
  \/ SubmitRequest(c) \/ RequestCallback(c) \/ DirectCancel(c)
  \/ \E s \in Slots :
       \/ BookPublicly(c, s)
       \/ \E seen \in Versions : RequestAlternativeTime(c, s, seen)
       \/ \E l \in Lawyers : DirectBook(c, s, l) \/ DirectReschedule(c, s, l)

DeskStep(c) ==
  \/ Review(c) \/ Reject(c)
  \/ \E l \in Lawyers : Assign(c, l) \/ \E s \in Slots \cup {None} : Convert(c, s, l)
  \/ \E seen \in Versions, asOf \in Recent :
       \/ \E outcome \in FinalOutcomes : SetOutcome(c, outcome, seen, asOf)
       \/ \E s \in Slots, l \in Lawyers : Reopen(c, s, l, seen, asOf)
  \/ \E s \in Slots, l \in Lawyers, seen \in Versions : Schedule(c, s, l, seen)
  \/ \E s \in Slots : CalendarCreate(c, s)

PaymentStep(c) ==
  ReadReport(c) \/ ConfirmPaid(c) \/ ReleaseFailed(c) \/ LeaveReport(c) \/ ReleaseExpired(c)

Next ==
  \/ Tick \/ StartRun \/ StopRun
  \/ \E c \in Consultations :
       \/ ClientStep(c) \/ DeskStep(c) \/ PaymentStep(c)
       \/ Reconcile(c) \/ LoseRace(c)
  \/ \E a \in Appointments, s \in Slots : CalendarReschedule(a, s)

Spec == Init /\ [][Next]_vars

(* The worker runs every minute and starts anew after a failure; a row it  *)
(* attempts again and again it settles in the end.                         *)
FairSpec ==
  /\ Spec
  /\ WF_vars(StartRun)
  /\ \A c \in Consultations : SF_vars(Reconcile(c))

-----------------------------------------------------------------------------
(* Two meetings of one lawyer at the same time. *)
Clash(a, b) ==
  /\ a # b /\ Active(a) /\ Active(b)
  /\ appointment[a].lawyer # None /\ appointment[a].lawyer = appointment[b].lawyer
  /\ Overlap(appointment[a].slot, appointment[b].slot)

(* A settlement gives back an appointment that was cancelled under it. *)
Revives(c) == ConfirmPaid(c) /\ ~Active(Primary(c))

(* No lawyer becomes promised to two meetings at once, whichever of the    *)
(* ways an appointment comes to its time and its lawyer, but by a          *)
(* settlement that revives a cancelled appointment whose time was given    *)
(* away meanwhile (assertNoAppointmentConflict; confirmPaidAttempt asks    *)
(* nothing).                                                               *)
OnlyRevivalsDoubleBook ==
  [][\A a, b \in Appointments :
       Clash(a, b)' => Clash(a, b) \/ \E c \in Consultations : Primary(c) \in {a, b} /\ Revives(c)]_vars

(* A consultation is classified by time, or given a result other than      *)
(* cancellation, only once its meeting is over, and the meeting is not     *)
(* moved into the future after that.                                       *)
RecordedAfterTheMeeting ==
  \A c \in Consultations :
    request[c].outcome \in {"AWAITING_RESULT", "MISSED", "SUCCESSFUL", "NO_SHOW"} =>
      IF Booked(c) THEN Ended(Primary(c), now) ELSE request[c].status = "CONVERTED"

(* The request and its appointment tell the same story of the result.      *)
ResultAgrees(c) ==
  request[c].outcome \in FinalOutcomes /\ Booked(c) =>
    /\ appointment[Primary(c)].status \in ClosedStatuses
    /\ TerminalOutcome(appointment[Primary(c)].status) = request[c].outcome

(* Until a request becomes a case, its appointment is with the lawyer the  *)
(* request is assigned to.                                                 *)
LawyerAgrees(c) ==
  Booked(c) /\ request[c].status # "CONVERTED" =>
    appointment[Primary(c)].lawyer = request[c].lawyer

(* A payment report writes rows that are no longer as it read them. *)
Overtaken(c) ==
  reading[c] # [request |-> request[c].status, appointment |-> appointment[Primary(c)].status]
WritesLate(c) == Overtaken(c) /\ (ConfirmPaid(c) \/ ReleaseFailed(c))

(* Cancelling, rejecting, recording, reopening and classifying write the   *)
(* result on one row, the other or both: none of them parts the rows, only *)
(* a payment report overtaken between its reads and its writes.            *)
OnlyLateReportsPartResults ==
  [][\A c \in Consultations : ResultAgrees(c) => ResultAgrees(c)' \/ WritesLate(c)]_vars

(* Nor does any of the ways to a lawyer leave the appointment with another *)
(* one, but a report that takes back the conversion it did not see.        *)
OnlyLateReportsPartLawyers ==
  [][\A c \in Consultations :
       LawyerAgrees(c) =>
         LawyerAgrees(c)' \/ (WritesLate(c) /\ request[c].status = "CONVERTED")]_vars

(* Every consultation, whichever of the handlers works on it, moves only   *)
(* as the office promises, and each move raises outcomeVersion by one: what*)
(* the optimistic checks on expectedOutcomeVersion rely on.                *)
Lifecycle == INSTANCE OutcomeLifecycle WITH
  stage <- [c \in Consultations |-> request[c].outcome],
  revision <- [c \in Consultations |-> request[c].version],
  handled <- [c \in Consultations |-> Handled(c)]
LifecycleSpec == Lifecycle!Spec

(* A booked consultation whose time has passed does not stay pending.      *)
EndedIsClassified ==
  \A c \in Consultations :
    Booked(c) /\ Ended(Primary(c), now) /\ request[c].outcome = "PENDING"
      ~> request[c].outcome # "PENDING"

=============================================================================
