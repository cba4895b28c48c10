# KMT Legal: a TLA+ model of its business core

KMT Legal is the website and office system of a law firm: a Next.js server over
PostgreSQL, a maintenance worker, and a browser interface. This directory models
the parts where several actors change the same rows: web requests, provider
callbacks, office staff and the worker.

Everything that is stated here about the code refers to `src/`, the repository's
root; `src/server/...` in the text is `src/src/server/...` on disk.

## 1. Inventory

| Component | State it keeps | Operations | Interacts with | Hard behaviour | What makes it correct |
|---|---|---|---|---|---|
| Payment settlement (`payments/payment-service.ts`) | payment_attempts, payment_transactions, payment_webhook_events, and the status of the attempt's appointment and consultation | checkout, webhook, admin replay, expiry, status query | ledger, calendar, office review, worker | concurrent callbacks, late money, reordered reports, partial locks | money is never silent; a settlement stands; a reservation ends |
| Maintenance worker (`scripts/payment-maintenance.mjs`) | none of its own | expiry batches, outcome reconciliation, cleanup | the same rows | stale selection, crash between batches | it never undoes what a request did |
| Public receipt (`payment-receipt-service.ts`) | none | signed link, page | attempts, transactions | a receipt of money given back | shown only for money that is still collected |
| Invoice ledger (`payment-ledger-service.ts`) | payments, payment_entries | post, refund, reverse, gateway settlement | settlement, finance pages | double submit, over-refund, a late edit of a paid invoice | entries are append-only and never leave 0..total |
| Invoices (`admin/finance-report-service.ts`) | payments | create, edit, report | ledger | stale read before the lock | a recorded payment is immutable |
| Consultation review (`admin/consultation-review-service.ts`) | consultation_requests, appointments, cases | assign, review, approve, reject, convert | settlement, booking, outcome | serializable conflicts, retries | no double booking; a decision is made once |
| Consultation outcome (`admin/consultation-outcome-*.ts`, `scripts/consultation-outcome-maintenance.mjs`) | outcomeStatus, outcomeVersion | record a result, correct it, reopen, classify | appointments, notifications | a pass with a stale clock against staff | nothing is recorded early, every change is a promised one and a new version |
| Booking (`appointments/appointment-conflict-service.ts`, `consultations/direct-booking-*.ts`, `consultation-availability-service.ts`) | appointments | list, book, move, cancel | outcome, assistant | a lawyer assigned long after the time was fixed | intervals of one lawyer never overlap |
| Assistant turns (`consultations/conversation-session-service.ts`) | assistant_sessions, assistant_turns | message, lease, recovery, dialogue change | AI gateway, booking, accounts | slow provider, lost lease, repeated message | an answer stands, consent is never undone, private answers stay private |
| Assistant actions (`assistant-action-service.ts`) | proposals | propose, confirm, cancel | portal requests, conversations | stale snapshot, double confirm | an action is executed once, on what was shown |
| Conversations and handoff (`conversations/*.ts`) | threads, messages, claims | file the transcript, reply, claim, close | assistant, notifications | a thread opened between two answers | the office reads what was answered |
| Authentication (`auth/*.ts`), client accounts (`portal/*-service.ts`) | users, sessions, tokens | sign in, revoke, second factor, set up | all | token used twice | one use |
| Rate limiting | counters per window | consume | all routes | window edge | never more than the limit |
| Service requests, formation, content, CRM, tasks, notifications, governance, roles | one row each | edit, publish, assign | office pages | last administrator | policy before write |
| Storage, email, audit, analytics, health, installer, backup, AI gateway, pages | files, logs | | | | out of the model (see section 8) |

`PROJECT.json` lists the same components with their files and status, and under
`hazards` every place where this code can go wrong in a way that a test hardly
reaches.

## 2. Plan

In order of what the system can least afford to get wrong:

1. **PaymentSettlement** and **ReservationPromise**, the money of a reservation. Done.
2. **InvoiceLedger**: what happens to the invoice afterwards, and **FiniteSums**, the
   sums its proofs need. Done.
3. **ConsultationDesk** and **OutcomeLifecycle**: appointments, decisions, the worker's
   classification and the booking conflicts. Done; outcomes and bookings write the same
   rows in the same transactions, so they are one module and not two.
4. **AssistantConversation**: lease, turns, office transcript, action proposals and the
   link to a client. Done, in one module for the same reason.
5. Left: the life cycle of a service request with its revision check; sessions and
   one-time codes of staff; the claims of an office thread; the last administrator;
   the composition of a settled attempt with the desk's statuses (today the payment
   modules have their own abstraction of one booking, and the desk of the reports of
   one payment).

## 3. Payment settlement

The public checkout route is retired (`src/app/api/public/consultations/checkout/route.ts`
answers 410), so `CreateCheckout` models code without a caller today; the attempts
it made are still served by every other action.

### Modules

| Module | What it is |
|---|---|
| `ReservationPromise` | what the payment service promises, per reservation: reserve, settle once, release, question, reverse |
| `PaymentSettlement` | the service: one action per handler step or transaction, its properties and its inductive invariants |
| `PaymentSettlementMC` | symmetry sets for TLC |
| `PaymentSettlementProofs` | type correctness and the money invariants |
| `PaymentReleaseProofs` | reservation and booking end together, who can undo a rejection, and what a slot that stays reserved tells |
| `PaymentPromiseProofs` | evidence, review flags, the refinement, and what only a blind batch breaks |

### State

| Variable | Column or field |
|---|---|
| `attempt`, `failureCode`, `clock` | payment_attempts.status, .failureCode, and now against .expiresAt |
| `appointment`, `consultation`, `outcome` | appointments.status, consultation_requests.status and .outcomeStatus of the attempt |
| `receipt`, `ledgerReview` | the transaction named by the Payment of the attempt; payments.ledgerReviewRequired |
| `txn` | payment_transactions: status, attemptId, whether paidAt is set |
| `eventStatus`, `eventPayload`, `eventRow` | payment_webhook_events: processingStatus, normalizedPayload, transactionId |
| `stage`, `working`, `replaying`, `seen` | a request: its place, its event, whether it is a replay, what it read under the lock |
| `selected` | the ids an expiry batch has selected |

### Actions

A webhook request is three database steps. `ReceiveWebhook` records the event and
answers known and processed ones; `LockAttempt` is `SELECT ... FOR UPDATE` and the
reads after it; one of `ApplyReview`, `ApplySettlement`, `ApplyRepeatedPaid`,
`ApplyReversal`, `ApplyFailure`, `ApplyPending` is the rest of
`applyWebhookPaymentState` up to its commit, in the order of the code: transaction
row, event link, review, status. `AbortApply` is any exception, `RecordFailure` the
catch of `handlePaymentWebhook`, `Crash` the death of the process in any stage.
Between `LockAttempt` and the commit other requests and the office act: only the
attempt row is locked. Writers of an attempt row wait for the lock (`Locked`), other
rows are free, which is what read committed isolation gives. The office actions run
serializable in the code and are single steps.

An expiry batch selects (`SelectOverdue`) and writes in two steps: `SweepExpire` of the
web server looks again under the row locks, `WorkerExpire` of the worker does not.

The boundary at the expiry instant is kept: at `expiresAt` itself a payment is late
(`<=`) and the batches do not select the attempt yet (`<`), so `clock` has three values.

Amounts and texts are abstracted: a report's money is `exact`, `padded`, `other` or
`unreadable`. The code reads the amount twice, with different patterns:
`paidWebhookPayloadProblem` compares decimals, `providerReportedMoney` wants at most two
of them. Padded money (750.000 for 750.00) passes the first and fails the second. It
settles an attempt, and the transaction row says FAILED and has no `paidAt`. The
status mapping of `mapProviderPaymentStatus` gives the seven reports.

What padded money does to the properties is written into them, by name:

* `Unrecorded(a)`: the Payment of the attempt stands on a row without `paidAt`. Money
  that comes after it is not told from the settlement's own, so `NoSilentCollection`,
  `SilenceIsExpired` and the second half of `ReceiptIsHonest` except this attempt.
* `PaddingHides(e)`: a PAID report may be answered as processed beside the settlement if
  it is padded, or its attempt is `Unrecorded`, flagged or taken by a blind batch while
  padded money exists. `ProcessedPaidIsSettled` excepts these events, and no other.
* `LooseAmounts` of `ReservationPromise`: a settlement may leave no collection behind,
  and the first one recorded later passes for it (`Pass`). `KeepsPromise` is about the
  strict promise where no amount is padded, and about the loose one where some may be.

Where `MoneyForms` lacks `padded` all three exceptions are empty and the properties are
the unconditional ones; with it they say how far the damage goes. `payment_reports` has
the fourth form, `payment_concurrency` has not, and the theorems cover both.

### Runs

| Run | Instance | Shows |
|---|---|---|
| `payment_concurrency` | 1 attempt, 2 transactions, 2 events, 2 requests, 1 sweep; PAID and CANCELLED reports | races of callbacks, replays and sweeps: eight invariants and three action properties |
| `payment_reports` | 1 attempt, a row with and one without a provider id, 2 events, 1 request, 1 sweep; PAID, CANCELLED and REFUNDED reports in all four forms of money | every order of reports, what a slot left reserved tells, the refinement, and how far padded money reaches |
| `payment_maintenance` | 1 attempt, 2 events, 1 request, 1 sweep, 1 worker, fairness | with the worker's blind batch: release, liveness, and that money nobody accounts for belongs to an EXPIRED attempt (`SilenceIsExpired`) |
| `payment_stale_expiry`, `payment_after_reject`, `payment_early_refund` | 1 attempt, 1 event | three disagreements between the code and what it says, see `findings` |
| `payment_padded_amount` | 1 attempt, 2 transactions, 2 events | a second collection that nobody reviews, see `findings` |

Two requests suffice for a race on one row, because a third waits for the same lock
and finds what the second left. Two events and two rows suffice for a second collection, a
reversal of the first or second, and a redelivery. Attempts interact only through a
transaction id and through a batch: that needs two attempts, which no run has; the
theorems `PromiseKept`, `CollectionsAccounted` and `ReservationsReleased` have any number
of them. The proofs remove the other bounds too, for the safety properties.

Bounds: `AnonRows` is a pool of rows without a provider id; when it is empty such a
report can only abort. A processed event is cleaned up only when no request works
on it, since the retention is at least thirty days.

### Fairness

`FairSpec` assumes that time passes, that a request which does not crash takes its
next step, that the worker's timer fires, that its update leaves the lock queue in the
end (strong fairness: other requests may take the lock again and again), and that its
batches do not fail for ever. It assumes nothing of providers, staff or clients.

### Findings

* The worker expires a settled attempt (`payment_stale_expiry`). How far the damage
  goes is a property of its own: the Payment, its receipt's honesty and the evidence
  stay, and what is no longer accounted for is found among the EXPIRED attempts
  (`SilenceIsExpired`).
* A rejection that commits during a settlement is undone (`payment_after_reject`), but
  only by a request that held the attempt's lock before the rejection
  (`RejectionUndoneOnlyInFlight`): no redelivery and no replay that comes later does it.
* A second collection whose amount is padded is answered as processed and reviewed by
  nobody (`payment_padded_amount`), against the test "a second distinct trusted collection
  requires review"; a first one becomes a Payment on a FAILED transaction. How far that
  reaches is said above.
* A refund or dispute report for an open attempt keeps the slot reserved
  (`payment_early_refund`). Nothing else does, and the transaction row goes on saying
  so (`HeldSlotExplained`), so the office can find these slots.

## 4. Invoice ledger

### Modules

| Module | What it is |
|---|---|
| `InvoiceLedger` | invoices and their entries: postings, forms, and the invoices other components create |
| `InvoiceLedgerMC` | symmetry and the bound on entries for TLC |
| `FiniteSums` | lemmas about sums over finite sets |
| `InvoiceLedgerProofs` | type correctness, balances and their sums, immutability, corrections, collections |

### State

| Variable | Column or field |
|---|---|
| `status`, `amount`, `receiptNumber`, `review` | the columns of payments; `OPEN` stands for ISSUED, PENDING and OVERDUE |
| `gateway` | whether payments.paymentAttemptId is set |
| `ledger` | payment_entries of an invoice; `reverses` is the position of the reversed entry, `reference` is externalReference |
| `paid` | `invoiceBalance().paid`, kept as a running sum; `BalanceStands` compares it with the entries |
| `form` | a form that passed the checks before its transaction |

### Actions

`postPaymentEntry` locks the invoice before it reads anything, so `PostSettlement`,
`PostRefund` and `PostReversal` are one step each: the guards in the order of the code,
the entry, and the status that follows the balance. A repeated key answers the recorded
entry and changes nothing, so it is a disabled action. An invoice form is `CheckForm`
(gateway and receipt checks, outside the transaction) and later `CreateInvoice`,
`UpdateInvoice` (which looks again under the lock) or `AbortForm`. `AcceptQuote`,
`SettleGateway` and `FlagReview` are what service requests and the payment service do
to invoices. The unique indexes of the migrations are guards.

Four assumptions on the constants hold in the code: the invoices are finitely many
rows; a key of a staff submission is a UUID and none of the server's own two words
(`KeysAssumption`); a reference of a gateway settlement ("gateway:" and the invoice) is no manual one
("manual:" and method and receipt), which is `MethodsAssumption`; and `None`, a NULL
reference, is no reference.

Left out: dates (OVERDUE is a reading of the due date), currencies (an entry in another
currency is refused), invoice numbers, and rows imported by the migration.

### Runs

`invoice_ledger` has two invoices, three keys, a receipt with two methods, one form and
amounts up to 2, with at most four entries altogether (`EntriesBounded`): enough for a
partial settlement, a refund, its correction and another entry while a form is pending, and for
amounts of zero. Invoices interact only through receipts; more than one pending form adds
nothing to one invoice, since the lock serialises their writes. `ledger_receipts`
drops the symmetry, uses a form method spelled differently from an entry's, and
shows the finding: one receipt pays two invoices.

## 5. The consultation desk

### Modules

| Module | What it is |
|---|---|
| `OutcomeLifecycle` | what the office promises of every consultation: open, over, waiting or missed, recorded; each move a new revision |
| `ConsultationDesk` | requests and appointments with every handler that books, decides, moves, records, and the worker's pass |
| `ConsultationDeskMC` | two requests of one client and two adjacent hours |
| `ConsultationDeskProofs` | all safety properties, the calendar, and the refinement |

### State

| Variable | Column or field |
|---|---|
| `request` | consultation_requests: status, outcomeStatus, outcomeVersion, assigned lawyer, confirmationSource, requested time |
| `appointment` | appointments: the one of the request (type CONSULTATION, no case) and one meeting of its case |
| `reading` | the statuses a payment report has read and not written yet |
| `now` | the wall clock; a handler's reading may be up to `Lag` old when it commits |
| `run` | a pass of the worker: the clock it began with and the rows it selected |

### Actions

Every handler but the pass and the payment's runs in one serializable transaction
(`runAppointmentConflictTransaction`) and is one action, with the guards in the order of
the code; the version a page sends is the parameter `seen`. `Free` is
`appointmentConflictWhere` with its three scopes. `StartRun` selects, `Reconcile` reads
one row again in a transaction of its own and classifies it by the clock of the pass,
`LoseRace` is the serialization conflict after which the row waits for the next pass,
`StopRun` a restart of the process.

A payment report is two steps, as in the code: `applyWebhookPaymentState` locks the
payment attempt and nothing else, reads the two rows (`ReadReport`, kept in `reading`)
and writes them later by id: `ConfirmPaid` puts both on the calendar whatever has become
of them, `ReleaseFailed` releases what it read as reserved, `LeaveReport` is a report
without effect on them. In between the desk, the client and the worker act. The expiry
batches write under conditions on the rows themselves and wait for the attempt's lock
(`ReleaseExpired`). A booking made through the form of a request in `Charged` waits for
a payment; the others are scheduled at once.

### Run

`consultation_desk`: two requests of one phone and one client, one lawyer, slots [1,2]
and [2,3], a clock that ends at 2 (the second hour never ends, so there are always a
past and an open meeting), one request that may be older than the outcome column and one
that is charged, a
clock reading one instant old, and versions up to 2. One lawyer and two requests are
what a double booking takes; the second slot is what a move takes. `MaxVersion` bounds
only the operations people perform, never the worker. The proofs remove the bounds.

`FairSpec`: the deployment requires the maintenance worker and a cycle of 60 seconds for
the classification (`deploy/install/aapanel-pm2-update.sh` 110-118), and a failed cycle
is followed by the next, so `StartRun` is weakly fair; a row that is attempted in pass after pass is
settled in the end although any single attempt may lose its race, so `Reconcile` is
strongly fair. Nothing is assumed of people.

### What it shows

Nothing is recorded before its meeting is over, what has ended is classified, and the desk
implements `OutcomeLifecycle`. Three properties are about steps, and name the one handler
that is not serializable as their exception:

* `OnlyRevivalsDoubleBook`: a lawyer comes to two meetings at once only by `Revives`, a
  settlement that puts back an appointment which was cancelled after it was read, when its
  time had been given to another.
* `OnlyLateReportsPartResults`: request and appointment tell one result after every step
  that found them so, but the write of a report whose rows were changed under it
  (`WritesLate`). A rejection that is overwritten leaves CANCELLED on the request and
  SCHEDULED on the appointment.
* `OnlyLateReportsPartLawyers`: they name one lawyer until the request is converted, and
  the only other way to part them is a late write that takes the conversion back.

The first two exceptions are reached in this very instance: TLC refutes both properties
when the exception is dropped. The third needs a second lawyer, whom the converted case
is given to; the run has one, and the exception is there because the proof needs it. The
windows are those of `payment_after_reject`.

The promise allows somebody to take charge of a consultation in any
stage but MISSED, because the code does: a reservation that was never paid is released
and classified CANCELLED, can be corrected to SUCCESSFUL, and is then converted.

Left out: the refusal of a second request within 24 hours, opening hours and the fixed
public slots (any member of `Slots` is offered), more than one meeting of a case, and
rows from before the outcome column that are already COMPLETED or NO_SHOW.

## 6. The assistant conversation

### Modules

| Module | What it is |
|---|---|
| `AssistantConversation` | one protected conversation: the requests that send its messages statement by statement, and every other handler that writes its row |
| `AssistantConversationMC` | symmetry for TLC |
| `AssistantConversationProofs` | its safety for all messages, requests and clients |

### State

| Variable | Column or field |
|---|---|
| `session` | assistant_sessions: revision, leaseId, leaseExpiresAt against the clock (`expiry`), dialogue.mode, consultationRequestId and by whom (`booked`), clientId, the status of its thread, and whether the capability was replaced |
| `turn` | assistant_turns by message: status, which request's text it has, whose account facts are in it |
| `transcript` | the copies of turns in conversation_messages |
| `proposal`, `carried` | assistant_action_proposals.status, and how often the action was carried out |
| `req` | a request: how far it is, and what it read of the session when it began |
| `link` | the client_verification_tokens row of a mail, and what the transaction that opens it has read |

### Actions

`sendAssistantMessage` is ten actions, one per awaited statement or transaction that
decides or writes: `Begin` (read session and turn), `Acquire` or `Refused` (the
conditional update that takes the lease), `Replay` (read the turn again), `Save` (the
upsert), `LinkPrivate` (assertPrivate), `proposeAssistantAction`,
`rememberLegalMessage`, `Complete` (finalize) or `SendToOffice` or `FailTurn`, `Leave`
(finally). Between any two of them other requests, the page, the office, the clock
(`LeaseExpires`), the recovery (`Recover`) and the death of the process (`Crash`) act.
The dialogue is written whole, from what the request read: that is why a stale request
is dangerous, and the model keeps of it the mode that permits booking.

A message sent again is another request with the same message. Every other handler
locks the row or updates it conditionally and is one action, except
`completeClientVerification`: it reads the session without a lock (`OpenLink`) and
writes later.

Two pairs of adjacent statements check and then write without a lock, and anybody may
act between them: the second look at the turn (l.131) and the upsert (l.136), and the
read of a mailed link (client-verification l.67) and its writes (l.74-97). So an answered
turn can be made PENDING again by a request that has lost its lease, and a conversation
can be given to the client of an old link. Both writes have a name, `LateSave(m)` and
`LateLink`, and the three properties about answers, account facts and the office copy say
that nothing else does such a thing: `AnswersStay`, `PrivateOwned` and `TranscriptAgrees`
each except one of the two, in the step in which it happens and, for a save, in its own
message. A request that still holds its lease is never late: while the lease is on the
revision it read, nobody else can answer its message, and the check of `Replay` matters
only to one that has lost it.

`assertActive` and the transaction of `finalize` that follows
it are one step; the transaction checks the lease again, and not the capability.

### Runs

| Run | Instance | Shows |
|---|---|---|
| `assistant_conversation` | an assistant and an office message, 2 requests, 2 clients | three invariants and three action properties, 5.7 million states; both late writes happen in it, and without its exception TLC refutes each of the three |
| `assistant_orphan` | 1 message, 1 request, 1 client, fairness | the finding below |

Two requests are what a retry, a takeover and a stale read need; a request is used once
and is its own lease id. Two clients are what a change of hands needs. `MaxRevision` = 2
bounds the operations people perform (a cancelled booking may be one beyond it), never a
request's own writes or the recovery. One mail, opened once. The proofs remove these
bounds.

`FairSpec`: a request that is not killed goes on, since every provider call has a
timeout; a transaction ends; a lease runs out after 90 seconds; and the page reads the
conversation every 15 seconds while it waits for a reply, which runs the recovery.

### Finding

A reply that is PENDING without a lease is failed by nobody and offered for retry by
nobody (`assistant_orphan`): after a recovery the interrupted request still saves its
turn, an acquisition takes an expired lease over without failing its reply, and an
opened account link clears the lease of a working request. These three are all
(`OnlyThreeWaysAbandon`).

### Left out

The seven days and the 60 messages of a session; what is said, the policy checks and
tools of an answer; locale, contact and draft; the legal memory's contents; `humanOwned`
(it does not stop the assistant, by design); the permission `account_access` gives; and
what a proposal contains: whether it is stale when it is confirmed is a free choice.

## 7. What is proved

### The settlement

The theorems hold for every number of attempts, rows, events, requests and sweeps.

* `TypeCorrect`: `TypeOK` is inductive by itself.
* The inductive invariant of the money is `MoneyInv`, and it holds with any workers.
  It adds to the properties what they rest on: the lock is exclusive and what
  a request decided under it still holds when it writes (`LockedDecisionStands`: an
  attempt that was not blocked is still open), a review flag stands only on a closed
  attempt (`FlaggedClosed`, so a settlement never overwrites one), a transaction row
  is paid exactly in the statuses money can have (`RowsSound`), and the row a Payment
  names is a paid row of the same attempt (`ReceiptCollected`). What a blind batch of
  a worker can break is in it with its excuse: an attempt is `Excused` from
  `AccountedOrExcused` and `SettledOrExcused` when there are workers and it is EXPIRED.
  The assumption on payloads (`PayloadAssumption`) admits all four forms of money.
  Padded money costs `MoneyInv` one more excuse, `Unrecorded`, and nothing else.
* `ReceiptsHonest`, `ReversalsFlagged` and `SilenceFound` follow for any workers.
  `CollectionsAccounted` and `SettlementStands` assume `Workers = {}`, where nobody is
  excused; the run `payment_stale_expiry` shows that the second is false without it.
* `ProcessedAreSettled`: a PAID report answered as processed is the collection of its
  attempt, or `PaddingHides` it, with any workers. A Payment is never removed or renamed, so what is left is
  the step that makes an event PROCESSED: a settlement, or a report that found the
  Payment already naming its row, or one that found no collection to compare with. The
  companion invariant `ProcessedRowStands` says that the row of such a report keeps its
  money, unless it is padded or was given back.
* `BookingsBacked`, `ReservationsReleased` hold with any workers. `ReleaseInv` adds
  that a locked request has read every reservation that still stands
  (`LockedReadingCurrent`), although those rows are not locked: nobody else makes a
  reservation. `RejectionWindow`, from the same reading: who writes over a
  rejection read the consultation before it.
* `HeldSlotsExplained`: the slot that `payment_early_refund` shows reserved for ever always
  has a refund or dispute row beside it. An open attempt without a Payment has no paid row
  (`MoneyInv`), so a reversal's row takes the status of its report; every other end of an
  attempt releases the slot, and no later report takes the row's status away.
* `EvidenceIsKept` is an action property from `MoneyInv`, with any workers;
  `ReviewsStick` assumes `Workers = {}`.
* `PromiseKept`: under `Workers = {}` every step is a step of `ReservationPromise` or
  leaves its variables alone; of the loose promise if amounts may be padded, of the strict
  one if not.
* `OnlyBlindBatchesLower`, `OnlyBlindBatchesBreak`: with workers, the two statements
  above fail in no step but a `WorkerExpire` itself. The batch leaves no state in
  which another step breaks the promise.

The proofs changed the model's statements twice. Released reservations were first
claimed for CANCELLED attempts too; the proof failed, and there is a run of four reports,
beyond the instances above, that ends in CANCELLED with the slot reserved (a
refund while open, a late payment on a second transaction, its void, a second refund):
it is the third finding again, and `EndedUnpaid` now says which ends are meant. And
an expiry batch may release several reservations at once, so `Release` of the promise
takes a set.

Only model-checked: `ReservationEnds` (liveness under fairness is out of the prover's
reach). The assumptions are those the module names: row sets are disjoint and `None` is
in none of them.

### The ledger

For every number of invoices, forms, keys and receipts, and every `MaxAmount`:

* `LedgerTypeCorrect`, `BalanceTold`: the inductive invariant `LedgerInv` adds to
  `StatusTellsBalance` only that an invoice without entries has collected nothing
  (`UnrecordedUnpaid`). That is what makes a form harmless: it writes invoices without
  entries, hence without money, and a cancelled invoice cannot be refunded below zero.
  `StepCases` brings every step into one of five shapes, and one lemma treats each.
* `RecordedStays`: the action property, from the same invariant and a fact about `Append`.
* `CorrectionsSound`: every reversal names an earlier entry that is no reversal, takes
  back its exact amount, and is the only one to do so.
* `BalanceSums`: the running balance is the sum of the entries that stand, for ledgers of
  any length. A settlement or refund adds one standing entry; a reversal takes away the
  one it names and adds none, which is where `CorrectionsSound` is needed.
* `DueComputedTwice`: totals of open invoices less their entries are the sum of what
  remains on all invoices: a term that is 0 outside the open invoices (`LedgerInv`)
  may be summed over all.
* `CollectedOnce`: no two entries, of one invoice or of two, carry one reference, so
  money under one method and receipt, or of one gateway invoice, is recorded once. The
  gateway's settlement looks nothing up; it is unique because its invoice has no entry
  before it and no manual reference looks like its own (`SourceInv`).
* `OnlyEntriesShareReceipts`: the reach of the finding of `ledger_receipts`, without
  conditions on the methods. Two paid manual invoices that rest on settlements of one
  receipt do so under two methods, and an entry posted later is always one of the two:
  forms alone do it only with a receipt numbered like an invoice. The first half is
  `CollectedOnce`; the second rests on `ReceiptInv`, that the entry a form makes carries
  the receipt its invoice has, and that paid manual invoices have different ones.

`FiniteSums` proves what these need of `MapThenSumSet`: its equation, that the order in
which it takes the elements does not matter, that equal terms have equal sums, and what
an element more or less changes. The fold is a recursive function on subsets and the
library's induction theorems cannot be used here, so each proof takes the set of the
subsets that violate its claim and a smallest member of it
(`FS_StrictSubsetOrderingWellFounded`, `WFMin`), which is first order. Nothing of the
ledger is only model-checked but the refutation in `ledger_receipts`.

### The desk

For every number of requests and lawyers, any slots, any clock and lag:

* `TypeCorrect` and `NothingRecordedEarly` follow from the inductive invariant `DeskInv`,
  which holds row by row (`RowOK`): a handler writes one request and its appointments, so
  one lemma per action shows the row it writes, and one lemma that the others stay.
  `RowOK` adds to the properties what connects status, outcome and time in between: a
  missed request was handled by nobody, a request from the assistant is never waiting for
  a payment. The clock of a pass is never ahead of the wall clock (`RunInv`), and a
  report in hand is about a booking of the form, whatever it has become (`ReadingInv`).
* `ResultsAgree` (`OnlyLateReportsPartResults`) and `LawyersStayAgreed`
  (`OnlyLateReportsPartLawyers`) are about steps, from `DeskInv` in the first state alone:
  so they hold also of rows that an earlier late write has parted and a later handler has
  joined again.
* `NobodyBookedTwice` (`OnlyRevivalsDoubleBook`): a step that writes one appointment makes
  no new clash when the lawyer was free, or the appointment is where it was, or it has no
  lawyer, or it is not active; each of the ways to a meeting is shown to be one of these,
  assigning a lawyer later included, and a settlement that is no revival too.
* `DeskRefinesLifecycle`: every step is one of `OutcomeLifecycle` or leaves its
  variables alone.

Only model-checked: `EndedIsClassified` (liveness).

### The conversation

For every number of messages, requests and clients, and with no assumption on how long a
request sleeps between two statements; the inductive invariants are `ConvInv` and, for
the theorems about late writes, `FreeInv`.

* `TypeCorrect`, `ConsentStaysCurrent`, `CarriedOnce` need `ConvInv` only. What makes
  consent safe is `ReadCurrent`: a session read at the present revision has the present
  mode (every writer of the mode either raises the revision or holds the lease and
  writes what it read), and `HolderPending`: the turn of a working holder is the one in
  preparation, or not answered while it has not begun to write.
* `OnlyLateSavesTakeBack` (`AnswersStay`), `OnlyLateLinksExpose` (`PrivateOwned`),
  `OnlyLateSavesPart` (`TranscriptAgrees`) and `OnlyLateLinksChangeHands`: of all steps
  only a late upsert takes an answer back or parts the thread from the conversation, and
  only a late link changes the hands of a conversation or exposes account facts. Outside
  these two the code's checks are enough, whatever state an earlier late write has left.
  They rest on `FreeInv`: a thread that does not exist has no entries, a request that
  knows account facts knows its caller's, in a conversation that has a client, and a
  link that read whose the conversation was finds it still theirs.
* `OnlyThreeWaysAbandon` says that the causes listed with the finding of `assistant_orphan`
  are complete. A reply is `Tended` while the lease is with a request for
  its message that has not finished, or with one that died, whose lease runs out and is
  recovered; a save without the lease, a takeover for another message and an opened link
  are the only steps after which one is not. So a request that fails, crashes or is
  refused, and every operation of a page or the office, leaves no reply behind. That a
  tended reply then ends is liveness and not proved.
* The many small handlers are brought into one shape (`PageStep`: requests and turns
  untouched, and little done to the session) and treated once; a worker's steps are
  treated one by one.

Only model-checked: the refutation of `PendingEnds` (liveness).

## 8. Not modelled

Signature checks (a report that fails them reserves no event id and changes no
attempt), pricing rules and gateway settings (single rows, versioned, read by the
retired checkout), rendering, logging, audit rows and notifications (written in the
same transactions, read by no decision modelled here), file storage, email, AI calls,
the installer, backup and deployment scripts. Staff sign-in, roles and permissions are
assumed to let the right people act: an action of the office is enabled for somebody.
Service requests, content, tasks and CRM are mostly one row under a permission and a
revision check; the first of them is next in the plan.
