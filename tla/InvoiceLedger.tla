----------------------------- MODULE InvoiceLedger -----------------------------
(***************************************************************************)
(* Invoices and the entries recorded on them: payment-ledger-service.ts,   *)
(* the invoice forms of finance-report-service.ts, and the invoices other  *)
(* components create (a gateway payment, an accepted quote).               *)
(*                                                                         *)
(* An entry is posted in one transaction that locks its invoice first, so  *)
(* it is one action.  An invoice form is two: its checks run before the    *)
(* transaction, on rows that others may change until it commits.           *)
(* One currency; an amount is a whole number of the smallest unit.         *)
(***************************************************************************)
EXTENDS Integers, Sequences, FiniteSetsExt, SequencesExt

CONSTANTS
    Invoices,     \* rows of payments, used or not yet
    Keys,         \* idempotency keys of staff submissions
    Receipts,     \* paper receipt numbers
    EntryMethods, \* CASH and BANK_TRANSFER, the methods of an entry
    FormMethods,  \* what a form's free payment method can say
    Forms,        \* invoice forms being submitted
    MaxAmount,    \* bound on an invoice's amount
    None

ASSUME InvoicesAssumption == IsFiniteSet(Invoices)
ASSUME AmountAssumption == MaxAmount \in Nat
ASSUME NoneAssumption == None \notin Invoices \cup Receipts
(* The key of a staff submission is a UUID, of an entry the server makes one   *)
(* of two fixed words.                                                        *)
ASSUME KeysAssumption == "initial" \notin Keys
(* The reference of a manual entry begins with "manual:", of a gateway        *)
(* payment with "gateway:".                                                   *)
ASSUME MethodsAssumption == "gateway" \notin EntryMethods \cup FormMethods

VARIABLES
    status,        \* payments.status; OPEN is ISSUED, PENDING or OVERDUE
    amount,        \* payments.amount
    gateway,       \* whether payments.paymentAttemptId is set
    review,        \* payments.ledgerReviewRequired
    receiptNumber, \* payments.receiptNumber, None if null
    ledger,        \* the payment_entries of each invoice, oldest first
    paid,          \* the sum of the entries' amounts, invoiceBalance().paid
    form           \* a submitted form between its checks and its transaction

invoiceVars == <<status, amount, gateway, review, receiptNumber>>
vars == <<invoiceVars, ledger, paid, form>>

Statuses == {"NONE", "DRAFT", "OPEN", "PAID", "CANCELLED"}

Amounts == 0 .. MaxAmount

(* References of collected money: a manual one names a method and a receipt, *)
(* or the invoice's own number when there is no receipt.                      *)
References ==
    ((EntryMethods \cup FormMethods) \X (Receipts \cup Invoices))
        \cup ({"gateway"} \X Invoices)

ASSUME ReferenceAssumption == None \notin References

Entry == [kind : {"SETTLEMENT", "REFUND", "REVERSAL"}, amount : Int,
          key : Keys \cup {"initial", "gateway"},
          reference : References \cup {None}, reverses : Nat]

(* A form edits the invoice `target`, or creates one if that is None. *)
FormData == [target : Invoices \cup {None}, status : Statuses \ {"NONE"},
             amount : Amounts, method : FormMethods,
             receipt : Receipts \cup {None}]

TypeOK ==
    /\ status \in [Invoices -> Statuses]
    /\ amount \in [Invoices -> Amounts]
    /\ gateway \in [Invoices -> BOOLEAN]
    /\ review \in [Invoices -> BOOLEAN]
    /\ receiptNumber \in [Invoices -> Receipts \cup {None}]
    /\ ledger \in [Invoices -> Seq(Entry)]
    /\ paid \in [Invoices -> Int]
    /\ form \in [Forms -> FormData \cup {None}]

Init ==
    /\ status = [i \in Invoices |-> "NONE"]
    /\ amount = [i \in Invoices |-> 0]
    /\ gateway = [i \in Invoices |-> FALSE]
    /\ review = [i \in Invoices |-> FALSE]
    /\ receiptNumber = [i \in Invoices |-> None]
    /\ ledger = [i \in Invoices |-> <<>>]
    /\ paid = [i \in Invoices |-> 0]
    /\ form = [f \in Forms |-> None]

--------------------------------------------------------------------------------
(* Unique indexes and checks of the database.                                *)

KeyUsed(i, k) == \E n \in DOMAIN ledger[i] : ledger[i][n].key = k

ReferenceUsed(r) ==
    \E i \in Invoices : \E n \in DOMAIN ledger[i] : ledger[i][n].reference = r

Reversed(i, n) == \E m \in DOMAIN ledger[i] : ledger[i][m].reverses = n

(* payments_manual_paid_receipt_number_unique_idx *)
PaidReceiptFree(i, r) ==
    r # None => \A j \in Invoices \ {i} :
                    status[j] = "PAID" /\ ~gateway[j] => receiptNumber[j] # r

--------------------------------------------------------------------------------
(* Entries.                                                                  *)

ReviewRequired(i) ==
    \/ review[i]
    \/ paid[i] < 0 \/ paid[i] > amount[i]
    \/ status[i] = "PAID" /\ paid[i] # amount[i]

Remaining(i) ==
    IF status[i] \in {"NONE", "DRAFT", "CANCELLED"} THEN 0
    ELSE Max({0, amount[i] - paid[i]})

(* A key that was used answers the recorded entry or a conflict. *)
Postable(i, k) ==
    /\ status[i] \notin {"NONE", "DRAFT"}
    /\ ~KeyUsed(i, k)
    /\ ~gateway[i]
    /\ ~ReviewRequired(i)

(* Variant: a refund leaves a paid invoice PAID. *)
StatusKeptPaid(i, net) ==
    IF status[i] \in {"CANCELLED", "PAID"} THEN status[i]
    ELSE IF net = amount[i] THEN "PAID" ELSE "OPEN"

StatusAfter(i, net) ==
    IF status[i] = "CANCELLED" THEN "CANCELLED"
    ELSE IF net = amount[i] THEN "PAID" ELSE "OPEN"

RecordEntry(i, e) ==
    /\ ledger' = [ledger EXCEPT ![i] = Append(@, e)]
    /\ paid' = [paid EXCEPT ![i] = @ + e.amount]

PostEntry(i, e) ==
    LET net == paid[i] + e.amount
    IN  /\ net \in 0 .. amount[i]
        /\ RecordEntry(i, e)
        /\ status' = [status EXCEPT ![i] = StatusAfter(i, net)]
        /\ StatusAfter(i, net) = "PAID" => PaidReceiptFree(i, receiptNumber[i])
        /\ UNCHANGED <<amount, gateway, review, receiptNumber, form>>

PostSettlement(i, k, a, r) ==
    /\ Postable(i, k)
    /\ status[i] # "CANCELLED"
    /\ ~ReferenceUsed(r)
    /\ PostEntry(i, [kind |-> "SETTLEMENT", amount |-> a, key |-> k,
                     reference |-> r, reverses |-> 0])

PostRefund(i, k, a) ==
    /\ Postable(i, k)
    /\ PostEntry(i, [kind |-> "REFUND", amount |-> -a, key |-> k,
                     reference |-> None, reverses |-> 0])

(* Variant: the sign of a correction is taken from its kind, like a refund's. *)
PostNegativeReversal(i, k, n) ==
    /\ Postable(i, k)
    /\ ledger[i][n].kind # "REVERSAL"
    /\ ~Reversed(i, n)
    /\ PostEntry(i, [kind |-> "REVERSAL", key |-> k, reference |-> None, reverses |-> n,
                     amount |-> 0 - Max({ledger[i][n].amount, 0 - ledger[i][n].amount})])

PostReversal(i, k, n) ==
    /\ Postable(i, k)
    /\ ledger[i][n].kind # "REVERSAL"
    /\ ~Reversed(i, n)
    /\ PostEntry(i, [kind |-> "REVERSAL", amount |-> -ledger[i][n].amount,
                     key |-> k, reference |-> None, reverses |-> n])

--------------------------------------------------------------------------------
(* Invoice forms.                                                            *)

(* The checks of createAdminPayment and updateAdminPayment that precede the  *)
(* transaction.  An amount can round to zero after it was found positive.    *)
CheckForm(f, d) ==
    /\ form[f] = None
    /\ d.target # None => status[d.target] # "NONE" /\ ~gateway[d.target]
    /\ d.status = "PAID" /\ d.receipt # None =>
           \A j \in Invoices \ {d.target} :
               status[j] = "PAID" => receiptNumber[j] # d.receipt
    /\ form' = [form EXCEPT ![f] = d]
    /\ UNCHANGED <<invoiceVars, ledger, paid>>

(* Variant: no fallback to the invoice's number. *)
ReceiptReference(i, d) == <<d.method, d.receipt>>

InitialReference(i, d) ==
    <<d.method, IF d.receipt = None THEN i ELSE d.receipt>>

(* The write of a form; a PAID one is settled in the same transaction, which *)
(* the database refuses for an amount of zero.                               *)
WriteForm(f, i, d) ==
    /\ status' = [status EXCEPT ![i] = d.status]
    /\ amount' = [amount EXCEPT ![i] = d.amount]
    /\ receiptNumber' = [receiptNumber EXCEPT ![i] = d.receipt]
    /\ form' = [form EXCEPT ![f] = None]
    /\ UNCHANGED <<gateway, review>>
    /\ \/ /\ d.status # "PAID"
          /\ UNCHANGED <<ledger, paid>>
       \/ /\ d.status = "PAID"
          /\ d.amount > 0
          /\ PaidReceiptFree(i, d.receipt)
          /\ ~ReferenceUsed(InitialReference(i, d))
          /\ RecordEntry(i, [kind |-> "SETTLEMENT", amount |-> d.amount,
                             key |-> "initial", reverses |-> 0,
                             reference |-> InitialReference(i, d)])

CreateInvoice(f, i) ==
    /\ form[f] # None
    /\ form[f].target = None
    /\ status[i] = "NONE"
    /\ WriteForm(f, i, form[f])

(* Variant: the entries are not counted again under the lock. *)
UpdateUncounted(f, i) ==
    /\ form[f] # None
    /\ form[f].target = i
    /\ ~review[i] /\ ~gateway[i]
    /\ WriteForm(f, i, form[f])

(* Variant: only an invoice paid in full counts as recorded. *)
UpdateUnlessPaid(f, i) ==
    /\ form[f] # None
    /\ form[f].target = i
    /\ status[i] # "PAID" \/ paid[i] = 0
    /\ ~review[i] /\ ~gateway[i]
    /\ WriteForm(f, i, form[f])

(* The invoice is read again under its lock. *)
UpdateInvoice(f, i) ==
    /\ form[f] # None
    /\ form[f].target = i
    /\ ledger[i] = <<>>
    /\ ~review[i] /\ ~gateway[i]
    /\ WriteForm(f, i, form[f])

(* A conflict, or an error of the database. *)
AbortForm(f) ==
    /\ form[f] # None
    /\ form' = [form EXCEPT ![f] = None]
    /\ UNCHANGED <<invoiceVars, ledger, paid>>

--------------------------------------------------------------------------------
(* Invoices of other components.                                             *)

(* An accepted quote of a service request. *)
AcceptQuote(i, a) ==
    /\ status[i] = "NONE"
    /\ status' = [status EXCEPT ![i] = IF a = 0 THEN "PAID" ELSE "OPEN"]
    /\ amount' = [amount EXCEPT ![i] = a]
    /\ UNCHANGED <<gateway, review, receiptNumber, ledger, paid, form>>

(* confirmPaidAttempt, see PaymentSettlement; one invoice for an attempt.    *)
(* The provider's transaction id is its receipt number and no paper one.     *)
SettleGateway(i, a) ==
    /\ status[i] = "NONE"
    /\ status' = [status EXCEPT ![i] = "PAID"]
    /\ amount' = [amount EXCEPT ![i] = a]
    /\ gateway' = [gateway EXCEPT ![i] = TRUE]
    /\ RecordEntry(i, [kind |-> "SETTLEMENT", amount |-> a, key |-> "gateway",
                       reference |-> <<"gateway", i>>, reverses |-> 0])
    /\ UNCHANGED <<review, receiptNumber, form>>

(* A reversal reported by the provider. *)
FlagReview(i) ==
    /\ gateway[i]
    /\ review' = [review EXCEPT ![i] = TRUE]
    /\ UNCHANGED <<status, amount, gateway, receiptNumber, ledger, paid, form>>

--------------------------------------------------------------------------------
Next ==
    \/ \E i \in Invoices, k \in Keys :
          \/ \E a \in Amounts \ {0}, r \in EntryMethods \X Receipts :
                PostSettlement(i, k, a, r)
          \/ \E a \in Amounts \ {0} : PostRefund(i, k, a)
          \/ \E n \in DOMAIN ledger[i] : PostReversal(i, k, n)
    \/ \E f \in Forms :
          \/ \E d \in FormData : CheckForm(f, d)
          \/ \E i \in Invoices : CreateInvoice(f, i) \/ UpdateInvoice(f, i)
          \/ AbortForm(f)
    \/ \E i \in Invoices :
          \/ \E a \in Amounts : AcceptQuote(i, a)
          \/ \E a \in Amounts \ {0} : SettleGateway(i, a)
          \/ FlagReview(i)

Spec == Init /\ [][Next]_vars

--------------------------------------------------------------------------------
(* Properties.                                                               *)

(* A refund, a correction, a late edit or a repeated submission never leaves  *)
(* an invoice with less than nothing or more than its total; PAID means       *)
(* collected in full, an open invoice is owed something (one of zero          *)
(* excepted), and a draft or cancelled one never holds money, although an     *)
(* edit that cancels was checked before the last entry was posted.            *)
StatusTellsBalance ==
    \A i \in Invoices :
        /\ paid[i] \in 0 .. amount[i]
        /\ status[i] = "PAID" => paid[i] = amount[i]
        /\ status[i] = "OPEN" /\ amount[i] > 0 => paid[i] < amount[i]
        /\ status[i] \in {"NONE", "DRAFT", "CANCELLED"} => ledger[i] = <<>>

Standing(i) ==
    {n \in DOMAIN ledger[i] : ledger[i][n].kind # "REVERSAL" /\ ~Reversed(i, n)}

(* The balance is the money of the entries that stand: settlements less       *)
(* refunds, without those a correction has reversed, however corrections of   *)
(* settlements and of refunds alternate.                                      *)
BalanceStands ==
    \A i \in Invoices :
        paid[i] = MapThenSumSet(LAMBDA n : ledger[i][n].amount, Standing(i))

(* "Recorded payments are immutable": once money was recorded, the total, the *)
(* kind of invoice and every entry stay, whatever form was checked before.    *)
RecordedImmutable ==
    [][\A i \in Invoices :
          ledger[i] # <<>> =>
              /\ amount'[i] = amount[i]
              /\ gateway'[i] = gateway[i]
              /\ receiptNumber'[i] = receiptNumber[i]
              /\ IsPrefix(ledger[i], ledger'[i])]_vars

(* The staff summary computes what is owed in SQL, totals of open invoices    *)
(* less their entries (aggregateInvoiceBalances); the client's page adds up   *)
(* remaining balances (groupInvoiceBalances).  Both owe the same.             *)
DueAgrees ==
    LET open == {i \in Invoices : status[i] = "OPEN"}
    IN  MapThenSumSet(LAMBDA i : amount[i], open) - MapThenSumSet(LAMBDA i : paid[i], open)
            = MapThenSumSet(Remaining, Invoices)

(* "keeps paid manual receipt numbers globally guarded": two paid manual      *)
(* invoices do not rest on settlements of the same receipt.                   *)
SettledBy(i) ==
    {ledger[i][n].reference[2] :
        n \in {m \in Standing(i) : ledger[i][m].kind = "SETTLEMENT"}}

ReceiptsGuarded ==
    \A i, j \in {k \in Invoices : status[k] = "PAID" /\ ~gateway[k]} :
        i # j => SettledBy(i) \cap SettledBy(j) = {}

================================================================================
