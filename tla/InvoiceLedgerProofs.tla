-------------------------- MODULE InvoiceLedgerProofs --------------------------
(***************************************************************************)
(* Safety of InvoiceLedger for every number of invoices, forms, keys,      *)
(* receipts and for every bound on amounts.                                *)
(***************************************************************************)
EXTENDS InvoiceLedger, FiniteSums, SequenceTheorems, TLAPS

(* An invoice without entries has collected nothing. *)
UnrecordedUnpaid == \A i \in Invoices : ledger[i] = <<>> => paid[i] = 0

LedgerInv == TypeOK /\ StatusTellsBalance /\ UnrecordedUnpaid

(* An entry that may be posted, and what its posting means. *)
Posting(i, e) ==
    /\ i \in Invoices
    /\ e \in Entry
    /\ status[i] \in {"OPEN", "PAID", "CANCELLED"}
    /\ status[i] = "CANCELLED" => e.amount < 0 \/ ledger[i] # <<>>
    /\ PostEntry(i, e)

(* A form that may be written: a new invoice, or one without entries. *)
Writing(f, i, d) ==
    /\ i \in Invoices
    /\ f \in Forms
    /\ d \in FormData
    /\ ledger[i] = <<>>
    /\ WriteForm(f, i, d)

--------------------------------------------------------------------------------
(* Three kinds of entry, one shape of posting. *)
LEMMA PostingShape ==
    ASSUME TypeOK, NEW i \in Invoices, NEW k \in Keys,
           \/ \E a \in Amounts \ {0}, r \in EntryMethods \X Receipts :
                 PostSettlement(i, k, a, r)
           \/ \E a \in Amounts \ {0} : PostRefund(i, k, a)
           \/ \E n \in DOMAIN ledger[i] : PostReversal(i, k, n)
    PROVE  \E e \in Entry : Posting(i, e)
  <1> USE AmountAssumption DEF Amounts
  <1>1. ASSUME NEW a \in Amounts \ {0}, NEW r \in EntryMethods \X Receipts,
               PostSettlement(i, k, a, r)
        PROVE  \E e \in Entry : Posting(i, e)
    <2> DEFINE e == [kind |-> "SETTLEMENT", amount |-> a, key |-> k,
                     reference |-> r, reverses |-> 0]
    <2>1. r \in References
      BY DEF References
    <2>2. e \in Entry
      BY <2>1 DEF Entry
    <2>3. Posting(i, e)
      BY <1>1, <2>2 DEF PostSettlement, Postable, Posting, TypeOK, Statuses
    <2> QED BY <2>2, <2>3
  <1>2. ASSUME NEW a \in Amounts \ {0}, PostRefund(i, k, a)
        PROVE  \E e \in Entry : Posting(i, e)
    <2> DEFINE e == [kind |-> "REFUND", amount |-> -a, key |-> k,
                     reference |-> None, reverses |-> 0]
    <2>1. e \in Entry /\ e.amount < 0
      BY DEF Entry
    <2>2. Posting(i, e)
      BY <1>2, <2>1 DEF PostRefund, Postable, Posting, TypeOK, Statuses
    <2> QED BY <2>1, <2>2
  <1>3. ASSUME NEW n \in DOMAIN ledger[i], PostReversal(i, k, n)
        PROVE  \E e \in Entry : Posting(i, e)
    <2> DEFINE e == [kind |-> "REVERSAL", amount |-> -ledger[i][n].amount,
                     key |-> k, reference |-> None, reverses |-> n]
    <2>1. ledger[i] \in Seq(Entry) /\ n \in Nat /\ ledger[i] # <<>>
      BY DEF TypeOK
    <2>2. ledger[i][n] \in Entry
      BY <2>1, ElementOfSeq
    <2>3. e \in Entry
      BY <2>1, <2>2 DEF Entry
    <2>4. Posting(i, e)
      BY <1>3, <2>1, <2>3 DEF PostReversal, Postable, Posting, TypeOK, Statuses
    <2> QED BY <2>3, <2>4
  <1> QED BY <1>1, <1>2, <1>3

LEMMA WritingShape ==
    ASSUME LedgerInv, NEW f \in Forms, NEW i \in Invoices,
           CreateInvoice(f, i) \/ UpdateInvoice(f, i)
    PROVE  Writing(f, i, form[f])
  BY DEF CreateInvoice, UpdateInvoice, Writing, LedgerInv, TypeOK, StatusTellsBalance

(* What recording an entry leaves typed. *)
LEMMA RecordTyped ==
    ASSUME TypeOK, NEW i \in Invoices, NEW e \in Entry, RecordEntry(i, e)
    PROVE  /\ ledger' \in [Invoices -> Seq(Entry)]
           /\ paid' \in [Invoices -> Int]
           /\ ledger'[i] = Append(ledger[i], e) /\ ledger'[i] # <<>>
           /\ paid'[i] = paid[i] + e.amount
           /\ \A j \in Invoices \ {i} : ledger'[j] = ledger[j] /\ paid'[j] = paid[j]
  <1>1. ledger[i] \in Seq(Entry) /\ paid[i] \in Int /\ e.amount \in Int
    BY DEF TypeOK, Entry
  <1>2. Append(ledger[i], e) \in Seq(Entry) /\ Append(ledger[i], e) # <<>>
    BY <1>1, AppendProperties
  <1> QED BY <1>1, <1>2 DEF RecordEntry, TypeOK

--------------------------------------------------------------------------------
(* A posting keeps the invariant: its net stays within the total, and the    *)
(* status follows the net.                                                   *)
LEMMA PostingKeeps ==
    ASSUME LedgerInv, NEW i \in Invoices, NEW e \in Entry, Posting(i, e)
    PROVE  LedgerInv'
  <1>1. /\ ledger' \in [Invoices -> Seq(Entry)]
        /\ paid' \in [Invoices -> Int]
        /\ ledger'[i] # <<>>
        /\ paid'[i] = paid[i] + e.amount
        /\ \A j \in Invoices \ {i} : ledger'[j] = ledger[j] /\ paid'[j] = paid[j]
    BY RecordTyped DEF LedgerInv, Posting, PostEntry
  <1>2. /\ paid[i] + e.amount \in 0 .. amount[i]
        /\ amount[i] \in Nat /\ paid[i] \in Int /\ e.amount \in Int
    BY AmountAssumption DEF Posting, PostEntry, LedgerInv, TypeOK, Amounts, Entry
  <1>3. status[i] # "CANCELLED"
    BY <1>2 DEF Posting, LedgerInv, UnrecordedUnpaid, StatusTellsBalance
  <1>4. /\ UNCHANGED <<amount, gateway, review, receiptNumber, form>>
        /\ status' = [status EXCEPT ![i] =
                         IF paid[i] + e.amount = amount[i] THEN "PAID" ELSE "OPEN"]
    BY <1>3 DEF Posting, PostEntry, StatusAfter
  <1>5. TypeOK'
    BY <1>1, <1>4 DEF LedgerInv, TypeOK, Statuses
  <1>6. StatusTellsBalance'
    <2>1. ASSUME NEW j \in Invoices
          PROVE  /\ paid'[j] \in 0 .. amount'[j]
                 /\ status'[j] = "PAID" => paid'[j] = amount'[j]
                 /\ status'[j] = "OPEN" /\ amount'[j] > 0 => paid'[j] < amount'[j]
                 /\ status'[j] \in {"NONE", "DRAFT", "CANCELLED"} => ledger'[j] = <<>>
      <3>1. CASE j = i
        BY <3>1, <1>1, <1>2, <1>4 DEF LedgerInv, TypeOK
      <3>2. CASE j # i
        BY <3>2, <1>1, <1>4 DEF LedgerInv, TypeOK, StatusTellsBalance
      <3> QED BY <3>1, <3>2
    <2> QED BY <2>1 DEF StatusTellsBalance
  <1>7. UnrecordedUnpaid'
    BY <1>1 DEF LedgerInv, UnrecordedUnpaid
  <1> QED BY <1>5, <1>6, <1>7 DEF LedgerInv

(* A written form keeps the invariant: the invoice had no money, and has its *)
(* whole amount if the form says PAID.                                       *)
LEMMA WritingKeeps ==
    ASSUME LedgerInv, NEW f \in Forms, NEW i \in Invoices, NEW d, Writing(f, i, d)
    PROVE  LedgerInv'
  <1> USE AmountAssumption DEF Amounts
  <1>1. /\ d \in FormData /\ ledger[i] = <<>> /\ paid[i] = 0
        /\ d.status \in Statuses \ {"NONE"} /\ d.amount \in Amounts
        /\ d.receipt \in Receipts \cup {None}
    BY DEF Writing, LedgerInv, UnrecordedUnpaid, FormData
  <1>2. /\ status' = [status EXCEPT ![i] = d.status]
        /\ amount' = [amount EXCEPT ![i] = d.amount]
        /\ receiptNumber' = [receiptNumber EXCEPT ![i] = d.receipt]
        /\ form' = [form EXCEPT ![f] = None]
        /\ UNCHANGED <<gateway, review>>
    BY DEF Writing, WriteForm
  <1>3. /\ ledger' \in [Invoices -> Seq(Entry)]
        /\ paid' \in [Invoices -> Int]
        /\ \A j \in Invoices \ {i} : ledger'[j] = ledger[j] /\ paid'[j] = paid[j]
        /\ \/ d.status # "PAID" /\ ledger'[i] = <<>> /\ paid'[i] = 0
           \/ d.status = "PAID" /\ ledger'[i] # <<>> /\ paid'[i] = d.amount
    <2>1. CASE d.status # "PAID"
      BY <2>1, <1>1 DEF Writing, WriteForm, LedgerInv, TypeOK
    <2>2. CASE d.status = "PAID"
      <3> DEFINE e == [kind |-> "SETTLEMENT", amount |-> d.amount, key |-> "initial",
                       reverses |-> 0, reference |-> InitialReference(i, d)]
      <3>1. InitialReference(i, d) \in References
        BY <1>1 DEF InitialReference, References, FormData
      <3>2. e \in Entry /\ e.amount = d.amount
        BY <3>1, <1>1 DEF Entry
      <3>3. RecordEntry(i, e)
        BY <2>2 DEF Writing, WriteForm
      <3> HIDE DEF e
      <3> QED BY <2>2, <3>2, <3>3, <1>1, RecordTyped DEF LedgerInv
    <2> QED BY <2>1, <2>2
  <1>4. TypeOK'
    BY <1>1, <1>2, <1>3 DEF LedgerInv, TypeOK
  <1>5. StatusTellsBalance'
    <2>1. ASSUME NEW j \in Invoices
          PROVE  /\ paid'[j] \in 0 .. amount'[j]
                 /\ status'[j] = "PAID" => paid'[j] = amount'[j]
                 /\ status'[j] = "OPEN" /\ amount'[j] > 0 => paid'[j] < amount'[j]
                 /\ status'[j] \in {"NONE", "DRAFT", "CANCELLED"} => ledger'[j] = <<>>
      <3>1. CASE j = i
        BY <3>1, <1>1, <1>2, <1>3 DEF LedgerInv, TypeOK
      <3>2. CASE j # i
        BY <3>2, <1>2, <1>3 DEF LedgerInv, TypeOK, StatusTellsBalance
      <3> QED BY <3>1, <3>2
    <2> QED BY <2>1 DEF StatusTellsBalance
  <1>6. UnrecordedUnpaid'
    BY <1>3 DEF LedgerInv, UnrecordedUnpaid
  <1> QED BY <1>4, <1>5, <1>6 DEF LedgerInv

(* An invoice created by another component keeps the invariant, and so does  *)
(* every step that touches no invoice's money.                               *)
LEMMA AcceptQuoteKeeps ==
    ASSUME LedgerInv, NEW i \in Invoices, NEW a \in Amounts, AcceptQuote(i, a)
    PROVE  LedgerInv'
  <1> USE AmountAssumption DEF Amounts
  <1>1. ledger[i] = <<>> /\ paid[i] = 0
    BY DEF AcceptQuote, LedgerInv, StatusTellsBalance, UnrecordedUnpaid
  <1>2. TypeOK' /\ UnrecordedUnpaid'
    BY DEF AcceptQuote, LedgerInv, TypeOK, UnrecordedUnpaid, Statuses
  <1>3. StatusTellsBalance'
    BY <1>1 DEF AcceptQuote, LedgerInv, TypeOK, StatusTellsBalance
  <1> QED BY <1>2, <1>3 DEF LedgerInv

LEMMA SettleGatewayKeeps ==
    ASSUME LedgerInv, NEW i \in Invoices, NEW a \in Amounts \ {0}, SettleGateway(i, a)
    PROVE  LedgerInv' /\ \E e \in Entry : RecordEntry(i, e)
  <1> USE AmountAssumption DEF Amounts
  <1> DEFINE e == [kind |-> "SETTLEMENT", amount |-> a, key |-> "gateway",
                   reference |-> <<"gateway", i>>, reverses |-> 0]
  <1>1. ledger[i] = <<>> /\ paid[i] = 0
    BY DEF SettleGateway, LedgerInv, StatusTellsBalance, UnrecordedUnpaid
  <1>2. e \in Entry /\ e.amount = a
    BY DEF Entry, References
  <1>3. RecordEntry(i, e)
    BY DEF SettleGateway
  <1> HIDE DEF e
  <1>4. /\ ledger' \in [Invoices -> Seq(Entry)]
        /\ paid' \in [Invoices -> Int]
        /\ ledger'[i] # <<>>
        /\ paid'[i] = a
        /\ \A j \in Invoices \ {i} : ledger'[j] = ledger[j] /\ paid'[j] = paid[j]
    BY <1>1, <1>2, <1>3, RecordTyped DEF LedgerInv
  <1>5. TypeOK' /\ UnrecordedUnpaid'
    BY <1>4 DEF SettleGateway, LedgerInv, TypeOK, UnrecordedUnpaid, Statuses
  <1>6. StatusTellsBalance'
    BY <1>4 DEF SettleGateway, LedgerInv, TypeOK, StatusTellsBalance
  <1> QED BY <1>2, <1>3, <1>5, <1>6 DEF LedgerInv

(* The steps that change no amount, status or entry. *)
Quiet == UNCHANGED <<status, amount, gateway, receiptNumber, ledger, paid>>

LEMMA QuietKeeps == LedgerInv /\ Quiet /\ TypeOK' => LedgerInv'
  BY DEF LedgerInv, Quiet, StatusTellsBalance, UnrecordedUnpaid

(* Every step is one of five. *)
LEMMA StepCases ==
    ASSUME LedgerInv, [Next]_vars
    PROVE  \/ \E i \in Invoices, e \in Entry : Posting(i, e)
           \/ \E f \in Forms, i \in Invoices, d \in FormData : Writing(f, i, d)
           \/ \E i \in Invoices, a \in Amounts : AcceptQuote(i, a)
           \/ \E i \in Invoices, a \in Amounts \ {0} : SettleGateway(i, a)
           \/ Quiet /\ TypeOK'
  <1>1. ASSUME NEW i \in Invoices, NEW k \in Keys,
               \/ \E a \in Amounts \ {0}, r \in EntryMethods \X Receipts :
                     PostSettlement(i, k, a, r)
               \/ \E a \in Amounts \ {0} : PostRefund(i, k, a)
               \/ \E n \in DOMAIN ledger[i] : PostReversal(i, k, n)
        PROVE  \E j \in Invoices, e \in Entry : Posting(j, e)
    BY <1>1, PostingShape DEF LedgerInv
  <1>2. ASSUME NEW f \in Forms, NEW i \in Invoices,
               CreateInvoice(f, i) \/ UpdateInvoice(f, i)
        PROVE  \E d \in FormData : Writing(f, i, d)
    <2>1. Writing(f, i, form[f])
      BY <1>2, WritingShape
    <2> QED BY <2>1 DEF Writing
  <1>3. ASSUME NEW f \in Forms, AbortForm(f) \/ \E d \in FormData : CheckForm(f, d)
        PROVE  Quiet /\ TypeOK'
    BY <1>3 DEF AbortForm, CheckForm, Quiet, invoiceVars, LedgerInv, TypeOK
  <1>4. ASSUME NEW i \in Invoices, FlagReview(i)
        PROVE  Quiet /\ TypeOK'
    BY <1>4 DEF FlagReview, Quiet, LedgerInv, TypeOK
  <1>5. UNCHANGED vars => Quiet /\ TypeOK'
    BY DEF vars, invoiceVars, Quiet, LedgerInv, TypeOK
  <1> QED BY <1>1, <1>2, <1>3, <1>4, <1>5 DEF Next

LEMMA LedgerInit == Init => LedgerInv
  <1> SUFFICES ASSUME Init PROVE LedgerInv
    OBVIOUS
  <1>1. <<>> \in Seq(Entry) /\ 0 \in Amounts
    BY AmountAssumption, EmptySeq DEF Amounts
  <1>2. TypeOK
    BY <1>1 DEF Init, TypeOK, Statuses
  <1> QED BY <1>2 DEF Init, LedgerInv, StatusTellsBalance, UnrecordedUnpaid

LEMMA LedgerStep == LedgerInv /\ [Next]_vars => LedgerInv'
  <1> SUFFICES ASSUME LedgerInv, [Next]_vars PROVE LedgerInv'
    OBVIOUS
  <1> QED BY StepCases, PostingKeeps, WritingKeeps, AcceptQuoteKeeps,
             SettleGatewayKeeps, QuietKeeps

(* LedgerInv is inductive. *)
LEMMA LedgerInvariant == Spec => []LedgerInv
  BY LedgerInit, LedgerStep, PTL DEF Spec

(* Every variable of the ledger keeps its type. *)
THEOREM LedgerTypeCorrect == Spec => []TypeOK
  <1>1. LedgerInv => TypeOK
    BY DEF LedgerInv
  <1> QED BY <1>1, LedgerInvariant, PTL

(* Balances stay within totals, and the status of an invoice tells whether it *)
(* is collected in full.                                                      *)
THEOREM BalanceTold == Spec => []StatusTellsBalance
  <1>1. LedgerInv => StatusTellsBalance
    BY DEF LedgerInv
  <1> QED BY <1>1, LedgerInvariant, PTL

--------------------------------------------------------------------------------
(* A recorded entry stays where it is. *)
LEMMA AppendExtends ==
    ASSUME NEW s \in Seq(Entry), NEW e \in Entry
    PROVE  IsPrefix(s, Append(s, e))
  <1>1. /\ Append(s, e) \in Seq(Entry)
        /\ Len(Append(s, e)) = Len(s) + 1
        /\ \A n \in 1 .. Len(s) : Append(s, e)[n] = s[n]
    BY AppendProperties
  <1>2. SubSeq(s, 1, Len(s)) = SubSeq(Append(s, e), 1, Len(s))
    BY <1>1
  <1> QED BY <1>1, <1>2 DEF IsPrefix

LEMMA PrefixOfSelf ==
    ASSUME NEW s \in Seq(Entry)
    PROVE  IsPrefix(s, s)
  BY DEF IsPrefix

(* Recorded payments are immutable: after the first entry the total, the kind *)
(* and the receipt of the invoice stay, and its ledger only grows.            *)
THEOREM RecordedStays == Spec => RecordedImmutable
  <1> DEFINE Kept(i) == ledger[i] # <<>> =>
                            /\ amount'[i] = amount[i]
                            /\ gateway'[i] = gateway[i]
                            /\ receiptNumber'[i] = receiptNumber[i]
                            /\ IsPrefix(ledger[i], ledger'[i])
  <1>1. LedgerInv /\ [Next]_vars => [\A i \in Invoices : Kept(i)]_vars
    <2> SUFFICES ASSUME LedgerInv, [Next]_vars, NEW j \in Invoices, ledger[j] # <<>>
                 PROVE  /\ amount'[j] = amount[j]
                        /\ gateway'[j] = gateway[j]
                        /\ receiptNumber'[j] = receiptNumber[j]
                        /\ IsPrefix(ledger[j], ledger'[j])
      OBVIOUS
    <2>0. ledger[j] \in Seq(Entry) /\ IsPrefix(ledger[j], ledger[j])
      BY PrefixOfSelf DEF LedgerInv, TypeOK
    <2>1. ASSUME NEW i \in Invoices, NEW e \in Entry, Posting(i, e)
          PROVE  /\ UNCHANGED <<amount, gateway, receiptNumber>>
                 /\ IsPrefix(ledger[j], ledger'[j])
      <3>1. UNCHANGED <<amount, gateway, receiptNumber>> /\ RecordEntry(i, e)
        BY <2>1 DEF Posting, PostEntry
      <3>2. ledger'[j] = ledger[j] \/ ledger'[j] = Append(ledger[j], e)
        BY <3>1, RecordTyped DEF LedgerInv
      <3> QED BY <3>1, <3>2, <2>0, AppendExtends
    <2>2. ASSUME NEW f \in Forms, NEW i \in Invoices, NEW d \in FormData, Writing(f, i, d)
          PROVE  /\ amount'[j] = amount[j]
                 /\ gateway'[j] = gateway[j]
                 /\ receiptNumber'[j] = receiptNumber[j]
                 /\ ledger'[j] = ledger[j]
      <3>1. j # i
        BY <2>2 DEF Writing
      <3> QED BY <2>2, <3>1 DEF Writing, WriteForm, RecordEntry, LedgerInv, TypeOK
    <2>3. ASSUME NEW i \in Invoices, status[i] = "NONE"
          PROVE  j # i
      BY <2>3 DEF LedgerInv, StatusTellsBalance
    <2>4. ASSUME NEW i \in Invoices, NEW a \in Amounts, AcceptQuote(i, a)
          PROVE  /\ amount'[j] = amount[j]
                 /\ UNCHANGED <<gateway, receiptNumber, ledger>>
      BY <2>4, <2>3 DEF AcceptQuote, LedgerInv, TypeOK
    <2>5. ASSUME NEW i \in Invoices, NEW a \in Amounts \ {0}, SettleGateway(i, a)
          PROVE  /\ amount'[j] = amount[j]
                 /\ gateway'[j] = gateway[j]
                 /\ UNCHANGED receiptNumber
                 /\ ledger'[j] = ledger[j]
      BY <2>5, <2>3 DEF SettleGateway, RecordEntry, LedgerInv, TypeOK
    <2>6. Quiet => UNCHANGED <<amount, gateway, receiptNumber, ledger>>
      BY DEF Quiet
    <2> QED BY <2>0, <2>1, <2>2, <2>4, <2>5, <2>6, StepCases
  <1> QED BY <1>1, LedgerInvariant, PTL DEF Spec, RecordedImmutable

--------------------------------------------------------------------------------
(* Corrections: a reversal names an earlier entry that is none, takes back    *)
(* exactly its amount, and is the only one to do so.                          *)
Corrects(s, m) ==
    /\ s[m].reverses \in 1 .. (m - 1)
    /\ s[s[m].reverses].kind # "REVERSAL"
    /\ s[m].amount = -s[s[m].reverses].amount
    /\ \A n \in 1 .. Len(s) : n # m => s[n].reverses # s[m].reverses

CorrectionsMatchIn(s) ==
    \A m \in 1 .. Len(s) :
        IF s[m].kind = "REVERSAL" THEN Corrects(s, m) ELSE s[m].reverses = 0

CorrectionsMatch == \A i \in Invoices : CorrectionsMatchIn(ledger[i])

(* An entry that may follow those of a ledger. *)
Fits(s, e) ==
    IF e.kind = "REVERSAL"
    THEN /\ e.reverses \in 1 .. Len(s)
         /\ s[e.reverses].kind # "REVERSAL"
         /\ e.amount = -s[e.reverses].amount
         /\ \A n \in 1 .. Len(s) : s[n].reverses # e.reverses
    ELSE e.reverses = 0

LEMMA FittingEntry ==
    ASSUME NEW s \in Seq(Entry), NEW e \in Entry, CorrectionsMatchIn(s), Fits(s, e)
    PROVE  CorrectionsMatchIn(Append(s, e))
  <1> DEFINE t == Append(s, e)
  <1>1. /\ Len(t) = Len(s) + 1
        /\ \A n \in 1 .. Len(s) : t[n] = s[n]
        /\ t[Len(s) + 1] = e
        /\ Len(s) \in Nat
    BY AppendProperties
  <1> HIDE DEF t
  <1>2. ASSUME NEW m \in 1 .. Len(s)
        PROVE  IF t[m].kind = "REVERSAL" THEN Corrects(t, m) ELSE t[m].reverses = 0
    <2>1. CASE s[m].kind = "REVERSAL"
      <3>1. Corrects(s, m)
        BY <2>1 DEF CorrectionsMatchIn
      <3>2. s[m].reverses \in 1 .. Len(s) /\ s[s[m].reverses].kind # "REVERSAL"
        BY <3>1, <1>1 DEF Corrects
      <3>3. e.reverses # s[m].reverses
        BY <3>2, <1>1 DEF Fits
      <3> QED BY <2>1, <3>1, <3>2, <3>3, <1>1 DEF Corrects
    <2>2. CASE s[m].kind # "REVERSAL"
      BY <2>2, <1>1 DEF CorrectionsMatchIn
    <2> QED BY <2>1, <2>2
  <1>3. IF e.kind = "REVERSAL" THEN Corrects(t, Len(s) + 1) ELSE e.reverses = 0
    BY <1>1 DEF Fits, Corrects
  <1> QED BY <1>1, <1>2, <1>3 DEF CorrectionsMatchIn, t

(* A step adds at most one entry to a ledger, one that fits, and its amount to *)
(* the balance.                                                                *)
Recorded(j) ==
    \/ ledger'[j] = ledger[j] /\ paid'[j] = paid[j]
    \/ \E e \in Entry : /\ ledger'[j] = Append(ledger[j], e)
                        /\ Fits(ledger[j], e)
                        /\ paid'[j] = paid[j] + e.amount

LEMMA RecordRecords ==
    ASSUME LedgerInv, NEW i \in Invoices, NEW e \in Entry, RecordEntry(i, e),
           Fits(ledger[i], e), NEW j \in Invoices
    PROVE  Recorded(j)
  BY RecordTyped DEF LedgerInv, Recorded

LEMMA StepRecords ==
    ASSUME LedgerInv, [Next]_vars, NEW j \in Invoices
    PROVE  Recorded(j)
  <1>1. LedgerInv'
    BY LedgerStep
  <1>2. ASSUME NEW i \in Invoices, NEW e, RecordEntry(i, e)
        PROVE  e \in Entry
    <2>1. /\ ledger[i] \in Seq(Entry) /\ ledger'[i] \in Seq(Entry)
          /\ ledger'[i] = Append(ledger[i], e)
      BY <1>1, <1>2 DEF LedgerInv, TypeOK, RecordEntry
    <2>2. /\ Len(ledger'[i]) = Len(ledger[i]) + 1
          /\ ledger'[i][Len(ledger[i]) + 1] = e
      BY <2>1
    <2> QED BY <2>1, <2>2, ElementOfSeq
  <1>3. ASSUME NEW i \in Invoices, NEW e, RecordEntry(i, e), Fits(ledger[i], e)
        PROVE  Recorded(j)
    BY <1>2, <1>3, RecordRecords
  <1>4. ASSUME NEW i \in Invoices, NEW k \in Keys, NEW a, NEW r, PostSettlement(i, k, a, r)
        PROVE  Recorded(j)
    BY <1>4, <1>3 DEF PostSettlement, PostEntry, Fits
  <1>5. ASSUME NEW i \in Invoices, NEW k \in Keys, NEW a, PostRefund(i, k, a)
        PROVE  Recorded(j)
    BY <1>5, <1>3 DEF PostRefund, PostEntry, Fits
  <1>6. ASSUME NEW i \in Invoices, NEW k \in Keys, NEW n \in DOMAIN ledger[i],
               PostReversal(i, k, n)
        PROVE  Recorded(j)
    <2> DEFINE e == [kind |-> "REVERSAL", amount |-> -ledger[i][n].amount,
                     key |-> k, reference |-> None, reverses |-> n]
    <2>1. DOMAIN ledger[i] = 1 .. Len(ledger[i])
      BY DEF LedgerInv, TypeOK
    <2>2. RecordEntry(i, e)
      BY <1>6 DEF PostReversal, PostEntry
    <2>3. Fits(ledger[i], e)
      BY <1>6, <2>1 DEF PostReversal, Reversed, Fits
    <2> QED BY <2>2, <2>3, <1>3
  <1>7. ASSUME NEW f \in Forms, NEW i \in Invoices,
               CreateInvoice(f, i) \/ UpdateInvoice(f, i)
        PROVE  Recorded(j)
    <2>1. CASE UNCHANGED <<ledger, paid>>
      BY <2>1 DEF Recorded
    <2>2. CASE form[f].status = "PAID"
      BY <2>2, <1>7, <1>3 DEF CreateInvoice, UpdateInvoice, WriteForm, Fits
    <2> QED BY <1>7, <2>1, <2>2 DEF CreateInvoice, UpdateInvoice, WriteForm
  <1>8. ASSUME NEW i \in Invoices, NEW a, SettleGateway(i, a)
        PROVE  Recorded(j)
    BY <1>8, <1>3 DEF SettleGateway, Fits
  <1>9. ASSUME \/ UNCHANGED vars
               \/ \E f \in Forms : AbortForm(f) \/ \E d \in FormData : CheckForm(f, d)
               \/ \E i \in Invoices : FlagReview(i) \/ \E a \in Amounts : AcceptQuote(i, a)
        PROVE  Recorded(j)
    BY <1>9 DEF vars, AbortForm, CheckForm, FlagReview, AcceptQuote, Recorded
  <1> QED BY <1>4, <1>5, <1>6, <1>7, <1>8, <1>9 DEF Next

(* Corrections alternate soundly: no entry is reversed twice, no reversal is  *)
(* reversed, and each takes back exactly what it names.                       *)
THEOREM CorrectionsSound == Spec => []CorrectionsMatch
  <1>1. Init => CorrectionsMatch
    BY DEF Init, CorrectionsMatch, CorrectionsMatchIn
  <1>2. LedgerInv /\ CorrectionsMatch /\ [Next]_vars => CorrectionsMatch'
    <2> SUFFICES ASSUME LedgerInv, CorrectionsMatch, [Next]_vars, NEW j \in Invoices
                 PROVE  CorrectionsMatchIn(ledger'[j])
      BY DEF CorrectionsMatch
    <2>1. ledger[j] \in Seq(Entry) /\ CorrectionsMatchIn(ledger[j])
      BY DEF LedgerInv, TypeOK, CorrectionsMatch
    <2> QED BY <2>1, StepRecords, FittingEntry DEF Recorded
  <1> QED BY <1>1, <1>2, LedgerInvariant, PTL DEF Spec

--------------------------------------------------------------------------------
(* The balance is the sum of the entries that stand. *)
StandingIn(s) ==
    {n \in DOMAIN s : s[n].kind # "REVERSAL" /\ ~ \E m \in DOMAIN s : s[m].reverses = n}

AmountsOf(s) == [n \in DOMAIN s |-> s[n].amount]

BalanceIn(s, total) == total = Total(AmountsOf(s), StandingIn(s))

BalancesMatch == \A i \in Invoices : BalanceIn(ledger[i], paid[i])

LEMMA StandingFinite ==
    ASSUME NEW s \in Seq(Entry)
    PROVE  /\ IsFiniteSet(StandingIn(s))
           /\ StandingIn(s) \subseteq 1 .. Len(s)
           /\ \A n \in 1 .. Len(s) : AmountsOf(s)[n] = s[n].amount /\ s[n].amount \in Int
  <1>1. DOMAIN s = 1 .. Len(s) /\ Len(s) \in Nat
    OBVIOUS
  <1>2. StandingIn(s) \subseteq 1 .. Len(s)
    BY <1>1 DEF StandingIn
  <1>3. IsFiniteSet(StandingIn(s))
    <2>1. IsFiniteSet(1 .. Len(s))
      BY <1>1, FS_Interval
    <2> QED BY <1>2, <2>1, FS_Subset
  <1>4. ASSUME NEW n \in 1 .. Len(s)
        PROVE  AmountsOf(s)[n] = s[n].amount /\ s[n].amount \in Int
    <2>1. s[n] \in Entry
      BY ElementOfSeq
    <2> QED BY <1>1, <2>1 DEF AmountsOf, Entry
  <1> QED BY <1>2, <1>3, <1>4

(* A reversal fells the entry it names; another entry stands beside the rest. *)
LEMMA StandingAfter ==
    ASSUME NEW s \in Seq(Entry), NEW e \in Entry, CorrectionsMatchIn(s), Fits(s, e)
    PROVE  StandingIn(Append(s, e)) = IF e.kind = "REVERSAL"
                                      THEN StandingIn(s) \ {e.reverses}
                                      ELSE StandingIn(s) \cup {Len(s) + 1}
  <1> DEFINE t == Append(s, e)
  <1>1. /\ DOMAIN s = 1 .. Len(s) /\ DOMAIN t = 1 .. (Len(s) + 1)
        /\ \A n \in 1 .. Len(s) : t[n] = s[n]
        /\ t[Len(s) + 1] = e
        /\ Len(s) \in Nat
    BY AppendProperties
  <1> HIDE DEF t
  <1>2. \A m \in 1 .. Len(s) : s[m].reverses # Len(s) + 1
    BY <1>1 DEF CorrectionsMatchIn, Corrects
  <1>3. e.reverses # Len(s) + 1
    BY <1>1 DEF Fits
  <1>4. ASSUME NEW n \in 1 .. Len(s)
        PROVE  n \in StandingIn(t) <=> (n \in StandingIn(s) /\ e.reverses # n)
    BY <1>1 DEF StandingIn
  <1>5. Len(s) + 1 \in StandingIn(t) <=> e.kind # "REVERSAL"
    BY <1>1, <1>2, <1>3 DEF StandingIn
  <1>6. StandingIn(t) \subseteq 1 .. (Len(s) + 1) /\ StandingIn(s) \subseteq 1 .. Len(s)
    BY <1>1 DEF StandingIn
  <1>7. e.kind # "REVERSAL" => e.reverses = 0
    BY DEF Fits
  <1>8. CASE e.kind = "REVERSAL"
    BY <1>1, <1>4, <1>5, <1>6, <1>8 DEF t
  <1>9. CASE e.kind # "REVERSAL"
    BY <1>1, <1>4, <1>5, <1>6, <1>7, <1>9 DEF t
  <1> QED BY <1>8, <1>9

LEMMA FittingBalance ==
    ASSUME NEW s \in Seq(Entry), NEW e \in Entry, CorrectionsMatchIn(s), Fits(s, e),
           NEW total, BalanceIn(s, total)
    PROVE  BalanceIn(Append(s, e), total + e.amount)
  <1> DEFINE t == Append(s, e)
             S == StandingIn(s)
             A == AmountsOf(s)
             B == AmountsOf(t)
  <1>1. /\ t \in Seq(Entry) /\ Len(t) = Len(s) + 1
        /\ \A n \in 1 .. Len(s) : t[n] = s[n]
        /\ t[Len(s) + 1] = e
        /\ Len(s) \in Nat
    BY AppendProperties
  <1>2. /\ IsFiniteSet(S) /\ S \subseteq 1 .. Len(s)
        /\ \A n \in 1 .. Len(s) : A[n] = s[n].amount /\ A[n] \in Int
    BY StandingFinite
  <1> HIDE DEF t
  <1>3. \A n \in 1 .. (Len(s) + 1) : B[n] = t[n].amount /\ B[n] \in Int
    BY <1>1, StandingFinite
  <1>4. /\ \A n \in S : A[n] = B[n] /\ A[n] \in Int /\ B[n] \in Int
        /\ B[Len(s) + 1] = e.amount /\ e.amount \in Int
        /\ Len(s) + 1 \notin S
    BY <1>1, <1>2, <1>3
  <1>5. total = Total(A, S)
    BY DEF BalanceIn
  <1> HIDE DEF S, A, B
  <1>6. total = Total(B, S) /\ total \in Int
    BY <1>2, <1>4, <1>5, TotalCongruent, TotalType
  <1>7. CASE e.kind = "REVERSAL"
    <2>1. /\ e.reverses \in S
          /\ e.amount = -A[e.reverses]
      BY <1>2, <1>7 DEF Fits, S, StandingIn
    <2>2. Total(B, S) = B[e.reverses] + Total(B, S \ {e.reverses})
      BY <1>2, <1>4, <2>1, TotalRemove
    <2>3. Total(B, S \ {e.reverses}) \in Int
      <3>1. IsFiniteSet(S \ {e.reverses})
        BY <1>2, FS_RemoveElement
      <3> QED BY <3>1, <1>4, TotalType
    <2>4. total + e.amount = Total(B, S \ {e.reverses})
      BY <2>1, <2>2, <2>3, <1>4, <1>6
    <2> QED BY <2>4, <1>7, StandingAfter DEF BalanceIn, t, B, S
  <1>8. CASE e.kind # "REVERSAL"
    <2>1. Total(B, S \cup {Len(s) + 1}) = B[Len(s) + 1] + Total(B, S)
      BY <1>2, <1>4, TotalAdd
    <2>2. total + e.amount = Total(B, S \cup {Len(s) + 1})
      BY <2>1, <1>4, <1>6
    <2> QED BY <2>2, <1>8, StandingAfter DEF BalanceIn, t, B, S
  <1> QED BY <1>7, <1>8

(* The sum of the module is this sum. *)
LEMMA BalanceForm == TypeOK /\ BalancesMatch => BalanceStands
  <1> SUFFICES ASSUME TypeOK, BalancesMatch, NEW i \in Invoices
               PROVE  paid[i] = MapThenSumSet(LAMBDA n : ledger[i][n].amount, Standing(i))
    BY DEF BalanceStands
  <1> DEFINE S == Standing(i)
             A == AmountsOf(ledger[i])
             g == CHOOSE f : f = [s \in SUBSET S |->
                     IF s = {} THEN 0 ELSE ledger[i][Pick(s)].amount + f[s \ {Pick(s)}]]
  <1>1. S = StandingIn(ledger[i])
    BY DEF Standing, StandingIn, Reversed
  <1>2. ledger[i] \in Seq(Entry)
    BY DEF TypeOK
  <1>3. /\ IsFiniteSet(S)
        /\ \A n \in S : A[n] = ledger[i][n].amount
    BY <1>1, <1>2, StandingFinite
  <1>4. MapThenSumSet(LAMBDA n : ledger[i][n].amount, Standing(i)) = g[S]
    BY DEF MapThenSumSet, MapThenFoldSet, Pick
  <1>5. ASSUME NEW f
        PROVE  Adds(f, A, S) <=>
                   f = [s \in SUBSET S |->
                           IF s = {} THEN 0 ELSE ledger[i][Pick(s)].amount + f[s \ {Pick(s)}]]
    <2>1. \A s \in SUBSET S : s # {} => A[Pick(s)] = ledger[i][Pick(s)].amount
      BY <1>3, PickIsElement
    <2> HIDE DEF A, S
    <2> QED BY <2>1 DEF Adds
  <1>6. \E f : Adds(f, A, S)
    BY <1>3, FoldExists
  <1> HIDE DEF A, S
  <1>7. Adds(g, A, S)
    BY <1>5, <1>6
  <1>8. Total(A, S) = g[S]
    <2>1. PICK f : Adds(f, A, S) /\ Total(A, S) = f[S]
      BY <1>3, TotalIsFold
    <2> HIDE DEF g
    <2> QED BY <2>1, <1>3, <1>7, FoldUnique
  <1>9. paid[i] = Total(A, S)
    BY <1>1 DEF BalancesMatch, BalanceIn, A
  <1> QED BY <1>4, <1>8, <1>9

(* The balance of an invoice is the money of the entries that stand. *)
THEOREM BalanceSums == Spec => []BalanceStands
  <1>1. Init => BalancesMatch
    <2>1. BalanceIn(<<>>, 0)
      <3>1. StandingIn(<<>>) = {}
        BY DEF StandingIn
      <3> QED BY <3>1, TotalEmpty DEF BalanceIn
    <2> QED BY <2>1 DEF Init, BalancesMatch
  <1>2. LedgerInv /\ CorrectionsMatch /\ BalancesMatch /\ [Next]_vars => BalancesMatch'
    <2> SUFFICES ASSUME LedgerInv, CorrectionsMatch, BalancesMatch, [Next]_vars,
                        NEW j \in Invoices
                 PROVE  BalanceIn(ledger'[j], paid'[j])
      BY DEF BalancesMatch
    <2>1. /\ ledger[j] \in Seq(Entry)
          /\ CorrectionsMatchIn(ledger[j])
          /\ BalanceIn(ledger[j], paid[j])
      BY DEF LedgerInv, TypeOK, CorrectionsMatch, BalancesMatch
    <2> QED BY <2>1, StepRecords, FittingBalance DEF Recorded
  <1>3. LedgerInv /\ BalancesMatch => BalanceStands
    BY BalanceForm DEF LedgerInv
  <1> QED BY <1>1, <1>2, <1>3, LedgerInvariant, CorrectionsSound, PTL DEF Spec

--------------------------------------------------------------------------------
(* What is owed, computed in two ways. *)
LEMMA RemainingOwed ==
    ASSUME LedgerInv, NEW i \in Invoices
    PROVE  Remaining(i) = IF status[i] = "OPEN" THEN amount[i] - paid[i] ELSE 0
  <1>1. /\ amount[i] \in Int /\ paid[i] \in Int /\ paid[i] <= amount[i]
        /\ status[i] \in Statuses
        /\ status[i] = "PAID" => paid[i] = amount[i]
    BY AmountAssumption DEF LedgerInv, TypeOK, StatusTellsBalance, Amounts
  <1>2. ASSUME NEW d \in Int, 0 <= d
        PROVE  Max({0, d}) = d
    BY <1>2 DEF Max
  <1>3. Max({0, amount[i] - paid[i]}) = amount[i] - paid[i]
    BY <1>1, <1>2
  <1> QED BY <1>1, <1>3 DEF Remaining, Statuses

LEMMA DueForm == LedgerInv => DueAgrees
  <1> SUFFICES ASSUME LedgerInv PROVE DueAgrees
    OBVIOUS
  <1> DEFINE S == {i \in Invoices : status[i] = "OPEN"}
             R == [i \in Invoices |-> Remaining(i)]
             g == CHOOSE f : f = [s \in SUBSET Invoices |->
                     IF s = {} THEN 0 ELSE Remaining(Pick(s)) + f[s \ {Pick(s)}]]
  <1>1. \A i \in Invoices : R[i] = IF i \in S THEN amount[i] - paid[i] ELSE 0
    BY RemainingOwed
  <1>2. \A i \in S : amount[i] \in Int /\ paid[i] \in Int
    BY AmountAssumption DEF LedgerInv, TypeOK, Amounts
  <1>3. S \in SUBSET Invoices
    OBVIOUS
  <1>4. Total(R, Invoices) = Total(amount, S) - Total(paid, S)
    <2> HIDE DEF R, S
    <2> QED BY <1>1, <1>2, <1>3, InvoicesAssumption, TotalDifference
  <1>5. MapThenSumSet(Remaining, Invoices) = g[Invoices]
    BY DEF MapThenSumSet, MapThenFoldSet, Pick
  <1>6. ASSUME NEW f
        PROVE  Adds(f, R, Invoices) <=>
                   f = [s \in SUBSET Invoices |->
                           IF s = {} THEN 0 ELSE Remaining(Pick(s)) + f[s \ {Pick(s)}]]
    <2>1. \A s \in SUBSET Invoices : s # {} => R[Pick(s)] = Remaining(Pick(s))
      BY PickIsElement
    <2> HIDE DEF R
    <2> QED BY <2>1 DEF Adds
  <1>7. \E f : Adds(f, R, Invoices)
    BY InvoicesAssumption, FoldExists
  <1>8. MapThenSumSet(Remaining, Invoices) = Total(R, Invoices)
    <2> HIDE DEF R
    <2>1. Adds(g, R, Invoices)
      BY <1>6, <1>7
    <2>2. PICK f : Adds(f, R, Invoices) /\ Total(R, Invoices) = f[Invoices]
      BY InvoicesAssumption, TotalIsFold
    <2> HIDE DEF g
    <2> QED BY <1>5, <2>1, <2>2, InvoicesAssumption, FoldUnique
  <1>9. /\ Total(amount, S) = MapThenSumSet(LAMBDA i : amount[i], S)
        /\ Total(paid, S) = MapThenSumSet(LAMBDA i : paid[i], S)
    BY DEF Total
  <1> QED BY <1>4, <1>8, <1>9 DEF DueAgrees

(* The summary's total and the client's page owe the same. *)
THEOREM DueComputedTwice == Spec => []DueAgrees
  BY DueForm, LedgerInvariant, PTL

--------------------------------------------------------------------------------
(* Collected money is recorded once: what an entry rests on, and that no      *)
(* other entry of any invoice rests on it.                                    *)
ManualReferences == (EntryMethods \cup FormMethods) \X (Receipts \cup Invoices)

Sourced(i, e) ==
    \/ e.kind # "SETTLEMENT" /\ e.reference = None
    \/ e.kind = "SETTLEMENT" /\ gateway[i] /\ e.reference = <<"gateway", i>>
    \/ e.kind = "SETTLEMENT" /\ ~gateway[i] /\ e.reference \in ManualReferences

EntriesSourced ==
    \A i \in Invoices : \A n \in 1 .. Len(ledger[i]) : Sourced(i, ledger[i][n])

GatewayIssued == \A i \in Invoices : gateway[i] => status[i] # "NONE"

ReferencesOnce ==
    \A i, j \in Invoices : \A m \in 1 .. Len(ledger[i]), n \in 1 .. Len(ledger[j]) :
        ledger[i][m].reference # None /\ ledger[i][m].reference = ledger[j][n].reference
            => i = j /\ m = n

SourceInv == EntriesSourced /\ GatewayIssued /\ ReferencesOnce

(* The kind of an invoice stays once it has an entry. *)
KindStays ==
    /\ \A j \in Invoices : ledger[j] # <<>> => gateway'[j] = gateway[j]
    /\ GatewayIssued'

(* An entry whose money no entry rests on yet. *)
FreshEntry(i, e) ==
    /\ RecordEntry(i, e)
    /\ Sourced(i, e)'
    /\ e.reference # None => ~ReferenceUsed(e.reference)

LEMMA ManualReferenceGiven ==
    ASSUME NEW i \in Invoices, NEW d \in FormData
    PROVE  InitialReference(i, d) \in ManualReferences
  BY DEF InitialReference, ManualReferences, FormData

(* The money of a gateway invoice is new: its reference names the invoice,    *)
(* which has no entry, and no manual reference looks like it.                 *)
LEMMA GatewayReferenceFree ==
    ASSUME LedgerInv, SourceInv, NEW i \in Invoices, ledger[i] = <<>>
    PROVE  ~ReferenceUsed(<<"gateway", i>>)
  <1> SUFFICES ASSUME NEW j \in Invoices, NEW n \in DOMAIN ledger[j],
                      ledger[j][n].reference = <<"gateway", i>>
               PROVE  FALSE
    BY DEF ReferenceUsed
  <1>1. ledger[j] \in Seq(Entry) /\ n \in 1 .. Len(ledger[j]) /\ ledger[j] # <<>>
    BY DEF LedgerInv, TypeOK
  <1>2. j # i
    BY <1>1
  <1>3. Sourced(j, ledger[j][n])
    BY <1>1 DEF SourceInv, EntriesSourced
  <1>4. <<"gateway", i>> # None /\ <<"gateway", i>> # <<"gateway", j>>
    BY <1>2, ReferenceAssumption DEF References
  <1>5. <<"gateway", i>> \notin ManualReferences
    BY MethodsAssumption DEF ManualReferences
  <1> QED BY <1>3, <1>4, <1>5 DEF Sourced

LEMMA PostedFresh ==
    ASSUME LedgerInv, SourceInv, NEW i \in Invoices, NEW k \in Keys,
           \/ \E a \in Amounts \ {0}, r \in EntryMethods \X Receipts :
                 PostSettlement(i, k, a, r)
           \/ \E a \in Amounts \ {0} : PostRefund(i, k, a)
           \/ \E n \in DOMAIN ledger[i] : PostReversal(i, k, n)
    PROVE  KindStays /\ \E e : FreshEntry(i, e)
  <1>1. gateway' = gateway /\ ~gateway[i]
    BY DEF PostSettlement, PostRefund, PostReversal, PostEntry, Postable
  <1>2. /\ status[i] # "NONE" /\ \A j \in Invoices \ {i} : status'[j] = status[j]
        /\ status'[i] \in {"CANCELLED", "PAID", "OPEN"}
    BY DEF PostSettlement, PostRefund, PostReversal, PostEntry, Postable, StatusAfter,
           LedgerInv, TypeOK
  <1>3. KindStays
    BY <1>1, <1>2 DEF KindStays, SourceInv, GatewayIssued
  <1>4. ASSUME NEW a, NEW r \in EntryMethods \X Receipts, PostSettlement(i, k, a, r)
        PROVE  \E e : FreshEntry(i, e)
    <2> DEFINE e == [kind |-> "SETTLEMENT", amount |-> a, key |-> k,
                     reference |-> r, reverses |-> 0]
    <2>1. RecordEntry(i, e) /\ ~ReferenceUsed(r)
      BY <1>4 DEF PostSettlement, PostEntry
    <2>2. e.kind = "SETTLEMENT" /\ e.reference = r /\ r \in ManualReferences
      BY DEF ManualReferences
    <2> HIDE DEF e
    <2>3. FreshEntry(i, e)
      BY <2>1, <2>2, <1>1 DEF FreshEntry, Sourced
    <2> QED BY <2>3
  <1>5. ASSUME NEW a, PostRefund(i, k, a)
        PROVE  \E e : FreshEntry(i, e)
    <2> DEFINE e == [kind |-> "REFUND", amount |-> -a, key |-> k,
                     reference |-> None, reverses |-> 0]
    <2>1. RecordEntry(i, e)
      BY <1>5 DEF PostRefund, PostEntry
    <2>2. e.kind # "SETTLEMENT" /\ e.reference = None
      OBVIOUS
    <2> HIDE DEF e
    <2>3. FreshEntry(i, e)
      BY <2>1, <2>2 DEF FreshEntry, Sourced
    <2> QED BY <2>3
  <1>6. ASSUME NEW n, PostReversal(i, k, n)
        PROVE  \E e : FreshEntry(i, e)
    <2> PICK e : e = [kind |-> "REVERSAL", amount |-> -ledger[i][n].amount,
                      key |-> k, reference |-> None, reverses |-> n]
      OBVIOUS
    <2>1. RecordEntry(i, e)
      BY <1>6 DEF PostReversal, PostEntry
    <2>2. e.kind # "SETTLEMENT" /\ e.reference = None
      OBVIOUS
    <2>3. FreshEntry(i, e)
      BY <2>1, <2>2 DEF FreshEntry, Sourced
    <2> QED BY <2>3
  <1> QED BY <1>3, <1>4, <1>5, <1>6

LEMMA WrittenFresh ==
    ASSUME LedgerInv, SourceInv, NEW f \in Forms, NEW i \in Invoices,
           CreateInvoice(f, i) \/ UpdateInvoice(f, i)
    PROVE  KindStays /\ (ledger' = ledger \/ \E e : FreshEntry(i, e))
  <1> DEFINE d == form[f]
  <1>1. Writing(f, i, d) /\ WriteForm(f, i, d)
    BY WritingShape DEF CreateInvoice, UpdateInvoice
  <1>2. d \in FormData /\ d.status # "NONE"
    BY <1>1 DEF Writing, FormData
  <1>3. ~gateway[i] /\ gateway' = gateway
    BY <1>1 DEF CreateInvoice, UpdateInvoice, WriteForm, SourceInv, GatewayIssued
  <1>4. status' = [status EXCEPT ![i] = d.status]
    BY <1>1 DEF WriteForm
  <1>5. KindStays
    BY <1>2, <1>3, <1>4 DEF KindStays, SourceInv, GatewayIssued, LedgerInv, TypeOK
  <1>6. CASE d.status = "PAID"
    <2> PICK e : e = [kind |-> "SETTLEMENT", amount |-> d.amount, key |-> "initial",
                      reverses |-> 0, reference |-> InitialReference(i, d)]
      OBVIOUS
    <2>1. RecordEntry(i, e) /\ ~ReferenceUsed(InitialReference(i, d))
      BY <1>1, <1>6 DEF WriteForm
    <2>2. /\ e.kind = "SETTLEMENT" /\ e.reference = InitialReference(i, d)
          /\ InitialReference(i, d) \in ManualReferences
      BY <1>2, ManualReferenceGiven
    <2> HIDE DEF d
    <2>3. FreshEntry(i, e)
      BY <2>1, <2>2, <1>3 DEF FreshEntry, Sourced
    <2> QED BY <1>5, <2>3
  <1>7. CASE d.status # "PAID"
    BY <1>1, <1>5, <1>7 DEF WriteForm
  <1> QED BY <1>6, <1>7

LEMMA SettledFresh ==
    ASSUME LedgerInv, SourceInv, NEW i \in Invoices, NEW a, SettleGateway(i, a)
    PROVE  KindStays /\ \E e : FreshEntry(i, e)
  <1> DEFINE e == [kind |-> "SETTLEMENT", amount |-> a, key |-> "gateway",
                   reference |-> <<"gateway", i>>, reverses |-> 0]
  <1>1. ledger[i] = <<>> /\ RecordEntry(i, e)
    BY DEF SettleGateway, LedgerInv, StatusTellsBalance
  <1>2. /\ gateway'[i] /\ status'[i] = "PAID"
        /\ \A j \in Invoices \ {i} : gateway'[j] = gateway[j] /\ status'[j] = status[j]
    BY DEF SettleGateway, LedgerInv, TypeOK
  <1>3. KindStays
    BY <1>1, <1>2 DEF KindStays, SourceInv, GatewayIssued
  <1>4. e.kind = "SETTLEMENT" /\ e.reference = <<"gateway", i>>
    OBVIOUS
  <1> HIDE DEF e
  <1>5. ~ReferenceUsed(<<"gateway", i>>)
    BY <1>1, GatewayReferenceFree
  <1>6. FreshEntry(i, e)
    BY <1>1, <1>2, <1>4, <1>5 DEF FreshEntry, Sourced
  <1> QED BY <1>3, <1>6

LEMMA StepFresh ==
    ASSUME LedgerInv, SourceInv, [Next]_vars
    PROVE  KindStays /\ (ledger' = ledger \/ \E i \in Invoices : \E e : FreshEntry(i, e))
  <1>1. ASSUME NEW i \in Invoices, NEW a, AcceptQuote(i, a)
        PROVE  KindStays /\ ledger' = ledger
    BY <1>1 DEF AcceptQuote, KindStays, SourceInv, GatewayIssued, LedgerInv, TypeOK
  <1>2. CASE UNCHANGED <<status, gateway, ledger>>
    BY <1>2 DEF KindStays, SourceInv, GatewayIssued
  <1>3. ASSUME \/ UNCHANGED vars
               \/ \E f \in Forms : AbortForm(f) \/ \E d \in FormData : CheckForm(f, d)
               \/ \E i \in Invoices : FlagReview(i)
        PROVE  UNCHANGED <<status, gateway, ledger>>
    BY <1>3 DEF vars, invoiceVars, AbortForm, CheckForm, FlagReview
  <1> QED BY <1>1, <1>2, <1>3, PostedFresh, WrittenFresh, SettledFresh DEF Next

LEMMA FreshKeeps ==
    ASSUME LedgerInv, LedgerInv', SourceInv, KindStays,
           NEW i \in Invoices, NEW e, FreshEntry(i, e)
    PROVE  SourceInv'
  <1>1. /\ ledger'[i] = Append(ledger[i], e) /\ ledger'[i] \in Seq(Entry)
        /\ ledger[i] \in Seq(Entry)
        /\ \A j \in Invoices \ {i} : ledger'[j] = ledger[j]
    BY DEF FreshEntry, RecordEntry, LedgerInv, TypeOK
  <1>2. /\ Len(ledger'[i]) = Len(ledger[i]) + 1 /\ Len(ledger[i]) \in Nat
        /\ ledger'[i][Len(ledger[i]) + 1] = e
        /\ \A n \in 1 .. Len(ledger[i]) : ledger'[i][n] = ledger[i][n]
    BY <1>1
  <1>3. \A j \in Invoices : \A n \in 1 .. Len(ledger'[j]) :
            \/ n \in 1 .. Len(ledger[j]) /\ ledger'[j][n] = ledger[j][n]
            \/ j = i /\ n = Len(ledger[i]) + 1 /\ ledger'[j][n] = e
    BY <1>1, <1>2
  <1>4. \A j \in Invoices : \A n \in 1 .. Len(ledger[j]) :
            e.reference # None => ledger[j][n].reference # e.reference
    BY DEF FreshEntry, ReferenceUsed, LedgerInv, TypeOK
  <1>5. ReferencesOnce'
    <2> SUFFICES ASSUME NEW j \in Invoices, NEW k \in Invoices,
                        NEW m \in 1 .. Len(ledger'[j]), NEW n \in 1 .. Len(ledger'[k]),
                        ledger'[j][m].reference # None,
                        ledger'[j][m].reference = ledger'[k][n].reference
                 PROVE  j = k /\ m = n
      BY DEF ReferencesOnce
    <2>1. CASE /\ m \in 1 .. Len(ledger[j]) /\ ledger'[j][m] = ledger[j][m]
               /\ n \in 1 .. Len(ledger[k]) /\ ledger'[k][n] = ledger[k][n]
      BY <2>1 DEF SourceInv, ReferencesOnce
    <2>2. CASE ledger'[j][m] = e /\ j = i /\ m = Len(ledger[i]) + 1
      BY <2>2, <1>3, <1>4
    <2>3. CASE ledger'[k][n] = e /\ k = i /\ n = Len(ledger[i]) + 1
      BY <2>3, <1>3, <1>4
    <2> QED BY <1>3, <2>1, <2>2, <2>3
  <1>6. EntriesSourced'
    <2> SUFFICES ASSUME NEW j \in Invoices, NEW n \in 1 .. Len(ledger'[j])
                 PROVE  Sourced(j, ledger[j][n])'
      BY DEF EntriesSourced
    <2>1. CASE j = i /\ n = Len(ledger[i]) + 1 /\ ledger'[j][n] = e
      BY <2>1 DEF FreshEntry, Sourced
    <2>2. CASE n \in 1 .. Len(ledger[j]) /\ ledger'[j][n] = ledger[j][n]
      <3>1. ledger[j] # <<>>
        BY <2>2
      <3>2. Sourced(j, ledger[j][n]) /\ gateway'[j] = gateway[j]
        BY <2>2, <3>1 DEF SourceInv, EntriesSourced, KindStays
      <3> QED BY <2>2, <3>2 DEF Sourced
    <2> QED BY <1>3, <2>1, <2>2
  <1> QED BY <1>5, <1>6 DEF SourceInv, KindStays

LEMMA SourceInvariant == Spec => []SourceInv
  <1>1. Init => SourceInv
    BY DEF Init, SourceInv, EntriesSourced, GatewayIssued, ReferencesOnce
  <1>2. LedgerInv /\ LedgerInv' /\ SourceInv /\ [Next]_vars => SourceInv'
    <2> SUFFICES ASSUME LedgerInv, LedgerInv', SourceInv, [Next]_vars PROVE SourceInv'
      OBVIOUS
    <2>1. KindStays /\ (ledger' = ledger \/ \E i \in Invoices : \E e : FreshEntry(i, e))
      BY StepFresh
    <2>2. CASE ledger' = ledger
      <3>1. \A i \in Invoices, n \in Nat : n \in 1 .. Len(ledger[i]) => ledger[i] # <<>>
        OBVIOUS
      <3> QED BY <2>1, <2>2, <3>1
              DEF SourceInv, EntriesSourced, Sourced, ReferencesOnce, KindStays
    <2> QED BY <2>1, <2>2, FreshKeeps
  <1> QED BY <1>1, <1>2, LedgerInvariant, PTL DEF Spec

(* Money collected once, under one method and receipt or by the gateway for   *)
(* one invoice, is one entry of one invoice, whichever forms, postings and    *)
(* payments race for it (payment_entries_externalReference_key,               *)
(* recordTrustedInvoiceSettlement).                                           *)
THEOREM CollectedOnce == Spec => []ReferencesOnce
  <1>1. SourceInv => ReferencesOnce
    BY DEF SourceInv
  <1> QED BY <1>1, SourceInvariant, PTL

--------------------------------------------------------------------------------
(* What a paper receipt pays: the receipt of an invoice is the one its form's *)
(* entry rests on, and paid manual invoices have different ones.              *)
InitialEntriesNumbered ==
    \A i \in Invoices : \A n \in 1 .. Len(ledger[i]) :
        ledger[i][n].key = "initial" =>
            ledger[i][n].reference[2] = IF receiptNumber[i] = None THEN i
                                        ELSE receiptNumber[i]

PaidManually(i) == status[i] = "PAID" /\ ~gateway[i]

ReceiptInv ==
    /\ \A i \in Invoices : status[i] = "NONE" => receiptNumber[i] = None
    /\ InitialEntriesNumbered
    /\ \A i, j \in Invoices :
          i # j /\ PaidManually(i) /\ PaidManually(j) =>
              receiptNumber[i] = None \/ receiptNumber[i] # receiptNumber[j]

(* A step that touches one invoice and respects the index of paid receipts.   *)
NumberedStep(i) ==
    /\ status'[i] # "NONE"
    /\ PaidManually(i)' => PaidReceiptFree(i, receiptNumber'[i])
    /\ \A j \in Invoices \ {i} :
          /\ status'[j] = status[j] /\ gateway'[j] = gateway[j]
          /\ receiptNumber'[j] = receiptNumber[j] /\ ledger'[j] = ledger[j]
    /\ \A n \in 1 .. Len(ledger'[i]) :
          ledger'[i][n].key = "initial" =>
              ledger'[i][n].reference[2] = IF receiptNumber'[i] = None THEN i
                                           ELSE receiptNumber'[i]

LEMMA NumberedKeeps ==
    ASSUME ReceiptInv, NEW i \in Invoices, NumberedStep(i)
    PROVE  ReceiptInv'
  <1>1. InitialEntriesNumbered'
    <2> SUFFICES ASSUME NEW j \in Invoices, NEW n \in 1 .. Len(ledger'[j]),
                        ledger'[j][n].key = "initial"
                 PROVE  ledger'[j][n].reference[2] =
                            IF receiptNumber'[j] = None THEN j ELSE receiptNumber'[j]
      BY DEF InitialEntriesNumbered
    <2> QED BY DEF NumberedStep, ReceiptInv, InitialEntriesNumbered
  <1>2. \A j \in Invoices : status'[j] = "NONE" => receiptNumber'[j] = None
    BY DEF NumberedStep, ReceiptInv
  <1>3. ASSUME NEW j \in Invoices, NEW k \in Invoices, j # k,
               PaidManually(j)', PaidManually(k)'
        PROVE  receiptNumber'[j] = None \/ receiptNumber'[j] # receiptNumber'[k]
    <2>1. CASE j = i
      BY <1>3, <2>1 DEF NumberedStep, PaidReceiptFree, PaidManually
    <2>2. CASE k = i
      BY <1>3, <2>2 DEF NumberedStep, PaidReceiptFree, PaidManually
    <2>3. CASE j # i /\ k # i
      BY <1>3, <2>3 DEF NumberedStep, PaidManually, ReceiptInv
    <2> QED BY <2>1, <2>2, <2>3
  <1> QED BY <1>1, <1>2, <1>3 DEF ReceiptInv

(* What is recorded on one invoice. *)
LEMMA RecordedLast ==
    ASSUME LedgerInv, NEW i \in Invoices, NEW e, RecordEntry(i, e)
    PROVE  /\ \A j \in Invoices \ {i} : ledger'[j] = ledger[j]
           /\ \A n \in 1 .. Len(ledger'[i]) :
                 \/ n \in 1 .. Len(ledger[i]) /\ ledger'[i][n] = ledger[i][n]
                 \/ ledger'[i][n] = e
  <1>1. /\ ledger'[i] = Append(ledger[i], e)
        /\ \A j \in Invoices \ {i} : ledger'[j] = ledger[j]
    BY DEF RecordEntry, LedgerInv, TypeOK
  <1>2. PICK s \in Seq(Entry) : s = ledger[i]
    BY DEF LedgerInv, TypeOK
  <1>3. /\ Len(Append(s, e)) = Len(s) + 1
        /\ Append(s, e)[Len(s) + 1] = e
        /\ \A n \in 1 .. Len(s) : Append(s, e)[n] = s[n]
    OBVIOUS
  <1> QED BY <1>1, <1>2, <1>3

LEMMA PostedNumbered ==
    ASSUME LedgerInv, ReceiptInv, NEW i \in Invoices, NEW k \in Keys,
           \/ \E a \in Amounts \ {0}, r \in EntryMethods \X Receipts :
                 PostSettlement(i, k, a, r)
           \/ \E a \in Amounts \ {0} : PostRefund(i, k, a)
           \/ \E n \in DOMAIN ledger[i] : PostReversal(i, k, n)
    PROVE  NumberedStep(i)
  <1>1. PICK e : e.key = k /\ PostEntry(i, e)
    BY DEF PostSettlement, PostRefund, PostReversal
  <1>2. status[i] # "NONE"
    BY DEF PostSettlement, PostRefund, PostReversal, Postable
  <1>3. /\ status' = [status EXCEPT ![i] = StatusAfter(i, paid[i] + e.amount)]
        /\ StatusAfter(i, paid[i] + e.amount) = "PAID" =>
               PaidReceiptFree(i, receiptNumber[i])
        /\ UNCHANGED <<gateway, receiptNumber>>
        /\ RecordEntry(i, e)
    BY <1>1 DEF PostEntry
  <1>4. StatusAfter(i, paid[i] + e.amount) \in {"CANCELLED", "PAID", "OPEN"}
    BY DEF StatusAfter
  <1>5. /\ status'[i] # "NONE"
        /\ PaidManually(i)' => PaidReceiptFree(i, receiptNumber'[i])
        /\ \A j \in Invoices \ {i} : status'[j] = status[j]
    BY <1>3, <1>4 DEF PaidManually, LedgerInv, TypeOK
  <1>6. k # "initial"
    BY KeysAssumption
  <1>7. /\ \A j \in Invoices \ {i} : ledger'[j] = ledger[j]
        /\ \A n \in 1 .. Len(ledger'[i]) :
              \/ n \in 1 .. Len(ledger[i]) /\ ledger'[i][n] = ledger[i][n]
              \/ ledger'[i][n] = e
    BY <1>3, RecordedLast
  <1> QED BY <1>1, <1>3, <1>5, <1>6, <1>7
          DEF NumberedStep, ReceiptInv, InitialEntriesNumbered

LEMMA WrittenNumbered ==
    ASSUME LedgerInv, ReceiptInv, NEW f \in Forms, NEW i \in Invoices,
           CreateInvoice(f, i) \/ UpdateInvoice(f, i)
    PROVE  NumberedStep(i)
  <1> PICK d : d = form[f]
    OBVIOUS
  <1>1. d \in FormData /\ ledger[i] = <<>> /\ WriteForm(f, i, d)
    BY WritingShape DEF Writing
  <1>2. /\ status' = [status EXCEPT ![i] = d.status]
        /\ receiptNumber' = [receiptNumber EXCEPT ![i] = d.receipt]
        /\ gateway' = gateway
        /\ d.status = "PAID" => PaidReceiptFree(i, d.receipt)
    BY <1>1 DEF WriteForm
  <1>3. /\ status'[i] = d.status /\ d.status # "NONE" /\ receiptNumber'[i] = d.receipt
        /\ \A j \in Invoices \ {i} : status'[j] = status[j]
                                     /\ receiptNumber'[j] = receiptNumber[j]
    BY <1>1, <1>2 DEF FormData, LedgerInv, TypeOK
  <1>4. PaidManually(i)' => PaidReceiptFree(i, receiptNumber'[i])
    BY <1>2, <1>3 DEF PaidManually
  <1>5. CASE d.status # "PAID"
    BY <1>1, <1>2, <1>3, <1>4, <1>5 DEF WriteForm, NumberedStep
  <1>6. CASE d.status = "PAID"
    <2> PICK e : e = [kind |-> "SETTLEMENT", amount |-> d.amount, key |-> "initial",
                      reverses |-> 0, reference |-> InitialReference(i, d)]
      OBVIOUS
    <2>1. RecordEntry(i, e)
      BY <1>1, <1>6 DEF WriteForm
    <2>2. e.reference[2] = IF d.receipt = None THEN i ELSE d.receipt
      BY DEF InitialReference
    <2>3. /\ \A j \in Invoices \ {i} : ledger'[j] = ledger[j]
          /\ \A n \in 1 .. Len(ledger'[i]) : ledger'[i][n] = e
      BY <1>1, <2>1, RecordedLast
    <2> QED BY <1>2, <1>3, <1>4, <2>2, <2>3 DEF NumberedStep
  <1> QED BY <1>5, <1>6

LEMMA CreatedNumbered ==
    ASSUME LedgerInv, ReceiptInv, NEW i \in Invoices, NEW a,
           AcceptQuote(i, a) \/ SettleGateway(i, a)
    PROVE  NumberedStep(i)
  <1>1. ledger[i] = <<>> /\ receiptNumber[i] = None /\ receiptNumber' = receiptNumber
    BY DEF AcceptQuote, SettleGateway, LedgerInv, StatusTellsBalance, ReceiptInv
  <1>2. CASE AcceptQuote(i, a)
    BY <1>1, <1>2 DEF AcceptQuote, NumberedStep, PaidReceiptFree, LedgerInv, TypeOK
  <1>3. CASE SettleGateway(i, a)
    <2> PICK e : e = [kind |-> "SETTLEMENT", amount |-> a, key |-> "gateway",
                      reference |-> <<"gateway", i>>, reverses |-> 0]
      OBVIOUS
    <2>1. RecordEntry(i, e)
      BY <1>3 DEF SettleGateway
    <2>2. /\ \A j \in Invoices \ {i} : ledger'[j] = ledger[j]
          /\ \A n \in 1 .. Len(ledger'[i]) : ledger'[i][n].key = "gateway"
      BY <1>1, <2>1, RecordedLast
    <2>3. /\ status'[i] = "PAID" /\ gateway'[i]
          /\ \A j \in Invoices \ {i} : status'[j] = status[j] /\ gateway'[j] = gateway[j]
      BY <1>3 DEF SettleGateway, LedgerInv, TypeOK
    <2> QED BY <1>1, <2>2, <2>3 DEF NumberedStep, PaidManually
  <1> QED BY <1>2, <1>3

LEMMA ReceiptInvariant == Spec => []ReceiptInv
  <1>1. Init => ReceiptInv
    BY DEF Init, ReceiptInv, InitialEntriesNumbered, PaidManually
  <1>2. LedgerInv /\ ReceiptInv /\ [Next]_vars => ReceiptInv'
    <2> SUFFICES ASSUME LedgerInv, ReceiptInv, [Next]_vars PROVE ReceiptInv'
      OBVIOUS
    <2>1. CASE UNCHANGED <<status, gateway, receiptNumber, ledger>>
      BY <2>1 DEF ReceiptInv, InitialEntriesNumbered, PaidManually
    <2>2. ASSUME \/ UNCHANGED vars
                 \/ \E f \in Forms : AbortForm(f) \/ \E d \in FormData : CheckForm(f, d)
                 \/ \E i \in Invoices : FlagReview(i)
          PROVE  UNCHANGED <<status, gateway, receiptNumber, ledger>>
      BY <2>2 DEF vars, invoiceVars, AbortForm, CheckForm, FlagReview
    <2>3. CASE \E i \in Invoices : NumberedStep(i)
      BY <2>3, NumberedKeeps
    <2> QED BY <2>1, <2>2, <2>3, PostedNumbered, WrittenNumbered, CreatedNumbered DEF Next
  <1> QED BY <1>1, <1>2, LedgerInvariant, PTL DEF Spec

(* How far one paper receipt can pay two manual invoices                      *)
(* (assertManualPaymentDoesNotDuplicateGatewayOrReceipt, the indexes of       *)
(* payment_entries and payments): only under two methods, and never by the    *)
(* forms of both, unless it is numbered like an invoice; an entry posted by   *)
(* postPaymentEntry is always part of it.                                     *)
ReceiptsApart ==
    \A i, j \in Invoices :
        i # j /\ PaidManually(i) /\ PaidManually(j) =>
            \A m \in Standing(i), n \in Standing(j) :
                /\ ledger[i][m].kind = "SETTLEMENT" /\ ledger[j][n].kind = "SETTLEMENT"
                /\ ledger[i][m].reference[2] = ledger[j][n].reference[2]
                => /\ ledger[i][m].reference[1] # ledger[j][n].reference[1]
                   /\ \/ ledger[i][m].key # "initial" \/ ledger[j][n].key # "initial"
                      \/ ledger[i][m].reference[2] \in Invoices

THEOREM OnlyEntriesShareReceipts == Spec => []ReceiptsApart
  <1>1. LedgerInv /\ SourceInv /\ ReceiptInv => ReceiptsApart
    <2> SUFFICES ASSUME LedgerInv, SourceInv, ReceiptInv,
                        NEW i \in Invoices, NEW j \in Invoices, i # j,
                        PaidManually(i), PaidManually(j),
                        NEW m \in Standing(i), NEW n \in Standing(j),
                        ledger[i][m].kind = "SETTLEMENT", ledger[j][n].kind = "SETTLEMENT",
                        ledger[i][m].reference[2] = ledger[j][n].reference[2]
                 PROVE  /\ ledger[i][m].reference[1] # ledger[j][n].reference[1]
                        /\ \/ ledger[i][m].key # "initial" \/ ledger[j][n].key # "initial"
                           \/ ledger[i][m].reference[2] \in Invoices
      BY DEF ReceiptsApart
    <2>1. m \in 1 .. Len(ledger[i]) /\ n \in 1 .. Len(ledger[j])
      BY DEF Standing, LedgerInv, TypeOK
    <2>2. /\ ledger[i][m].reference \in ManualReferences
          /\ ledger[j][n].reference \in ManualReferences
      BY <2>1 DEF SourceInv, EntriesSourced, Sourced, PaidManually
    <2>3. \A r, s \in ManualReferences : r[1] = s[1] /\ r[2] = s[2] => r = s
      BY DEF ManualReferences
    <2>4. \A r \in ManualReferences : r # None
      BY ReferenceAssumption DEF References, ManualReferences
    <2>5. ledger[i][m].reference # ledger[j][n].reference
      BY <2>1, <2>2, <2>4 DEF SourceInv, ReferencesOnce
    <2>6. ASSUME ledger[i][m].key = "initial", ledger[j][n].key = "initial",
                 ledger[i][m].reference[2] \notin Invoices
          PROVE  FALSE
      <3>1. /\ ledger[i][m].reference[2] = receiptNumber[i] /\ receiptNumber[i] # None
            /\ ledger[j][n].reference[2] = receiptNumber[j]
        BY <2>1, <2>6 DEF ReceiptInv, InitialEntriesNumbered
      <3> QED BY <3>1 DEF ReceiptInv
    <2> QED BY <2>2, <2>3, <2>5, <2>6
  <1> QED BY <1>1, LedgerInvariant, SourceInvariant, ReceiptInvariant, PTL
================================================================================
