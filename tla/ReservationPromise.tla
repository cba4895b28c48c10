-------------------------- MODULE ReservationPromise --------------------------
(***************************************************************************)
(* What the payment service promises about a reservation and the money     *)
(* collected for it, without requests, events, locks or transactions: a    *)
(* reservation is settled by one trusted collection or released, only      *)
(* once, and every other collection raises a financial review that nothing *)
(* lowers. With loose amounts a settlement may leave no collection behind, *)
(* and then the next one passes for it.                                    *)
(***************************************************************************)
CONSTANTS
    Attempts,
    Collections,
    NoCollection,
    LooseAmounts   \* an amount may be good enough to settle and not to record

VARIABLES
    phase,      \* phase[a]: none, open, settled, reversed or released
    collected,  \* collected[a]: the collections reported for it
    receipt,    \* receipt[a]: the collection that settled it
    review      \* review[a]: it waits for a financial review

promiseVars == <<phase, collected, receipt, review>>

Init ==
    /\ phase = [a \in Attempts |-> "none"]
    /\ collected = [a \in Attempts |-> {}]
    /\ receipt = [a \in Attempts |-> NoCollection]
    /\ review = [a \in Attempts |-> FALSE]

(* A collection belongs to one reservation. *)
FreeFor(c, a) == \A other \in Attempts \ {a} : c \notin collected[other]

Reserve(a) ==
    /\ phase[a] = "none"
    /\ phase' = [phase EXCEPT ![a] = "open"]
    /\ UNCHANGED <<collected, receipt, review>>

Settle(a, c) ==
    /\ phase[a] = "open"
    /\ collected[a] \subseteq {c}
    /\ FreeFor(c, a)
    /\ phase' = [phase EXCEPT ![a] = "settled"]
    /\ \/ collected' = [collected EXCEPT ![a] = {c}]
       \/ LooseAmounts /\ UNCHANGED collected
    /\ receipt' = [receipt EXCEPT ![a] = c]
    /\ UNCHANGED review

(* Nothing was recorded at the settlement: the first collection recorded     *)
(* after it is taken for the settlement's own.                               *)
Pass(a, c) ==
    /\ LooseAmounts
    /\ receipt[a] # NoCollection
    /\ collected[a] = {}
    /\ FreeFor(c, a)
    /\ collected' = [collected EXCEPT ![a] = {c}]
    /\ UNCHANGED <<phase, receipt, review>>

(* An expiry releases a whole batch.                                         *)
Release(batch) ==
    /\ \A a \in batch : phase[a] = "open"
    /\ phase' = [a \in Attempts |-> IF a \in batch THEN "released" ELSE phase[a]]
    /\ UNCHANGED <<collected, receipt, review>>

(* Money that does not settle: too late, not the price, or a second time;    *)
(* or a report of money with no collection to record.                        *)
Question(a) ==
    /\ phase[a] # "none"
    /\ phase' = [phase EXCEPT ![a] = IF @ = "open" THEN "released" ELSE @]
    /\ \/ UNCHANGED collected
       \/ \E c \in Collections :
              /\ FreeFor(c, a)
              /\ collected' = [collected EXCEPT ![a] = @ \cup {c}]
    /\ review' = [review EXCEPT ![a] = TRUE]
    /\ UNCHANGED receipt

(* The provider gave the money back. *)
Reverse(a) ==
    /\ phase[a] # "none"
    /\ phase' = [phase EXCEPT ![a] =
           IF @ \in {"settled", "reversed"} THEN "reversed" ELSE "released"]
    /\ review' = [review EXCEPT ![a] = TRUE]
    /\ UNCHANGED <<collected, receipt>>

Next ==
    \/ \E a \in Attempts : \/ Reserve(a)
                           \/ \E c \in Collections : Settle(a, c) \/ Pass(a, c)
                           \/ Question(a)
                           \/ Reverse(a)
    \/ \E batch \in SUBSET Attempts : Release(batch)

Spec == Init /\ [][Next]_promiseVars
=============================================================================
