------------------------- MODULE OutcomeLifecycle -------------------------
(***************************************************************************)
(* What the office promises of every consultation, whoever works on it: it *)
(* stays open until its meeting is over or called off; then it waits for a *)
(* result if somebody had taken charge of it, and is missed if nobody had. *)
(* A missed one can only be reopened, and then somebody is in charge; a    *)
(* result can be corrected, never withdrawn.  Every move is a new revision,*)
(* so that a page that shows an earlier state also shows an earlier        *)
(* revision and a decision made on it is refused.                          *)
(***************************************************************************)
EXTENDS Naturals

CONSTANT Consultations

VARIABLES stage, revision, handled

lifeVars == <<stage, revision, handled>>

Results == {"SUCCESSFUL", "NO_SHOW", "CANCELLED"}

Init ==
  /\ stage = [c \in Consultations |-> "PENDING"]
  /\ revision = [c \in Consultations |-> 0]
  /\ handled \in [Consultations -> BOOLEAN]

Advance(c, next) ==
  /\ stage' = [stage EXCEPT ![c] = next]
  /\ revision' = [revision EXCEPT ![c] = @ + 1]

(* Somebody takes charge: late, when a cancellation was corrected. *)
Handle(c) ==
  /\ stage[c] # "MISSED"
  /\ handled' = [handled EXCEPT ![c] = TRUE]
  /\ UNCHANGED <<stage, revision>>

(* The time or the particulars of an open consultation change. *)
Revise(c) ==
  /\ stage[c] = "PENDING"
  /\ Advance(c, "PENDING")
  /\ \E h \in {handled[c], TRUE} : handled' = [handled EXCEPT ![c] = h]

Wait(c) ==
  /\ stage[c] = "PENDING" /\ handled[c]
  /\ Advance(c, "AWAITING_RESULT")
  /\ UNCHANGED handled

Miss(c) ==
  /\ stage[c] = "PENDING" /\ ~handled[c]
  /\ Advance(c, "MISSED")
  /\ UNCHANGED handled

Reopen(c) ==
  /\ stage[c] = "MISSED"
  /\ Advance(c, "PENDING")
  /\ handled' = [handled EXCEPT ![c] = TRUE]

CallOff(c) ==
  /\ stage[c] \in {"PENDING", "AWAITING_RESULT"}
  /\ Advance(c, "CANCELLED")
  /\ UNCHANGED handled

Record(c, result) ==
  /\ stage[c] \in {"AWAITING_RESULT"} \cup Results
  /\ stage[c] # result
  /\ Advance(c, result)
  /\ UNCHANGED handled

Next ==
  \E c \in Consultations :
    \/ Handle(c) \/ Revise(c) \/ Wait(c) \/ Miss(c) \/ Reopen(c) \/ CallOff(c)
    \/ \E result \in Results : Record(c, result)

Spec == Init /\ [][Next]_lifeVars
=============================================================================
