----------------------- MODULE AssistantConversation -----------------------
(***************************************************************************)
(* One protected conversation between a visitor and the office assistant:  *)
(* the assistant_sessions row, its turns, the office thread its transcript *)
(* is filed in, and the action proposals the assistant prepares            *)
(* (conversation-session-service.ts, assistant-handoff-service.ts,         *)
(* assistant-action-service.ts, conversation-submission-service.ts,        *)
(* direct-booking-service.ts, the account services that link a client).    *)
(*                                                                         *)
(* A request that sends a message runs through many awaited statements     *)
(* with provider calls between them; it owns the conversation by a lease   *)
(* of 90 seconds.  Each statement, or transaction, that decides or writes  *)
(* something is one action.  A request may lose its lease at any point and *)
(* the process that serves it may die at any point.  The other handlers    *)
(* lock the session row and write once, so each is one action.             *)
(*                                                                         *)
(* Left out: the seven days a session lives and its 60 messages, locale,   *)
(* contact and draft fields, the dialogue state other than the mode that   *)
(* permits booking, and what a booking does outside the conversation       *)
(* (ConsultationDesk has that).                                            *)
(***************************************************************************)
EXTENDS Integers

CONSTANTS
  Messages,        \* message identifiers, chosen by the browser
  OfficeMessages,  \* those addressed to the office and not to the assistant
  Requests,        \* HTTP requests that send a message; also their lease ids
  Clients,         \* client records
  None,            \* null
  MaxRevision      \* bound on the revision for the operations people perform

ASSUME ConversationAssumption ==
  /\ OfficeMessages \subseteq Messages
  /\ None \notin Messages \cup Requests \cup Clients
  /\ MaxRevision \in Nat

VARIABLES
  session,     \* the assistant_sessions row
  turn,        \* assistant_turns, by message
  transcript,  \* the copies of turns in the office thread
  proposal,    \* assistant_action_proposals, by message
  carried,     \* how often the action of a message was carried out
  req,         \* the requests that send a message
  link         \* the account activation or recovery sent by mail

vars == <<session, turn, transcript, proposal, carried, req, link>>

Modes == {"INQUIRY", "BOOKING"}
Threads == {"NONE", "OPEN", "CLOSED"}       \* the three active states are OPEN
Bookings == {"NONE", "DIRECT", "REQUEST"}   \* consultationRequestId, and by whom
Expiries == {"NONE", "AHEAD", "PAST"}        \* leaseExpiresAt against the clock

Sessions ==
  [revision : Nat, lease : Requests \cup {None}, expiry : Expiries, mode : Modes,
   booked : Bookings, client : Clients \cup {None}, thread : Threads,
   capability : {0, 1}]

(* How far a request is, what it read of the session when it began, and    *)
(* the client whose account facts it has read since.                       *)
Stages == {"idle", "read", "leased", "claimed", "working", "leaving", "done"}
ReqRecords ==
  [pc : Stages, msg : Messages \cup {None}, actor : Clients \cup {None},
   revision : Nat, mode : Modes, capability : {0, 1}, facts : Clients \cup {None}]

Idle == [pc |-> "idle", msg |-> None, actor |-> None, revision |-> 0,
         mode |-> "INQUIRY", capability |-> 0, facts |-> None]
Done == [Idle EXCEPT !.pc = "done"]

(* The text of an answer stands for the request that wrote it; private is  *)
(* the client whose account facts it contains.                             *)
TurnStatuses == {"NONE", "PENDING", "COMPLETED", "FAILED", "HUMAN"}
Turns == [status : TurnStatuses, text : Requests \cup {None},
          private : Clients \cup {None}]
NoTurn == [status |-> "NONE", text |-> None, private |-> None]

Entries == [msg : Messages, text : Requests \cup {None}]
ProposalStatuses == {"NONE", "PENDING", "COMPLETED", "CANCELLED", "STALE"}

Links == [phase : {"none", "sent", "reading", "used"},
          purpose : {"ACTIVATE", "RECOVER"}, seen : Clients \cup {None}]

TypeOK ==
  /\ session \in Sessions
  /\ session.lease = None <=> session.expiry = "NONE"
  /\ turn \in [Messages -> Turns]
  /\ transcript \subseteq Entries
  /\ proposal \in [Messages -> ProposalStatuses]
  /\ carried \in [Messages -> Nat]
  /\ req \in [Requests -> ReqRecords]
  /\ link \in Links

Init ==
  /\ session \in {[revision |-> 0, lease |-> None, expiry |-> "NONE",
                   mode |-> "INQUIRY", booked |-> "NONE", client |-> c,
                   thread |-> "NONE", capability |-> 0] :
                     c \in Clients \cup {None}}
  /\ turn = [m \in Messages |-> NoTurn]
  /\ transcript = {}
  /\ proposal = [m \in Messages |-> "NONE"]
  /\ carried = [m \in Messages |-> 0]
  /\ req = [r \in Requests |-> Idle]
  /\ link = [phase |-> "none", purpose |-> "ACTIVATE", seen |-> None]

-----------------------------------------------------------------------------
(* What the handlers have in common.                                       *)

Answered(t) == t.status \in {"COMPLETED", "HUMAN"}

(* A linked conversation is its client's; a guest's is anybody's who holds *)
(* the capability.                                                         *)
OwnedBy(c) == session.client \in {None, c}

(* The lease a worker checks before and inside every write of its answer.  *)
Holds(r) == session.lease = r /\ session.expiry = "AHEAD"

Bumped(s) == [s EXCEPT !.revision = @ + 1]
Released(s) == [s EXCEPT !.lease = None, !.expiry = "NONE"]

(* Answered turns join the thread; a turn already there is skipped.        *)
syncAssistantTranscript(turns, filed) ==
  filed \cup {[msg |-> m, text |-> turns[m].text] :
                m \in {n \in Messages : /\ Answered(turns[n])
                                        /\ \A e \in filed : e.msg # n}}

(* The pages' operations compare the revision they showed, or lock the row *)
(* and want it unleased.                                                   *)
Editable == session.lease = None /\ session.revision < MaxRevision

At(r, stage) == req[r].pc = stage
Goto(r, stage) == req' = [req EXCEPT ![r].pc = stage]

-----------------------------------------------------------------------------
(* Sending a message.                                                      *)

(* The session and the turn are read.  An expired lease is recovered first. *)
Begin(r, m, c) ==
  /\ At(r, "idle") /\ OwnedBy(c)
  /\ session.expiry # "PAST"
  /\ ~Answered(turn[m])
  /\ req' = [req EXCEPT ![r] =
       [pc |-> "read", msg |-> m, actor |-> c, revision |-> session.revision,
        mode |-> IF session.booked = "NONE" THEN session.mode ELSE "INQUIRY",
        capability |-> session.capability, facts |-> None]]
  /\ UNCHANGED <<session, turn, transcript, proposal, carried, link>>

(* Variant: a free lease is enough.                                        *)
AcquireUnversioned(r) ==
  /\ At(r, "read")
  /\ session.expiry # "AHEAD"
  /\ session' = [session EXCEPT !.lease = r, !.expiry = "AHEAD"]
  /\ Goto(r, "leased")
  /\ UNCHANGED <<turn, transcript, proposal, carried, link>>

(* The lease is taken if the row is still the one that was read.           *)
Acquire(r) ==
  /\ At(r, "read")
  /\ session.revision = req[r].revision
  /\ session.expiry # "AHEAD"
  /\ session' = [session EXCEPT !.lease = r, !.expiry = "AHEAD"]
  /\ Goto(r, "leased")
  /\ UNCHANGED <<turn, transcript, proposal, carried, link>>

Refused(r) ==
  /\ At(r, "read")
  /\ \/ session.revision # req[r].revision
     \/ session.expiry = "AHEAD"
  /\ req' = [req EXCEPT ![r] = Done]
  /\ UNCHANGED <<session, turn, transcript, proposal, carried, link>>

(* The turn is read again under the lease.                                 *)
Replay(r) ==
  /\ At(r, "leased")
  /\ Goto(r, IF Answered(turn[req[r].msg]) THEN "leaving" ELSE "claimed")
  /\ UNCHANGED <<session, turn, transcript, proposal, carried, link>>

(* The upsert: whatever the turn is by now, it becomes PENDING.            *)
Save(r) ==
  /\ At(r, "claimed")
  /\ turn' = [turn EXCEPT ![req[r].msg].status = "PENDING"]
  /\ Goto(r, "working")
  /\ UNCHANGED <<session, transcript, proposal, carried, link>>

(* What assertActive and the reads of the session check of the caller.     *)
StillOwn(r) == req[r].capability = session.capability /\ OwnedBy(req[r].actor)

(* Variant: who asks is checked, and the conversation stays a guest's.     *)
LinkPrivateUnlinked(r) ==
  /\ At(r, "working") /\ req[r].msg \notin OfficeMessages
  /\ req[r].actor # None
  /\ Holds(r) /\ StillOwn(r)
  /\ req' = [req EXCEPT ![r].facts = req[r].actor]
  /\ UNCHANGED <<session, turn, transcript, proposal, carried, link>>

(* Before account facts are read the conversation is linked to the client. *)
LinkPrivate(r) ==
  /\ At(r, "working") /\ req[r].msg \notin OfficeMessages
  /\ req[r].actor # None
  /\ Holds(r) /\ StillOwn(r)
  /\ session' = [session EXCEPT !.client = req[r].actor]
  /\ req' = [req EXCEPT ![r].facts = req[r].actor]
  /\ UNCHANGED <<turn, transcript, proposal, carried, link>>

(* Variant: a retried turn prepares its action again.                      *)
ProposeAgain(r) ==
  /\ At(r, "working") /\ req[r].facts # None
  /\ session.client = req[r].actor
  /\ proposal' = [proposal EXCEPT ![req[r].msg] = "PENDING"]
  /\ UNCHANGED <<session, turn, transcript, carried, req, link>>

(* The proposal is saved in a transaction of its own, lease or no lease; a *)
(* retried turn finds the one it made before.                              *)
proposeAssistantAction(r) ==
  /\ At(r, "working") /\ req[r].facts # None
  /\ session.client = req[r].actor
  /\ proposal[req[r].msg] = "NONE"
  /\ proposal' = [proposal EXCEPT ![req[r].msg] = "PENDING"]
  /\ UNCHANGED <<session, turn, transcript, carried, req, link>>

(* applyAssessment: a message may ask for booking or withdraw from it; any *)
(* other leaves the mode as the request has read it.                       *)
Intents == {"NONE", "BOOK", "WITHDRAW"}
ModeAfter(read, intent) ==
  IF intent = "NONE" THEN read ELSE IF intent = "BOOK" THEN "BOOKING" ELSE "INQUIRY"

(* What a customer claims in a legal matter is kept, with the dialogue as  *)
(* the request has read it, before the answer is composed.                 *)
rememberLegalMessage(r) ==
  /\ At(r, "working") /\ req[r].msg \notin OfficeMessages
  /\ Holds(r) /\ StillOwn(r)
  /\ session' = [session EXCEPT !.mode = req[r].mode]
  /\ UNCHANGED <<turn, transcript, proposal, carried, req, link>>

(* Variant: the answer is filed by nobody.                                 *)
CompleteUnfiled(r, intent) ==
  LET m == req[r].msg
      answer == [status |-> "COMPLETED", text |-> r, private |-> req[r].facts]
  IN /\ At(r, "working") /\ m \notin OfficeMessages
     /\ Holds(r) /\ StillOwn(r)
     /\ session' = Bumped([session EXCEPT !.mode = ModeAfter(req[r].mode, intent)])
     /\ turn' = [turn EXCEPT ![m] = answer]
     /\ Goto(r, "leaving")
     /\ UNCHANGED <<transcript, proposal, carried, link>>

(* Variant: the lease is not checked again when the answer is written.     *)
CompleteUnheld(r, intent) ==
  LET m == req[r].msg
      answer == [status |-> "COMPLETED", text |-> r, private |-> req[r].facts]
  IN /\ At(r, "working") /\ m \notin OfficeMessages
     /\ StillOwn(r)
     /\ session' = Bumped([session EXCEPT !.mode = ModeAfter(req[r].mode, intent)])
     /\ turn' = [turn EXCEPT ![m] = answer]
     /\ transcript' = IF session.thread = "NONE" THEN transcript
                      ELSE syncAssistantTranscript(turn', transcript)
     /\ Goto(r, "leaving")
     /\ UNCHANGED <<proposal, carried, link>>

(* finalize: the answer, the dialogue and the transcript in one transaction. *)
Complete(r, intent) ==
  LET m == req[r].msg
      answer == [status |-> "COMPLETED", text |-> r, private |-> req[r].facts]
  IN /\ At(r, "working") /\ m \notin OfficeMessages
     /\ Holds(r) /\ StillOwn(r)
     /\ session' = Bumped([session EXCEPT !.mode = ModeAfter(req[r].mode, intent)])
     /\ turn' = [turn EXCEPT ![m] = answer]
     /\ transcript' = IF session.thread = "NONE" THEN transcript
                      ELSE syncAssistantTranscript(turn', transcript)
     /\ Goto(r, "leaving")
     /\ UNCHANGED <<proposal, carried, link>>

(* ensureAssistantHandoff on the row s: the thread exists and is complete. *)
HandedOff(s) == [s EXCEPT !.thread = IF @ = "NONE" THEN "OPEN" ELSE @]

(* A message for the office becomes a message of the thread.               *)
SendToOffice(r) ==
  LET m == req[r].msg
  IN /\ At(r, "working") /\ m \in OfficeMessages
     /\ Holds(r) /\ OwnedBy(req[r].actor)
     /\ session.thread # "CLOSED"
     /\ session' = Bumped(HandedOff(session))
     /\ turn' = [turn EXCEPT ![m].status = "HUMAN"]
     /\ transcript' = syncAssistantTranscript(turn', transcript)
     /\ Goto(r, "leaving")
     /\ UNCHANGED <<proposal, carried, link>>

(* The provider failed, the lease is lost, the thread is closed...: only   *)
(* the owner of the lease, even an expired one, fails its turn.            *)
FailTurn(r) ==
  LET m == req[r].msg
  IN /\ At(r, "working")
     /\ turn' = IF session.lease = r /\ turn[m].status = "PENDING"
                THEN [turn EXCEPT ![m].status = "FAILED"] ELSE turn
     /\ Goto(r, "leaving")
     /\ UNCHANGED <<session, transcript, proposal, carried, link>>

(* Variant: the owner is cleared and the time of its lease is not.         *)
LeaveHalf(r) ==
  /\ At(r, "leaving")
  /\ session' = IF session.lease = r THEN [session EXCEPT !.lease = None] ELSE session
  /\ req' = [req EXCEPT ![r] = Done]
  /\ UNCHANGED <<turn, transcript, proposal, carried, link>>

(* finally: the lease is given back if it is still this request's.         *)
Leave(r) ==
  /\ At(r, "leaving")
  /\ session' = IF session.lease = r THEN Released(session) ELSE session
  /\ req' = [req EXCEPT ![r] = Done]
  /\ UNCHANGED <<turn, transcript, proposal, carried, link>>

(* The process dies with the request.                                      *)
Crash(r) ==
  /\ req[r].pc \notin {"idle", "done"}
  /\ req' = [req EXCEPT ![r] = Done]
  /\ UNCHANGED <<session, turn, transcript, proposal, carried, link>>

(* Ninety seconds after it was taken a lease counts no more.               *)
LeaseExpires ==
  /\ session.expiry = "AHEAD"
  /\ session' = [session EXCEPT !.expiry = "PAST"]
  /\ UNCHANGED <<turn, transcript, proposal, carried, req, link>>

(* Whoever reads the conversation then releases it and fails its replies.  *)
Recover ==
  /\ session.expiry = "PAST"
  /\ session' = Bumped(Released(session))
  /\ turn' = [m \in Messages |->
                IF turn[m].status = "PENDING"
                THEN [turn[m] EXCEPT !.status = "FAILED"] ELSE turn[m]]
  /\ UNCHANGED <<transcript, proposal, carried, req, link>>

-----------------------------------------------------------------------------
(* The customer's other operations.                                        *)

(* begin_booking, return_inquiry, account_access.                          *)
changeAssistantDialogue(mode) ==
  /\ Editable
  /\ mode = "BOOKING" => session.booked = "NONE"
  /\ session' = Bumped([session EXCEPT !.mode = mode])
  /\ UNCHANGED <<turn, transcript, proposal, carried, req, link>>

(* The language is changed.                                                *)
SetLocale ==
  /\ Editable
  /\ session' = Bumped(session)
  /\ UNCHANGED <<turn, transcript, proposal, carried, req, link>>

(* A phone for the office to call back on.                                 *)
setOfficeContact ==
  /\ Editable /\ session.thread # "NONE"
  /\ session' = Bumped(session)
  /\ UNCHANGED <<turn, transcript, proposal, carried, req, link>>

(* A signed-in client takes a guest's conversation over.                   *)
attachAuthenticatedClient(c) ==
  /\ Editable /\ session.client = None
  /\ session' = Bumped([session EXCEPT !.client = c])
  /\ UNCHANGED <<turn, transcript, proposal, carried, req, link>>

(* A guest opens an account; c is the new client.                          *)
registerConversationClient(c) ==
  /\ Editable /\ session.client = None
  /\ session' = Bumped([session EXCEPT !.client = c])
  /\ UNCHANGED <<turn, transcript, proposal, carried, req, link>>

(* A company formation submitted from this conversation links its client,  *)
(* leased or not, and raises no revision.                                  *)
SubmitFormation(c) ==
  /\ OwnedBy(c)
  /\ session' = [session EXCEPT !.client = c]
  /\ UNCHANGED <<turn, transcript, proposal, carried, req, link>>

(* The reviewed request of a linked client; the revision is not raised.    *)
submitConversationRequest ==
  /\ session.lease = None /\ session.client # None
  /\ session.mode = "BOOKING" /\ session.booked = "NONE"
  /\ session' = [session EXCEPT !.booked = "REQUEST"]
  /\ UNCHANGED <<turn, transcript, proposal, carried, req, link>>

(* confirm_booking and request_callback create the request and the thread; *)
(* reschedule_booking refreshes them, cancel_booking only the request.     *)
Bookable == \/ session.mode = "BOOKING" /\ session.booked = "NONE"
            \/ session.booked = "DIRECT"
Booked == Bumped(HandedOff([session EXCEPT !.booked = "DIRECT"]))

mutateDirectBooking ==
  /\ Editable /\ Bookable
  /\ session' = Booked
  /\ transcript' = syncAssistantTranscript(turn, transcript)
  /\ UNCHANGED <<turn, proposal, carried, req, link>>

(* A booking at the bound can still be cancelled. *)
CancelBooking ==
  /\ session.lease = None /\ session.booked = "DIRECT"
  /\ session.revision <= MaxRevision
  /\ session' = Bumped(session)
  /\ UNCHANGED <<turn, transcript, proposal, carried, req, link>>

(* The client decides on a proposal.  Confirmed, it is carried out in the  *)
(* same transaction, unless what it shows has changed or 15 minutes are    *)
(* over; an office message raises the revision, a booking is mutateDirectBooking. *)
CancelAction(m) ==
  /\ session.lease = None /\ session.client # None
  /\ proposal[m] = "PENDING"
  /\ proposal' = [proposal EXCEPT ![m] = "CANCELLED"]
  /\ UNCHANGED <<session, turn, transcript, carried, req, link>>

StaleAction(m) ==
  /\ session.lease = None /\ session.client # None
  /\ proposal[m] = "PENDING"
  /\ proposal' = [proposal EXCEPT ![m] = "STALE"]
  /\ UNCHANGED <<session, turn, transcript, carried, req, link>>

ConfirmAction(m) ==
  /\ session.lease = None /\ session.client # None
  /\ proposal[m] = "PENDING"
  /\ proposal' = [proposal EXCEPT ![m] = "COMPLETED"]
  /\ carried' = [carried EXCEPT ![m] = @ + 1]
  /\ \/ session' \in {session, Bumped(session)} /\ UNCHANGED transcript
     \/ /\ Bookable /\ session' = Booked
        /\ transcript' = syncAssistantTranscript(turn, transcript)
  /\ UNCHANGED <<turn, req, link>>

-----------------------------------------------------------------------------
(* Account activation and recovery by mail (client-verification-service.ts). *)

startClientVerification(purpose) ==
  /\ link.phase = "none"
  /\ purpose = "ACTIVATE" => session.mode = "BOOKING" \/ session.booked # "NONE"
  /\ link' = [link EXCEPT !.phase = "sent", !.purpose = purpose]
  /\ UNCHANGED <<session, turn, transcript, proposal, carried, req>>

(* The transaction reads the challenge with its session...                 *)
OpenLink ==
  /\ link.phase = "sent"
  /\ link.purpose = "ACTIVATE" =>
       session.client = None /\ (session.mode = "BOOKING" \/ session.booked # "NONE")
  /\ link' = [link EXCEPT !.phase = "reading", !.seen = session.client]
  /\ UNCHANGED <<session, turn, transcript, proposal, carried, req>>

(* ...and later writes the client it found or created, takes the lease     *)
(* away and replaces the capability.                                       *)
completeClientVerification(c) ==
  /\ link.phase = "reading" /\ link.seen \in {None, c}
  /\ session' = [Released(session) EXCEPT
       !.client = c, !.capability = 1,
       !.revision = IF link.purpose = "ACTIVATE" THEN @ + 1 ELSE @]
  /\ link' = [link EXCEPT !.phase = "used"]
  /\ UNCHANGED <<turn, transcript, proposal, carried, req>>

(* It rolls back; the link is not opened a second time here.               *)
RefuseLink ==
  /\ link.phase = "reading"
  /\ link' = [link EXCEPT !.phase = "used"]
  /\ UNCHANGED <<session, turn, transcript, proposal, carried, req>>

-----------------------------------------------------------------------------
(* The office.                                                             *)

replyAdminConversation ==
  /\ session.thread = "OPEN" /\ session.revision < MaxRevision
  /\ session' = Bumped(session)
  /\ UNCHANGED <<turn, transcript, proposal, carried, req, link>>

(* Status and assistant mode; assigning somebody changes nothing here.     *)
updateAdminConversation(status, assistant) ==
  /\ session.thread # "NONE" /\ session.revision < MaxRevision
  /\ session' = [session EXCEPT !.thread = status,
       !.revision = IF assistant = "SET" \/ status = "CLOSED" THEN @ + 1 ELSE @]
  /\ UNCHANGED <<turn, transcript, proposal, carried, req, link>>

-----------------------------------------------------------------------------
FinishLink == (\E c \in Clients : completeClientVerification(c)) \/ RefuseLink

(* A request ends by itself: it answers, fails or is refused.              *)
Work(r) ==
  \/ Acquire(r) \/ Refused(r) \/ Replay(r) \/ Save(r)
  \/ LinkPrivate(r) \/ proposeAssistantAction(r) \/ rememberLegalMessage(r)
  \/ (\E intent \in Intents : Complete(r, intent)) \/ SendToOffice(r)
  \/ FailTurn(r) \/ Leave(r)

Customer ==
  \/ \E r \in Requests, m \in Messages, c \in Clients \cup {None} : Begin(r, m, c)
  \/ \E mode \in Modes : changeAssistantDialogue(mode)
  \/ SetLocale \/ setOfficeContact
  \/ \E c \in Clients : \/ attachAuthenticatedClient(c)
                        \/ registerConversationClient(c)
                        \/ SubmitFormation(c)
  \/ submitConversationRequest \/ mutateDirectBooking \/ CancelBooking
  \/ \E m \in Messages : CancelAction(m) \/ StaleAction(m) \/ ConfirmAction(m)
  \/ \E p \in {"ACTIVATE", "RECOVER"} : startClientVerification(p)
  \/ OpenLink

Office ==
  \/ replyAdminConversation
  \/ \E status \in {"OPEN", "CLOSED"}, assistant \in {"KEPT", "SET"} :
       updateAdminConversation(status, assistant)

Next ==
  \/ FinishLink \/ Customer \/ Office \/ LeaseExpires \/ Recover
  \/ \E r \in Requests : Work(r) \/ Crash(r)

Spec == Init /\ [][Next]_vars

(* A live request goes on (its provider calls are bounded by a timeout), a *)
(* transaction ends, a lease runs out after ninety seconds, and the page   *)
(* reads the conversation again every fifteen seconds while it waits for a *)
(* reply.                                                                  *)
Fairness ==
  /\ \A r \in Requests : WF_vars(Work(r))
  /\ WF_vars(FinishLink)
  /\ WF_vars(LeaseExpires)
  /\ WF_vars(Recover)

FairSpec == Spec /\ Fairness

-----------------------------------------------------------------------------
(* Properties.                                                             *)

(* The mode a request would write back with an answer that does not change *)
(* it is the mode of the conversation: a consent or a withdrawal is never  *)
(* undone by a turn that began before it.  (acquire, l.125; the writers    *)
(* that want the row unleased.)                                            *)
ConsentCurrent ==
  \A r \in Requests :
    session.lease = r /\ req[r].pc \in {"leased", "claimed", "working"}
      /\ session.booked = "NONE"
    => req[r].mode = session.mode

(* Two writes of the code may come late, because what they rest on was     *)
(* read before and is not locked.  A request that has lost its lease after *)
(* it found the turn open saves it as PENDING, answered as it may be by    *)
(* now (l.134-139)...                                                      *)
LateSave(m) ==
  \E r \in Requests :
    req[r].msg = m /\ session.lease # r /\ Save(r) /\ Answered(turn[m])

(* ...and a mailed link that read a guest's conversation gives it to its   *)
(* client when another has got it since (client-verification-service.ts,   *)
(* l.67 and l.96).                                                         *)
LateLink ==
  /\ link.seen = None
  /\ \E c \in Clients : completeClientVerification(c) /\ session.client \notin {None, c}

(* The account facts of an answer are in their client's conversation.      *)
PrivateTo(m) == turn[m].private # None => session.client = turn[m].private

(* "A guest capability must lose anonymous access BEFORE any personal      *)
(* answer is persisted" (l.206), and keeps having lost it: an answer with  *)
(* account facts comes to be in a conversation that is not its client's    *)
(* by a late link and by nothing else.                                     *)
PrivateOwned ==
  [][\A m \in Messages : PrivateTo(m) => (PrivateTo(m)' \/ LateLink)]_vars

(* A thread holds the saved answer of an answered turn, and nothing of the *)
(* others.                                                                 *)
FiledTrue(m) ==
  session.thread # "NONE" =>
    {e \in transcript : e.msg = m} =
      IF Answered(turn[m]) THEN {[msg |-> m, text |-> turn[m].text]} ELSE {}

(* What the office reads is what the customer was answered, once for every *)
(* message.  Only a late save of a message parts the thread from the       *)
(* conversation, and in that message alone.                                *)
TranscriptAgrees ==
  [][\A m \in Messages : FiledTrue(m) => (FiledTrue(m)' \/ LateSave(m))]_vars

(* However often it is proposed, confirmed and retried, the action asked   *)
(* for in one message is carried out once.                                 *)
ActionOnce == \A m \in Messages : carried[m] <= 1

(* An answered message stays answered, with that answer, unless a request  *)
(* that has lost its lease saves it late: no retry, replay, recovery or    *)
(* second request that owns the conversation takes an answer back.         *)
AnswersStay ==
  [][\A m \in Messages : Answered(turn[m]) => (turn'[m] = turn[m] \/ LateSave(m))]_vars

(* A reply in preparation is answered or fails, so that the page, which    *)
(* offers no retry before, can offer one.                                  *)
PendingEnds ==
  \A m \in Messages : turn[m].status = "PENDING" ~> turn[m].status # "PENDING"
=============================================================================
