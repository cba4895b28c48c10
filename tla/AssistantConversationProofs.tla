-------------------- MODULE AssistantConversationProofs --------------------
(***************************************************************************)
(* Safety of AssistantConversation for all messages, requests and clients. *)
(*                                                                         *)
(* A worker's steps are treated one by one.  All other steps are PageSteps: *)
(* they leave the requests and the turns alone, and what they may do to    *)
(* the session is little enough to be said once.                           *)
(***************************************************************************)
EXTENDS AssistantConversation, TLAPS

(* A request under way knows its message.                                  *)
Addressed ==
  \A r \in Requests : req[r].pc \notin {"idle", "done"} => req[r].msg \in Messages

(* A session read at the present revision is the present session, as far   *)
(* as the mode goes.                                                       *)
ReadCurrent ==
  \A r \in Requests : req[r].pc = "read" =>
    /\ req[r].revision <= session.revision
    /\ req[r].revision = session.revision /\ session.booked = "NONE" =>
         req[r].mode = session.mode

(* The turn of a worker that holds the lease is the one in preparation,    *)
(* and between the check and the save it is still without an answer.       *)
HolderPending ==
  \A r \in Requests : session.lease = r =>
    /\ req[r].pc = "working" => turn[req[r].msg].status = "PENDING"
    /\ req[r].pc = "claimed" => ~Answered(turn[req[r].msg])

CountedOnce ==
  \A m \in Messages : carried[m] = IF proposal[m] = "COMPLETED" THEN 1 ELSE 0

ConvInv == TypeOK /\ Addressed /\ ReadCurrent /\ ConsentCurrent /\ HolderPending /\ CountedOnce

-----------------------------------------------------------------------------
(* What the steps of everybody but the workers do.                         *)
SessionStep ==
  /\ session' \in Sessions /\ (session'.lease = None <=> session'.expiry = "NONE")
  /\ session'.lease \in {session.lease, None}
  /\ session'.revision >= session.revision
  /\ session'.mode # session.mode =>
       session.lease = None /\ session'.revision > session.revision
  /\ session.booked # "NONE" => session'.booked # "NONE"

LinkStep ==
  /\ session'.client \in Clients \cup {None}
  /\ link' \in Links

ThreadStep ==
  \/ /\ session'.thread = "NONE" <=> session.thread = "NONE"
     /\ transcript' = transcript
  \/ /\ session'.thread # "NONE"
     /\ transcript' = syncAssistantTranscript(turn, transcript)

ProposalStep ==
  /\ proposal' \in [Messages -> ProposalStatuses]
  /\ carried' \in [Messages -> Nat]
  /\ CountedOnce'

PageStep ==
  /\ req' = req /\ turn' = turn
  /\ SessionStep /\ LinkStep /\ ThreadStep /\ ProposalStep

(* Steps that leave the proposals, the link and the transcript alone.      *)
LEMMA PlainPage ==
    ASSUME ConvInv, SessionStep, UNCHANGED <<turn, transcript, proposal, carried, req, link>>,
           session'.thread = "NONE" <=> session.thread = "NONE"
    PROVE  PageStep
  <1>1. LinkStep
    BY DEF ConvInv, TypeOK, SessionStep, Sessions, LinkStep
  <1>2. ProposalStep
    BY DEF ConvInv, TypeOK, ProposalStep, CountedOnce
  <1> QED BY <1>1, <1>2 DEF PageStep, ThreadStep

(* What a raised revision leaves of a row.                                 *)
LEMMA BumpedRow ==
    ASSUME NEW s \in Sessions
    PROVE  /\ Bumped(s) \in Sessions
           /\ Bumped(s).revision = s.revision + 1
           /\ Bumped(s).revision > s.revision
           /\ Bumped(s).lease = s.lease /\ Bumped(s).expiry = s.expiry
           /\ Bumped(s).mode = s.mode /\ Bumped(s).booked = s.booked
           /\ Bumped(s).client = s.client /\ Bumped(s).thread = s.thread
           /\ Bumped(s).capability = s.capability
  BY DEF Bumped, Sessions

(* The row of a reachable state.                                           *)
LEMMA RowTyped ==
    ASSUME ConvInv
    PROVE  /\ session \in Sessions /\ session.revision \in Nat
           /\ session.lease = None <=> session.expiry = "NONE"
  BY DEF ConvInv, TypeOK, Sessions

LEMMA DialoguePage ==
    ASSUME ConvInv, NEW mode \in Modes, changeAssistantDialogue(mode)
    PROVE  PageStep
  <1> DEFINE s == [session EXCEPT !.mode = mode]
  <1>1. s \in Sessions /\ session' = Bumped(s) /\ session.lease = None
    BY RowTyped DEF changeAssistantDialogue, Sessions, Editable
  <1>2. /\ s.revision = session.revision /\ s.lease = session.lease
        /\ s.expiry = session.expiry /\ s.booked = session.booked
        /\ s.client = session.client /\ s.thread = session.thread
    BY RowTyped DEF Sessions
  <1> HIDE DEF s
  <1>3. SessionStep /\ (session'.thread = "NONE" <=> session.thread = "NONE")
    BY <1>1, <1>2, BumpedRow, RowTyped DEF SessionStep
  <1> QED BY <1>3, PlainPage DEF changeAssistantDialogue

LEMMA BumpPage ==
    ASSUME ConvInv,
           SetLocale \/ setOfficeContact \/ CancelBooking \/ replyAdminConversation
    PROVE  PageStep
  <1>1. /\ session' = Bumped(session)
        /\ UNCHANGED <<turn, transcript, proposal, carried, req, link>>
    BY DEF SetLocale, setOfficeContact, CancelBooking, replyAdminConversation
  <1>2. SessionStep /\ (session'.thread = "NONE" <=> session.thread = "NONE")
    BY <1>1, BumpedRow, RowTyped DEF SessionStep
  <1> QED BY <1>1, <1>2, PlainPage

LEMMA ClientPage ==
    ASSUME ConvInv, NEW c \in Clients,
           attachAuthenticatedClient(c) \/ registerConversationClient(c) \/ SubmitFormation(c)
    PROVE  PageStep
  <1> DEFINE s == [session EXCEPT !.client = c]
  <1>1. /\ s \in Sessions /\ session.client \in {None, c}
        /\ session' = Bumped(s) \/ session' = s
        /\ UNCHANGED <<turn, transcript, proposal, carried, req, link>>
    BY RowTyped DEF attachAuthenticatedClient, registerConversationClient, SubmitFormation,
       OwnedBy, Sessions
  <1>2. /\ s.revision = session.revision /\ s.lease = session.lease /\ s.mode = session.mode
        /\ s.expiry = session.expiry /\ s.booked = session.booked
        /\ s.client = c /\ s.thread = session.thread
    BY RowTyped DEF Sessions
  <1> HIDE DEF s
  <1>3. SessionStep /\ (session'.thread = "NONE" <=> session.thread = "NONE")
    BY <1>1, <1>2, BumpedRow, RowTyped DEF SessionStep
  <1> QED BY <1>1, <1>3, PlainPage

LEMMA SubmitPage ==
    ASSUME ConvInv, submitConversationRequest
    PROVE  PageStep
  <1>1. session' = [session EXCEPT !.booked = "REQUEST"]
    BY DEF submitConversationRequest
  <1>2. SessionStep /\ (session'.thread = "NONE" <=> session.thread = "NONE")
    BY <1>1, RowTyped DEF SessionStep, Sessions, Bookings
  <1> QED BY <1>2, PlainPage DEF submitConversationRequest

LEMMA ExpiryPage ==
    ASSUME ConvInv, LeaseExpires
    PROVE  PageStep
  <1>1. session' = [session EXCEPT !.expiry = "PAST"] /\ session.expiry = "AHEAD"
    BY DEF LeaseExpires
  <1>2. /\ session' \in Sessions /\ session'.expiry = "PAST"
        /\ session'.lease = session.lease /\ session'.revision = session.revision
        /\ session'.mode = session.mode /\ session'.booked = session.booked
        /\ session'.client = session.client /\ session'.thread = session.thread
    BY <1>1, RowTyped DEF Sessions, Expiries
  <1>3. SessionStep
    BY <1>1, <1>2, RowTyped DEF SessionStep
  <1> QED BY <1>2, <1>3, PlainPage DEF LeaseExpires

LEMMA OfficePage ==
    ASSUME ConvInv,
           NEW status \in {"OPEN", "CLOSED"}, NEW assistant \in {"KEPT", "SET"},
           updateAdminConversation(status, assistant)
    PROVE  PageStep
  <1>1. PICK s \in Sessions :
          /\ s = [session EXCEPT !.thread = status]
          /\ session' = s \/ session' = Bumped(s)
    <2> DEFINE s == [session EXCEPT !.thread = status]
    <2>1. s \in Sessions
      BY RowTyped DEF Sessions, Threads
    <2>2. session' = [s EXCEPT !.revision = session.revision + 1] \/ session' = s
      BY RowTyped DEF updateAdminConversation, Sessions
    <2>3. s.revision = session.revision
      BY RowTyped DEF Sessions
    <2> QED BY <2>1, <2>2, <2>3 DEF Bumped
  <1>2. /\ s.revision = session.revision /\ s.lease = session.lease /\ s.mode = session.mode
        /\ s.expiry = session.expiry /\ s.booked = session.booked
        /\ s.client = session.client /\ s.thread # "NONE" /\ session.thread # "NONE"
    BY <1>1, RowTyped DEF updateAdminConversation, Sessions
  <1>3. SessionStep /\ (session'.thread = "NONE" <=> session.thread = "NONE")
    <2>1. CASE session' = s
      BY <1>2, <2>1, RowTyped DEF SessionStep
    <2>2. CASE session' = Bumped(s)
      BY <1>2, <2>2, BumpedRow, RowTyped DEF SessionStep
    <2> QED BY <1>1, <2>1, <2>2
  <1> QED BY <1>3, PlainPage DEF updateAdminConversation

LEMMA HandedRow ==
    ASSUME NEW s \in Sessions
    PROVE  /\ HandedOff(s) \in Sessions
           /\ HandedOff(s).revision = s.revision /\ HandedOff(s).thread # "NONE"
           /\ HandedOff(s).lease = s.lease /\ HandedOff(s).expiry = s.expiry
           /\ HandedOff(s).mode = s.mode /\ HandedOff(s).booked = s.booked
           /\ HandedOff(s).client = s.client /\ HandedOff(s).capability = s.capability
  BY DEF HandedOff, Sessions, Threads

LEMMA BookedRow ==
    ASSUME ConvInv, session' = Booked
    PROVE  SessionStep /\ session'.client = session.client /\ session'.thread # "NONE"
  <1> DEFINE s == [session EXCEPT !.booked = "DIRECT"]
  <1>1. /\ s \in Sessions /\ s.revision = session.revision /\ s.lease = session.lease
        /\ s.mode = session.mode /\ s.expiry = session.expiry /\ s.booked = "DIRECT"
        /\ s.client = session.client
    BY RowTyped DEF Sessions, Bookings
  <1>2. session' = Bumped(HandedOff(s))
    BY DEF Booked
  <1> HIDE DEF s
  <1> DEFINE h == HandedOff(s)
  <1>3. /\ h \in Sessions /\ h.revision = session.revision /\ h.lease = session.lease
        /\ h.mode = session.mode /\ h.expiry = session.expiry /\ h.booked = "DIRECT"
        /\ h.client = session.client /\ h.thread # "NONE" /\ session' = Bumped(h)
    BY <1>1, <1>2, HandedRow
  <1> HIDE DEF h
  <1> QED BY <1>3, BumpedRow, RowTyped DEF SessionStep

(* The link and the proposals are as before.                               *)
LEMMA SameLink ==
    ASSUME ConvInv, link' = link, session'.client = session.client
    PROVE  LinkStep
  BY RowTyped DEF ConvInv, TypeOK, LinkStep, Sessions

LEMMA SameProposals ==
    ASSUME ConvInv, UNCHANGED <<proposal, carried>>
    PROVE  ProposalStep
  BY DEF ConvInv, TypeOK, ProposalStep, CountedOnce

LEMMA SameSession == ASSUME ConvInv, session' = session PROVE SessionStep
  BY RowTyped DEF SessionStep

LEMMA BookingPage ==
    ASSUME ConvInv, mutateDirectBooking
    PROVE  PageStep
  <1>1. SessionStep /\ session'.client = session.client /\ session'.thread # "NONE"
    BY BookedRow DEF mutateDirectBooking
  <1> QED BY <1>1, SameLink, SameProposals DEF mutateDirectBooking, PageStep, ThreadStep

(* The proposal of m moves on; completed, it is carried out.               *)
LEMMA DecidedProposal ==
    ASSUME ConvInv, NEW m \in Messages, NEW s \in {"CANCELLED", "STALE", "COMPLETED"},
           proposal[m] = "PENDING", proposal' = [proposal EXCEPT ![m] = s],
           carried' = IF s = "COMPLETED" THEN [carried EXCEPT ![m] = @ + 1] ELSE carried
    PROVE  ProposalStep
  <1>1. /\ proposal \in [Messages -> ProposalStatuses] /\ carried \in [Messages -> Nat]
        /\ CountedOnce
    BY DEF ConvInv, TypeOK
  <1>2. carried[m] = 0
    BY <1>1 DEF CountedOnce
  <1>3. \A n \in Messages : n # m => proposal'[n] = proposal[n] /\ carried'[n] = carried[n]
    BY <1>1
  <1>4. proposal'[m] = s /\ carried'[m] = IF s = "COMPLETED" THEN 1 ELSE 0
    BY <1>1, <1>2
  <1>5. CountedOnce'
    BY <1>1, <1>3, <1>4 DEF CountedOnce
  <1> QED BY <1>1, <1>5 DEF ProposalStep, ProposalStatuses

LEMMA ActionPage ==
    ASSUME ConvInv, NEW m \in Messages,
           CancelAction(m) \/ StaleAction(m) \/ ConfirmAction(m)
    PROVE  PageStep
  <1>1. CASE CancelAction(m)
    <2>1. ProposalStep
      BY <1>1, DecidedProposal DEF CancelAction
    <2> QED BY <1>1, <2>1, SameLink, SameSession DEF CancelAction, PageStep, ThreadStep
  <1>2. CASE StaleAction(m)
    <2>1. ProposalStep
      BY <1>2, DecidedProposal DEF StaleAction
    <2> QED BY <1>2, <2>1, SameLink, SameSession DEF StaleAction, PageStep, ThreadStep
  <1>3. CASE ConfirmAction(m)
    <2>1. ProposalStep
      BY <1>3, DecidedProposal DEF ConfirmAction
    <2>2. CASE session' \in {session, Bumped(session)} /\ UNCHANGED transcript
      <3>1. SessionStep /\ session'.client = session.client /\ session'.thread = session.thread
        BY <2>2, BumpedRow, RowTyped DEF SessionStep
      <3> QED BY <1>3, <2>1, <2>2, <3>1, SameLink DEF ConfirmAction, PageStep, ThreadStep
    <2>3. CASE session' = Booked /\ transcript' = syncAssistantTranscript(turn, transcript)
      <3>1. SessionStep /\ session'.client = session.client /\ session'.thread # "NONE"
        BY <2>3, BookedRow
      <3> QED BY <1>3, <2>1, <2>3, <3>1, SameLink DEF ConfirmAction, PageStep, ThreadStep
    <2> QED BY <1>3, <2>2, <2>3 DEF ConfirmAction
  <1> QED BY <1>1, <1>2, <1>3

LEMMA LinkPage ==
    ASSUME ConvInv, NEW p \in {"ACTIVATE", "RECOVER"},
           startClientVerification(p) \/ OpenLink \/ RefuseLink
    PROVE  PageStep
  <1>1. link \in Links /\ session.client \in Clients \cup {None}
    BY RowTyped DEF ConvInv, TypeOK, Sessions
  <1>2. session' = session /\ UNCHANGED <<turn, transcript, proposal, carried, req>>
    BY DEF startClientVerification, OpenLink, RefuseLink
  <1>3. link' \in Links
    BY <1>1, <1>2 DEF startClientVerification, OpenLink, RefuseLink, Links
  <1>4. LinkStep
    BY <1>1, <1>2, <1>3 DEF LinkStep
  <1> QED BY <1>2, <1>4, SameSession, SameProposals DEF PageStep, ThreadStep

LEMMA VerifiedPage ==
    ASSUME ConvInv, NEW c \in Clients, completeClientVerification(c)
    PROVE  PageStep
  <1>1. link \in Links
    BY DEF ConvInv, TypeOK
  <1>2. PICK n \in {session.revision, session.revision + 1} :
          session' = [session EXCEPT !.lease = None, !.expiry = "NONE", !.client = c,
                                     !.capability = 1, !.revision = n]
    BY RowTyped DEF completeClientVerification, Released, Sessions
  <1>3. /\ session' \in Sessions /\ session'.lease = None /\ session'.expiry = "NONE"
        /\ session'.client = c /\ session'.revision = n /\ session'.mode = session.mode
        /\ session'.booked = session.booked /\ session'.thread = session.thread
    <2>1. n \in Nat
      BY RowTyped
    <2>2. session \in Sessions
      BY RowTyped
    <2>3. session' \in Sessions
      BY <1>2, <2>1, <2>2 DEF Sessions, Expiries
    <2> QED BY <1>2, <2>2, <2>3 DEF Sessions
  <1>4. SessionStep
    BY <1>3, RowTyped DEF SessionStep
  <1>5. link' \in Links
    BY <1>1 DEF completeClientVerification, Links
  <1>6. LinkStep
    BY <1>3, <1>5 DEF LinkStep
  <1> QED BY <1>3, <1>4, <1>6, SameProposals
    DEF completeClientVerification, PageStep, ThreadStep

-----------------------------------------------------------------------------
(* What syncing gives the thread.                                          *)
LEMMA SyncTyped ==
    ASSUME NEW t \in [Messages -> Turns], NEW filed \in SUBSET Entries
    PROVE  syncAssistantTranscript(t, filed) \subseteq Entries
  BY DEF syncAssistantTranscript, Entries, Turns

-----------------------------------------------------------------------------
LEMMA PageKeeps ==
    ASSUME ConvInv, PageStep
    PROVE  ConvInv'
  <1>1. /\ TypeOK /\ Addressed /\ ReadCurrent /\ ConsentCurrent /\ HolderPending
        /\ req' = req /\ turn' = turn /\ SessionStep /\ LinkStep /\ ThreadStep /\ ProposalStep
    BY DEF ConvInv, PageStep
  <1>2. transcript' \subseteq Entries
    BY <1>1, SyncTyped DEF TypeOK, ThreadStep
  <1>3. TypeOK'
    BY <1>1, <1>2 DEF TypeOK, SessionStep, LinkStep, ProposalStep
  <1>4. Addressed'
    BY <1>1 DEF Addressed
  <1>5. ReadCurrent'
    <2>1. SUFFICES ASSUME NEW r \in Requests, req[r].pc = "read"
                   PROVE  /\ req[r].revision <= session'.revision
                          /\ req[r].revision = session'.revision /\ session'.booked = "NONE" =>
                               req[r].mode = session'.mode
      BY <1>1 DEF ReadCurrent
    <2>2. /\ req[r].revision <= session.revision
          /\ req[r].revision = session.revision /\ session.booked = "NONE" =>
               req[r].mode = session.mode
      BY <1>1, <2>1 DEF ReadCurrent
    <2>3. req[r].revision \in Nat /\ session.revision \in Nat /\ session'.revision \in Nat
      BY <1>1, <1>3 DEF TypeOK, ReqRecords, Sessions
    <2> QED BY <1>1, <2>2, <2>3 DEF SessionStep
  <1>6. ConsentCurrent'
    <2>1. SUFFICES ASSUME NEW r \in Requests, session'.lease = r,
                          req[r].pc \in {"leased", "claimed", "working"}, session'.booked = "NONE"
                   PROVE  req[r].mode = session'.mode
      BY <1>1 DEF ConsentCurrent
    <2>2. session.lease = r /\ r # None
      BY <1>1, <2>1, ConversationAssumption DEF SessionStep
    <2> QED BY <1>1, <2>1, <2>2 DEF SessionStep, ConsentCurrent
  <1>7. HolderPending'
    BY <1>1, ConversationAssumption DEF HolderPending, SessionStep
  <1> QED BY <1>1, <1>3, <1>4, <1>5, <1>6, <1>7 DEF ConvInv, ProposalStep

-----------------------------------------------------------------------------
(* The worker.  What the invariant asks of one request:                    *)
Fits(r) ==
  /\ req[r].pc \notin {"idle", "done"} => req[r].msg \in Messages
  /\ req[r].pc = "read" =>
       /\ req[r].revision <= session.revision
       /\ req[r].revision = session.revision /\ session.booked = "NONE" =>
            req[r].mode = session.mode
  /\ session.lease = r /\ req[r].pc \in {"leased", "claimed", "working"}
       /\ session.booked = "NONE" => req[r].mode = session.mode
  /\ session.lease = r /\ req[r].pc = "working" => turn[req[r].msg].status = "PENDING"
  /\ session.lease = r /\ req[r].pc = "claimed" => ~Answered(turn[req[r].msg])

LEMMA FitsNow ==
    ASSUME ConvInv, NEW r \in Requests
    PROVE  Fits(r)
  BY DEF ConvInv, Fits, Addressed, ReadCurrent, ConsentCurrent, HolderPending

LEMMA ConvAgain ==
    ASSUME TypeOK', CountedOnce', \A r \in Requests : Fits(r)'
    PROVE  ConvInv'
  BY DEF ConvInv, Fits, Addressed, ReadCurrent, ConsentCurrent, HolderPending

(* Only the request r moves.                                               *)
LEMMA Going ==
    ASSUME ConvInv, NEW r \in Requests, NEW stage \in Stages, Goto(r, stage)
    PROVE  /\ req' \in [Requests -> ReqRecords]
           /\ req'[r] = [req[r] EXCEPT !.pc = stage]
           /\ req'[r].pc = stage /\ req'[r].msg = req[r].msg /\ req'[r].mode = req[r].mode
           /\ req'[r].facts = req[r].facts /\ req'[r].actor = req[r].actor
           /\ req'[r].revision = req[r].revision
           /\ \A s \in Requests : s # r => req'[s] = req[s]
  BY DEF ConvInv, TypeOK, Goto, ReqRecords

LEMMA Ending ==
    ASSUME ConvInv, NEW r \in Requests, req' = [req EXCEPT ![r] = Done]
    PROVE  /\ req' \in [Requests -> ReqRecords]
           /\ req'[r].pc = "done" /\ req'[r].facts = None
           /\ \A s \in Requests : s # r => req'[s] = req[s]
  BY ConversationAssumption DEF ConvInv, TypeOK, Done, Idle, ReqRecords, Stages, Modes

(* Nothing but one request changes.                                        *)
LEMMA QuietKeeps ==
    ASSUME ConvInv, NEW r \in Requests, req' \in [Requests -> ReqRecords],
           \A s \in Requests : s # r => req'[s] = req[s],
           UNCHANGED <<session, turn, transcript, proposal, carried, link>>,
           Fits(r)'
    PROVE  ConvInv'
  <1>1. TypeOK' /\ CountedOnce'
    BY DEF ConvInv, TypeOK, CountedOnce
  <1>2. \A s \in Requests : Fits(s)'
    <2>1. ASSUME NEW s \in Requests, s # r PROVE Fits(s)'
      BY <2>1, FitsNow DEF Fits
    <2> QED BY <2>1
  <1> QED BY <1>1, <1>2, ConvAgain

LEMMA BeginKeeps ==
    ASSUME ConvInv, NEW r \in Requests, NEW m \in Messages, NEW c \in Clients \cup {None},
           Begin(r, m, c)
    PROVE  ConvInv'
  <1> DEFINE q == [pc |-> "read", msg |-> m, actor |-> c, revision |-> session.revision,
                   mode |-> IF session.booked = "NONE" THEN session.mode ELSE "INQUIRY",
                   capability |-> session.capability, facts |-> None]
  <1>1. req \in [Requests -> ReqRecords] /\ session \in Sessions
    BY DEF ConvInv, TypeOK
  <1>2. q \in ReqRecords
    BY <1>1 DEF ReqRecords, Sessions, Stages, Modes
  <1>3. req' = [req EXCEPT ![r] = q]
    BY DEF Begin
  <1>4. /\ req' \in [Requests -> ReqRecords] /\ req'[r] = q
        /\ \A s \in Requests : s # r => req'[s] = req[s]
    BY <1>1, <1>2, <1>3
  <1>5. UNCHANGED <<session, turn, transcript, proposal, carried, link>>
    BY DEF Begin
  <1>6. session.revision \in Nat
    BY <1>1 DEF Sessions
  <1>7. Fits(r)'
    BY <1>4, <1>5, <1>6 DEF Fits
  <1> QED BY <1>4, <1>5, <1>7, QuietKeeps

LEMMA EndKeeps ==
    ASSUME ConvInv, NEW r \in Requests, Refused(r) \/ Crash(r)
    PROVE  ConvInv'
  <1>1. /\ req' = [req EXCEPT ![r] = Done]
        /\ UNCHANGED <<session, turn, transcript, proposal, carried, link>>
    BY DEF Refused, Crash
  <1>2. /\ req' \in [Requests -> ReqRecords] /\ req'[r].pc = "done" /\ req'[r].facts = None
        /\ \A s \in Requests : s # r => req'[s] = req[s]
    BY <1>1, Ending
  <1>3. Fits(r)'
    BY <1>2 DEF Fits
  <1> QED BY <1>1, <1>2, <1>3, QuietKeeps

LEMMA ReplayKeeps ==
    ASSUME ConvInv, NEW r \in Requests, Replay(r)
    PROVE  ConvInv'
  <1> DEFINE stage == IF Answered(turn[req[r].msg]) THEN "leaving" ELSE "claimed"
  <1>1. /\ stage \in {"leaving", "claimed"} /\ stage \in Stages /\ Goto(r, stage)
        /\ stage = "claimed" => ~Answered(turn[req[r].msg])
        /\ req[r].pc = "leased"
        /\ UNCHANGED <<session, turn, transcript, proposal, carried, link>>
    BY DEF Replay, At, Stages
  <1> HIDE DEF stage
  <1>2. /\ req' \in [Requests -> ReqRecords]
        /\ req'[r].pc = stage /\ req'[r].msg = req[r].msg /\ req'[r].mode = req[r].mode
        /\ req'[r].facts = req[r].facts /\ req'[r].actor = req[r].actor
        /\ \A s \in Requests : s # r => req'[s] = req[s]
    BY <1>1, Going
  <1>3. Fits(r)
    BY FitsNow
  <1>4. Fits(r)'
    BY <1>1, <1>2, <1>3 DEF Fits, Answered
  <1> QED BY <1>1, <1>2, <1>4, QuietKeeps

(* One request and the session change.  The others see no other mode of    *)
(* their revision and nobody else gains the lease.                         *)
LEMMA RowKeeps ==
    ASSUME ConvInv, NEW r \in Requests, req' \in [Requests -> ReqRecords],
           \A s \in Requests : s # r => req'[s] = req[s],
           UNCHANGED <<turn, transcript, proposal, carried, link>>,
           session' \in Sessions, session'.lease = None <=> session'.expiry = "NONE",
           session'.lease \in {session.lease, r, None},
           session'.revision = session.revision,
           session.booked = "NONE" => session'.mode = session.mode,
           session'.booked = session.booked, session'.thread = session.thread,
           Fits(r)'
    PROVE  ConvInv'
  <1>1. TypeOK' /\ CountedOnce'
    BY DEF ConvInv, TypeOK, CountedOnce
  <1>2. \A s \in Requests : Fits(s)'
    <2>1. ASSUME NEW s \in Requests, s # r PROVE Fits(s)'
      <3>1. session'.lease = s => session.lease = s
        BY <2>1, ConversationAssumption
      <3> QED BY <2>1, <3>1, FitsNow DEF Fits
    <2> QED BY <2>1
  <1> QED BY <1>1, <1>2, ConvAgain

LEMMA AcquireKeeps ==
    ASSUME ConvInv, NEW r \in Requests, Acquire(r)
    PROVE  ConvInv'
  <1>1. /\ session' = [session EXCEPT !.lease = r, !.expiry = "AHEAD"]
        /\ session.revision = req[r].revision /\ req[r].pc = "read" /\ Goto(r, "leased")
        /\ UNCHANGED <<turn, transcript, proposal, carried, link>>
    BY DEF Acquire, At
  <1>2. /\ session' \in Sessions /\ session'.lease = r /\ session'.expiry = "AHEAD"
        /\ session'.revision = session.revision /\ session'.mode = session.mode
        /\ session'.booked = session.booked /\ session'.thread = session.thread
        /\ session'.client = session.client
    BY <1>1, RowTyped DEF Sessions, Expiries
  <1>3. /\ req' \in [Requests -> ReqRecords]
        /\ req'[r].pc = "leased" /\ req'[r].msg = req[r].msg /\ req'[r].mode = req[r].mode
        /\ req'[r].facts = req[r].facts /\ req'[r].actor = req[r].actor
        /\ \A s \in Requests : s # r => req'[s] = req[s]
    BY <1>1, Going DEF Stages
  <1>4. Fits(r)'
    BY <1>1, <1>2, <1>3, FitsNow DEF Fits
  <1>5. (session'.lease = None <=> session'.expiry = "NONE") /\ session'.lease \in {session.lease, r, None}
    BY <1>2, ConversationAssumption
  <1> QED BY <1>1, <1>2, <1>3, <1>4, <1>5, RowKeeps

LEMMA LinkPrivateKeeps ==
    ASSUME ConvInv, NEW r \in Requests, LinkPrivate(r)
    PROVE  ConvInv'
  <1> DEFINE c == req[r].actor
  <1>1. req \in [Requests -> ReqRecords] /\ req[r] \in ReqRecords
    BY DEF ConvInv, TypeOK
  <1>2. /\ c \in Clients /\ c # None /\ session.client \in {None, c}
        /\ session' = [session EXCEPT !.client = c] /\ req[r].pc = "working"
        /\ req' = [req EXCEPT ![r].facts = c]
        /\ UNCHANGED <<turn, transcript, proposal, carried, link>>
    BY <1>1 DEF LinkPrivate, At, StillOwn, OwnedBy, ReqRecords
  <1>3. /\ session' \in Sessions /\ session'.lease = session.lease
        /\ session'.expiry = session.expiry /\ session'.client = c
        /\ session'.revision = session.revision /\ session'.mode = session.mode
        /\ session'.booked = session.booked /\ session'.thread = session.thread
    BY <1>2, RowTyped DEF Sessions
  <1>4. /\ req' \in [Requests -> ReqRecords]
        /\ req'[r].pc = req[r].pc /\ req'[r].msg = req[r].msg /\ req'[r].mode = req[r].mode
        /\ req'[r].facts = c /\ req'[r].actor = c
        /\ \A s \in Requests : s # r => req'[s] = req[s]
    BY <1>1, <1>2 DEF ReqRecords
  <1> HIDE DEF c
  <1>5. Fits(r)'
    BY <1>2, <1>3, <1>4, FitsNow DEF Fits
  <1> QED BY <1>2, <1>3, <1>4, <1>5, RowTyped, RowKeeps

(* The holder has read the mode the row has, unless it is booked.          *)
LEMMA RememberKeeps ==
    ASSUME ConvInv, NEW r \in Requests, rememberLegalMessage(r)
    PROVE  ConvInv'
  <1>1. req \in [Requests -> ReqRecords] /\ req[r] \in ReqRecords
    BY DEF ConvInv, TypeOK
  <1>2. /\ session' = [session EXCEPT !.mode = req[r].mode] /\ req[r].pc = "working"
        /\ session.lease = r /\ req[r].mode \in Modes
        /\ UNCHANGED <<turn, transcript, proposal, carried, req, link>>
    BY <1>1 DEF rememberLegalMessage, At, Holds, ReqRecords
  <1>3. /\ session' \in Sessions /\ session'.lease = session.lease
        /\ session'.expiry = session.expiry /\ session'.client = session.client
        /\ session'.revision = session.revision /\ session'.mode = req[r].mode
        /\ session'.booked = session.booked /\ session'.thread = session.thread
    BY <1>2, RowTyped DEF Sessions
  <1>4. session.booked = "NONE" => session'.mode = session.mode
    BY <1>2, <1>3 DEF ConvInv, ConsentCurrent
  <1>5. Fits(r)'
    BY <1>2, <1>3, FitsNow DEF Fits
  <1> QED BY <1>1, <1>2, <1>3, <1>4, <1>5, RowTyped, RowKeeps

LEMMA LeaveKeeps ==
    ASSUME ConvInv, NEW r \in Requests, Leave(r)
    PROVE  ConvInv'
  <1>1. /\ req' = [req EXCEPT ![r] = Done]
        /\ UNCHANGED <<turn, transcript, proposal, carried, link>>
        /\ session' = IF session.lease = r THEN Released(session) ELSE session
    BY DEF Leave
  <1>2. /\ req' \in [Requests -> ReqRecords] /\ req'[r].pc = "done" /\ req'[r].facts = None
        /\ \A s \in Requests : s # r => req'[s] = req[s]
    BY <1>1, Ending
  <1>3. /\ session' \in Sessions /\ session'.lease \in {session.lease, None}
        /\ session'.lease = None <=> session'.expiry = "NONE"
        /\ session'.revision = session.revision /\ session'.mode = session.mode
        /\ session'.booked = session.booked /\ session'.thread = session.thread
        /\ session'.client = session.client
    <2>1. CASE session.lease = r
      BY <1>1, <2>1, RowTyped DEF Released, Sessions, Expiries
    <2>2. CASE session.lease # r
      BY <1>1, <2>2, RowTyped
    <2> QED BY <2>1, <2>2
  <1>4. Fits(r)'
    BY <1>2 DEF Fits
  <1>5. session'.lease \in {session.lease, r, None}
    BY <1>3
  <1> QED BY <1>1, <1>2, <1>3, <1>4, <1>5, RowKeeps

LEMMA ProposeKeeps ==
    ASSUME ConvInv, NEW r \in Requests, proposeAssistantAction(r)
    PROVE  ConvInv'
  <1> DEFINE m == req[r].msg
  <1>1. /\ proposal \in [Messages -> ProposalStatuses] /\ carried \in [Messages -> Nat]
        /\ CountedOnce
    BY DEF ConvInv, TypeOK
  <1>2. /\ proposal[m] = "NONE" /\ proposal' = [proposal EXCEPT ![m] = "PENDING"]
        /\ UNCHANGED <<session, turn, transcript, carried, req, link>>
    BY DEF proposeAssistantAction
  <1>3. proposal' \in [Messages -> ProposalStatuses] /\ CountedOnce'
    BY <1>1, <1>2 DEF CountedOnce, ProposalStatuses
  <1>4. TypeOK'
    BY <1>2, <1>3 DEF ConvInv, TypeOK
  <1>5. ConvInv'
    BY <1>2, <1>3, <1>4 DEF ConvInv, Addressed, ReadCurrent, ConsentCurrent, HolderPending
  <1> QED BY <1>5

-----------------------------------------------------------------------------
(* Steps that write turns.                                                 *)
LEMMA Marked ==
    ASSUME turn \in [Messages -> Turns], NEW m \in Messages, NEW st \in TurnStatuses,
           NEW u, u = [turn EXCEPT ![m].status = st]
    PROVE  /\ u \in [Messages -> Turns]
           /\ u[m].status = st /\ u[m].text = turn[m].text /\ u[m].private = turn[m].private
           /\ \A n \in Messages : n # m => u[n] = turn[n]
  BY DEF Turns

LEMMA SaveKeeps ==
    ASSUME ConvInv, NEW r \in Requests, Save(r)
    PROVE  ConvInv'
  <1> DEFINE m == req[r].msg
  <1>1. /\ req[r].pc = "claimed" /\ Goto(r, "working")
        /\ turn' = [turn EXCEPT ![m].status = "PENDING"]
        /\ UNCHANGED <<session, transcript, proposal, carried, link>>
    BY DEF Save, At
  <1>2. m \in Messages /\ turn \in [Messages -> Turns]
    BY <1>1 DEF ConvInv, TypeOK, Addressed
  <1> HIDE DEF m
  <1>3. /\ turn' \in [Messages -> Turns]
        /\ turn'[m].status = "PENDING" /\ turn'[m].text = turn[m].text
        /\ turn'[m].private = turn[m].private
        /\ \A n \in Messages : n # m => turn'[n] = turn[n]
    <2>1. "PENDING" \in TurnStatuses /\ turn' = [turn EXCEPT ![m].status = "PENDING"]
      BY <1>1 DEF TurnStatuses
    <2> QED BY <1>2, <2>1, Marked
  <1>4. /\ req' \in [Requests -> ReqRecords]
        /\ req'[r].pc = "working" /\ req'[r].msg = m /\ req'[r].mode = req[r].mode
        /\ req'[r].facts = req[r].facts /\ req'[r].actor = req[r].actor
        /\ \A s \in Requests : s # r => req'[s] = req[s]
    BY <1>1, Going DEF Stages, m
  <1>5. TypeOK' /\ CountedOnce'
    BY <1>1, <1>3, <1>4 DEF ConvInv, TypeOK, CountedOnce
  <1>6. Fits(r)'
    BY <1>1, <1>2, <1>3, <1>4, FitsNow DEF Fits, m
  <1>7. ASSUME NEW s \in Requests, s # r PROVE Fits(s)'
    <2>1. req'[s] = req[s] /\ Fits(s) /\ session' = session
      BY <1>1, <1>4, <1>7, FitsNow
    <2>2. CASE req[s].msg = m
      BY <1>3, <2>1, <2>2 DEF Fits, Answered
    <2>3. CASE req[s].msg # m
      <3>1. req[s].pc \notin {"idle", "done"} => turn'[req[s].msg] = turn[req[s].msg]
        BY <1>3, <2>1, <2>3 DEF Fits
      <3> QED BY <2>1, <3>1 DEF Fits
    <2> QED BY <2>2, <2>3
  <1> QED BY <1>5, <1>6, <1>7, ConvAgain

LEMMA FailKeeps ==
    ASSUME ConvInv, NEW r \in Requests, FailTurn(r)
    PROVE  ConvInv'
  <1> DEFINE m == req[r].msg
  <1>1. /\ req[r].pc = "working" /\ Goto(r, "leaving")
        /\ UNCHANGED <<session, transcript, proposal, carried, link>>
    BY DEF FailTurn, At
  <1>2. m \in Messages /\ turn \in [Messages -> Turns]
    BY <1>1 DEF ConvInv, TypeOK, Addressed
  <1>3. /\ turn' \in [Messages -> Turns]
        /\ turn' = turn \/ session.lease = r
        /\ \A n \in Messages :
            /\ Answered(turn'[n]) <=> Answered(turn[n])
            /\ turn'[n].text = turn[n].text
            /\ turn'[n].private = turn[n].private
    <2>1. CASE session.lease = r /\ turn[m].status = "PENDING"
      <3>1. turn' = [turn EXCEPT ![m].status = "FAILED"]
        BY <2>1 DEF FailTurn
      <3>2. /\ turn' \in [Messages -> Turns]
            /\ turn'[m].status = "FAILED" /\ turn'[m].text = turn[m].text
            /\ turn'[m].private = turn[m].private
            /\ \A n \in Messages : n # m => turn'[n] = turn[n]
        BY <1>2, <3>1, Marked DEF TurnStatuses
      <3> QED BY <2>1, <3>2 DEF Answered
    <2>2. CASE ~(session.lease = r /\ turn[m].status = "PENDING")
      <3>1. turn' = turn
        BY <2>2 DEF FailTurn
      <3> QED BY <1>2, <3>1
    <2> QED BY <2>1, <2>2
  <1>4. /\ req' \in [Requests -> ReqRecords]
        /\ req'[r].pc = "leaving" /\ req'[r].msg = m
        /\ req'[r].facts = req[r].facts /\ req'[r].actor = req[r].actor
        /\ \A s \in Requests : s # r => req'[s] = req[s]
    BY <1>1, Going DEF Stages
  <1>5. TypeOK' /\ CountedOnce'
    BY <1>1, <1>3, <1>4 DEF ConvInv, TypeOK, CountedOnce
  <1>6. Fits(r)'
    BY <1>1, <1>2, <1>4, FitsNow DEF Fits
  <1>7. ASSUME NEW s \in Requests, s # r PROVE Fits(s)'
    <2>1. req'[s] = req[s] /\ Fits(s) /\ session' = session
      BY <1>1, <1>4, <1>7, FitsNow
    <2> QED BY <1>3, <1>7, <2>1 DEF Fits
  <1> QED BY <1>5, <1>6, <1>7, ConvAgain

LEMMA ReleasedRow ==
    ASSUME NEW s \in Sessions
    PROVE  /\ Released(s) \in Sessions /\ Released(s).lease = None
           /\ Released(s).expiry = "NONE" /\ Released(s).revision = s.revision
           /\ Released(s).mode = s.mode /\ Released(s).booked = s.booked
           /\ Released(s).client = s.client /\ Released(s).thread = s.thread
  BY DEF Released, Sessions, Expiries

LEMMA RecoverKeeps ==
    ASSUME ConvInv, Recover
    PROVE  ConvInv'
  <1>1. /\ session' = Bumped(Released(session))
        /\ UNCHANGED <<transcript, proposal, carried, req, link>>
    BY DEF Recover
  <1>2. /\ session' \in Sessions /\ session'.lease = None /\ session'.expiry = "NONE"
        /\ session'.revision > session.revision /\ session'.mode = session.mode
        /\ session'.booked = session.booked /\ session'.thread = session.thread
        /\ session'.client = session.client
    BY <1>1, RowTyped, ReleasedRow, BumpedRow
  <1>3. turn \in [Messages -> Turns]
    BY DEF ConvInv, TypeOK
  <1>4. \A n \in Messages :
          turn'[n] = IF turn[n].status = "PENDING" THEN [turn[n] EXCEPT !.status = "FAILED"]
                     ELSE turn[n]
    BY DEF Recover
  <1>5. \A n \in Messages :
            /\ turn'[n] \in Turns
            /\ Answered(turn'[n]) <=> Answered(turn[n])
            /\ turn'[n].text = turn[n].text
            /\ turn'[n].private = turn[n].private
    <2>1. SUFFICES ASSUME NEW n \in Messages
                   PROVE  /\ turn'[n] \in Turns
                          /\ Answered(turn'[n]) <=> Answered(turn[n])
                          /\ turn'[n].text = turn[n].text
                          /\ turn'[n].private = turn[n].private
      OBVIOUS
    <2>2. CASE turn[n].status = "PENDING"
      BY <1>3, <1>4, <2>2 DEF Turns, TurnStatuses, Answered
    <2>3. CASE turn[n].status # "PENDING"
      BY <1>3, <1>4, <2>3
    <2> QED BY <2>2, <2>3
  <1>6. turn' \in [Messages -> Turns]
    BY <1>5 DEF Recover
  <1>7. TypeOK' /\ CountedOnce'
    BY <1>1, <1>2, <1>6 DEF ConvInv, TypeOK, CountedOnce
  <1>8. ASSUME NEW r \in Requests PROVE Fits(r)'
    <2>1. req'[r] = req[r] /\ Fits(r) /\ req[r] \in ReqRecords
      BY <1>1, FitsNow DEF ConvInv, TypeOK
    <2>2. req[r].revision \in Nat /\ session.revision \in Nat /\ session'.revision \in Nat
      BY <1>2, <2>1, RowTyped DEF ReqRecords, Sessions
    <2> QED BY <1>2, <2>1, <2>2, ConversationAssumption DEF Fits
  <1> QED BY <1>7, <1>8, ConvAgain

(* The owner of the lease answers its turn, and the thread follows.        *)
LEMMA AnswerKeeps ==
    ASSUME ConvInv, NEW r \in Requests, NEW m, NEW a \in Turns,
           m = req[r].msg, req[r].pc = "working", Goto(r, "leaving"),
           session.lease = r, session' \in Sessions,
           session'.lease = session.lease, session'.expiry = session.expiry,
           session'.client = session.client, session'.revision > session.revision,
           turn' = [turn EXCEPT ![m] = a],
           \/ /\ session.thread = "NONE" /\ session'.thread = "NONE"
              /\ transcript' = transcript
           \/ /\ session'.thread # "NONE"
              /\ transcript' = syncAssistantTranscript(turn', transcript),
           UNCHANGED <<proposal, carried, link>>
    PROVE  ConvInv'
  <1>1. /\ m \in Messages /\ turn \in [Messages -> Turns] /\ transcript \in SUBSET Entries
        /\ turn[m].status = "PENDING"
    BY DEF ConvInv, TypeOK, Addressed, HolderPending
  <1>2. /\ turn' \in [Messages -> Turns] /\ turn'[m] = a
        /\ \A n \in Messages : n # m => turn'[n] = turn[n]
    BY <1>1
  <1>3. /\ req' \in [Requests -> ReqRecords]
        /\ req'[r].pc = "leaving" /\ req'[r].msg = m
        /\ req'[r].facts = req[r].facts /\ req'[r].actor = req[r].actor
        /\ \A s \in Requests : s # r => req'[s] = req[s]
    BY Going DEF Stages
  <1>4. transcript' \subseteq Entries
    <2>1. syncAssistantTranscript(turn', transcript) \subseteq Entries
      BY <1>1, <1>2, SyncTyped
    <2> QED BY <1>1, <2>1
  <1>5. TypeOK' /\ CountedOnce'
    BY <1>2, <1>3, <1>4 DEF ConvInv, TypeOK, CountedOnce
  <1>6. Fits(r)'
    BY <1>1, <1>3, FitsNow DEF Fits
  <1>7. ASSUME NEW s \in Requests, s # r PROVE Fits(s)'
    <2>1. req'[s] = req[s] /\ Fits(s) /\ req[s] \in ReqRecords
      BY <1>3, <1>7, FitsNow DEF ConvInv, TypeOK
    <2>2. req[s].revision \in Nat /\ session.revision \in Nat /\ session'.revision \in Nat
      BY <2>1, RowTyped DEF ReqRecords, Sessions
    <2> QED BY <1>7, <2>1, <2>2 DEF Fits
  <1> QED BY <1>5, <1>6, <1>7, ConvAgain

LEMMA CompleteKeeps ==
    ASSUME ConvInv, NEW r \in Requests, NEW intent \in Intents, Complete(r, intent)
    PROVE  ConvInv'
  <1> DEFINE m == req[r].msg
             a == [status |-> "COMPLETED", text |-> r, private |-> req[r].facts]
             w == ModeAfter(req[r].mode, intent)
             s == [session EXCEPT !.mode = w]
  <1>1. req[r] \in ReqRecords
    BY DEF ConvInv, TypeOK
  <1>2. a \in Turns /\ Answered(a) /\ a.private = req[r].facts
    BY <1>1 DEF Turns, TurnStatuses, ReqRecords, Answered
  <1>3. w \in Modes
    BY <1>1 DEF ModeAfter, Modes, ReqRecords
  <1>4. /\ req[r].pc = "working" /\ Goto(r, "leaving") /\ session.lease = r
        /\ session' = Bumped(s) /\ turn' = [turn EXCEPT ![m] = a]
        /\ transcript' = IF session.thread = "NONE" THEN transcript
                         ELSE syncAssistantTranscript(turn', transcript)
        /\ UNCHANGED <<proposal, carried, link>>
    BY DEF Complete, At, Holds
  <1> HIDE DEF w, a, m
  <1>5. /\ s \in Sessions /\ s.lease = session.lease /\ s.expiry = session.expiry
        /\ s.client = session.client /\ s.revision = session.revision
        /\ s.thread = session.thread
    BY <1>3, RowTyped DEF Sessions
  <1> HIDE DEF s
  <1>6. /\ session' \in Sessions /\ session'.lease = session.lease
        /\ session'.expiry = session.expiry /\ session'.client = session.client
        /\ session'.revision > session.revision /\ session'.thread = session.thread
    BY <1>4, <1>5, BumpedRow
  <1>7. \/ /\ session.thread = "NONE" /\ session'.thread = "NONE"
           /\ transcript' = transcript
        \/ /\ session'.thread # "NONE"
           /\ transcript' = syncAssistantTranscript(turn', transcript)
    BY <1>4, <1>6
  <1>8. m = req[r].msg
    BY DEF m
  <1> QED BY <1>2, <1>4, <1>6, <1>7, <1>8, AnswerKeeps

LEMMA SendKeeps ==
    ASSUME ConvInv, NEW r \in Requests, SendToOffice(r)
    PROVE  ConvInv'
  <1> DEFINE m == req[r].msg
             a == [turn[m] EXCEPT !.status = "HUMAN"]
             s == HandedOff(session)
  <1>1. /\ req[r].pc = "working" /\ Goto(r, "leaving") /\ session.lease = r
        /\ session' = Bumped(s) /\ turn' = [turn EXCEPT ![m] = a]
        /\ transcript' = syncAssistantTranscript(turn', transcript)
        /\ UNCHANGED <<proposal, carried, link>>
    BY DEF SendToOffice, At, Holds
  <1>2. m \in Messages /\ turn[m] \in Turns
    BY <1>1 DEF ConvInv, TypeOK, Addressed
  <1>3. a \in Turns /\ Answered(a) /\ a.private = turn[m].private
    BY <1>2 DEF Turns, TurnStatuses, Answered
  <1>4. /\ s \in Sessions /\ s.lease = session.lease /\ s.expiry = session.expiry
        /\ s.client = session.client /\ s.revision = session.revision /\ s.thread # "NONE"
    BY RowTyped, HandedRow
  <1> HIDE DEF s
  <1>5. /\ session' \in Sessions /\ session'.lease = session.lease
        /\ session'.expiry = session.expiry /\ session'.client = session.client
        /\ session'.revision > session.revision /\ session'.thread # "NONE"
    BY <1>1, <1>4, BumpedRow
  <1>6. m = req[r].msg
    OBVIOUS
  <1> HIDE DEF a, m
  <1> QED BY <1>1, <1>3, <1>5, <1>6, AnswerKeeps

-----------------------------------------------------------------------------
(* The invariant holds from the start and every step keeps it.             *)
LEMMA InitConv == Init => ConvInv
  <1> SUFFICES ASSUME Init PROVE ConvInv
    OBVIOUS
  <1>1. PICK c \in Clients \cup {None} :
          session = [revision |-> 0, lease |-> None, expiry |-> "NONE", mode |-> "INQUIRY",
                     booked |-> "NONE", client |-> c, thread |-> "NONE", capability |-> 0]
    BY DEF Init
  <1>2. /\ session \in Sessions /\ session.lease = None /\ session.expiry = "NONE"
        /\ session.thread = "NONE"
    BY <1>1 DEF Sessions, Modes, Bookings, Threads, Expiries
  <1>3. NoTurn \in Turns /\ ~Answered(NoTurn) /\ NoTurn.private = None
    BY DEF NoTurn, Turns, TurnStatuses, Answered
  <1>4. Idle \in ReqRecords /\ Idle.pc = "idle" /\ Idle.facts = None
    BY DEF Idle, ReqRecords, Stages, Modes
  <1>5. TypeOK
    BY <1>2, <1>3, <1>4 DEF Init, TypeOK, Links, ProposalStatuses
  <1>6. \A r \in Requests : req[r].pc = "idle" /\ req[r].facts = None
    BY <1>4 DEF Init
  <1>7. Addressed /\ ReadCurrent /\ ConsentCurrent /\ HolderPending
    BY <1>6 DEF Addressed, ReadCurrent, ConsentCurrent, HolderPending
  <1>8. CountedOnce
    BY DEF Init, CountedOnce
  <1> QED BY <1>5, <1>7, <1>8 DEF ConvInv

LEMMA WorkKeeps ==
    ASSUME ConvInv, NEW r \in Requests, Work(r)
    PROVE  ConvInv'
  <1>1. CASE Save(r)
    BY <1>1, SaveKeeps
  <1>2. CASE (Acquire(r) \/ Refused(r) \/ Replay(r) \/ LinkPrivate(r)
                       \/ proposeAssistantAction(r) \/ rememberLegalMessage(r))
    BY <1>2, AcquireKeeps, EndKeeps, ReplayKeeps, LinkPrivateKeeps, ProposeKeeps, RememberKeeps
  <1>3. CASE ((\E intent \in Intents : Complete(r, intent)) \/ SendToOffice(r)
                       \/ FailTurn(r) \/ Leave(r))
    BY <1>3, CompleteKeeps, SendKeeps, FailKeeps, LeaveKeeps
  <1> QED BY <1>1, <1>2, <1>3 DEF Work

LEMMA CustomerKeeps ==
    ASSUME ConvInv, Customer
    PROVE  ConvInv'
  <1>1. ASSUME NEW r \in Requests, NEW m \in Messages, NEW c \in Clients \cup {None},
               Begin(r, m, c)
        PROVE  ConvInv'
    BY <1>1, BeginKeeps
  <1>2. ASSUME NEW mode \in Modes, changeAssistantDialogue(mode) PROVE ConvInv'
    BY <1>2, DialoguePage, PageKeeps
  <1>3. CASE SetLocale \/ setOfficeContact \/ CancelBooking
    BY <1>3, BumpPage, PageKeeps
  <1>4. ASSUME NEW c \in Clients,
               attachAuthenticatedClient(c) \/ registerConversationClient(c) \/ SubmitFormation(c)
        PROVE  ConvInv'
    BY <1>4, ClientPage, PageKeeps
  <1>5. CASE submitConversationRequest \/ mutateDirectBooking
    BY <1>5, SubmitPage, BookingPage, PageKeeps
  <1>6. ASSUME NEW m \in Messages, CancelAction(m) \/ StaleAction(m) \/ ConfirmAction(m)
        PROVE  ConvInv'
    BY <1>6, ActionPage, PageKeeps
  <1>7. ASSUME NEW p \in {"ACTIVATE", "RECOVER"}, startClientVerification(p) PROVE ConvInv'
    BY <1>7, LinkPage, PageKeeps
  <1>8. CASE OpenLink
    BY <1>8, LinkPage, PageKeeps
  <1> QED BY <1>1, <1>2, <1>3, <1>4, <1>5, <1>6, <1>7, <1>8 DEF Customer

LEMMA NextKeeps == ConvInv /\ [Next]_vars => ConvInv'
  <1> SUFFICES ASSUME ConvInv, [Next]_vars PROVE ConvInv'
    OBVIOUS
  <1>1. ASSUME NEW c \in Clients, completeClientVerification(c) PROVE ConvInv'
    BY <1>1, VerifiedPage, PageKeeps
  <1>2. CASE RefuseLink
    BY <1>2, LinkPage, PageKeeps
  <1>3. ASSUME NEW r \in Requests, Work(r) PROVE ConvInv'
    BY <1>3, WorkKeeps
  <1>4. CASE Customer
    BY <1>4, CustomerKeeps
  <1>5. ASSUME NEW status \in {"OPEN", "CLOSED"}, NEW assistant \in {"KEPT", "SET"},
               updateAdminConversation(status, assistant)
        PROVE  ConvInv'
    BY <1>5, OfficePage, PageKeeps
  <1>6. CASE replyAdminConversation
    BY <1>6, BumpPage, PageKeeps
  <1>7. CASE LeaseExpires
    BY <1>7, ExpiryPage, PageKeeps
  <1>8. CASE Recover
    BY <1>8, RecoverKeeps
  <1>9. ASSUME NEW r \in Requests, Crash(r) PROVE ConvInv'
    BY <1>9, EndKeeps
  <1>10. CASE UNCHANGED vars
    BY <1>10 DEF vars, ConvInv, TypeOK, Addressed, ReadCurrent, ConsentCurrent, HolderPending,
       CountedOnce, Answered
  <1> QED BY <1>1, <1>2, <1>3, <1>4, <1>5, <1>6, <1>7, <1>8, <1>9, <1>10
    DEF Next, FinishLink, Office

LEMMA ConvAlways == Spec => []ConvInv
  BY InitConv, NextKeeps, PTL DEF Spec

-----------------------------------------------------------------------------
(* Every row the handlers write is well typed, and the time of a lease is  *)
(* set exactly while it has an owner.                                      *)
THEOREM TypeCorrect == Spec => []TypeOK
  <1>1. ConvInv => TypeOK
    BY DEF ConvInv
  <1> QED BY <1>1, ConvAlways, PTL

(* A consent to book, or its withdrawal, is never undone by an answer to   *)
(* an older message: the lease is only taken on the revision that was      *)
(* read, and nothing changes the mode of a leased conversation.            *)
THEOREM ConsentStaysCurrent == Spec => []ConsentCurrent
  <1>1. ConvInv => ConsentCurrent
    BY DEF ConvInv
  <1> QED BY <1>1, ConvAlways, PTL

(* The action of one message is carried out at most once, retried,         *)
(* confirmed again or proposed by two requests.                            *)
THEOREM CarriedOnce == Spec => []ActionOnce
  <1>1. ConvInv => ActionOnce
    <2> SUFFICES ASSUME ConvInv, NEW m \in Messages PROVE carried[m] <= 1
      BY DEF ActionOnce
    <2> QED BY DEF ConvInv, CountedOnce
  <1> QED BY <1>1, ConvAlways, PTL

LEMMA StandStep ==
    ASSUME ConvInv, NEW m \in Messages, ~LateSave(m), [Next]_vars, Answered(turn[m])
    PROVE  turn'[m] = turn[m]
  <1>1. turn \in [Messages -> Turns] /\ turn[m].status # "PENDING"
    BY DEF ConvInv, TypeOK, Answered
  <1>2. CASE turn' = turn
    BY <1>2
  <1>3. ASSUME NEW r \in Requests, Save(r) PROVE turn'[m] = turn[m]
    <2>1. req[r].msg # m
      BY <1>3 DEF LateSave, Save, At, ConvInv, HolderPending
    <2> QED BY <1>1, <1>3, <2>1 DEF Save
  <1>4. ASSUME NEW r \in Requests, FailTurn(r) PROVE turn'[m] = turn[m]
    <2>1. CASE session.lease = r /\ turn[req[r].msg].status = "PENDING"
      BY <1>1, <1>4, <2>1 DEF FailTurn
    <2>2. CASE ~(session.lease = r /\ turn[req[r].msg].status = "PENDING")
      BY <1>4, <2>2 DEF FailTurn
    <2> QED BY <2>1, <2>2
  <1>5. ASSUME NEW r \in Requests, NEW intent \in Intents, Complete(r, intent)
        PROVE  turn'[m] = turn[m]
    <2>1. req[r].msg # m
      BY <1>1, <1>5 DEF ConvInv, HolderPending, Complete, At, Holds
    <2> QED BY <1>1, <1>5, <2>1 DEF Complete
  <1>6. ASSUME NEW r \in Requests, SendToOffice(r) PROVE turn'[m] = turn[m]
    <2>1. req[r].msg # m
      BY <1>1, <1>6 DEF ConvInv, HolderPending, SendToOffice, At, Holds
    <2> QED BY <1>1, <1>6, <2>1 DEF SendToOffice
  <1>7. CASE Recover
    BY <1>1, <1>7 DEF Recover
  <1>8. CASE FinishLink \/ Customer \/ Office \/ LeaseExpires
    <2>1. turn' = turn
      BY <1>8 DEF FinishLink, Customer, Office, completeClientVerification, RefuseLink, Begin,
         changeAssistantDialogue, SetLocale, setOfficeContact, attachAuthenticatedClient,
         registerConversationClient, SubmitFormation, submitConversationRequest,
         mutateDirectBooking, CancelBooking, CancelAction, StaleAction, ConfirmAction,
         startClientVerification, OpenLink, replyAdminConversation, updateAdminConversation,
         LeaseExpires
    <2> QED BY <2>1
  <1>9. ASSUME NEW r \in Requests,
               Acquire(r) \/ Refused(r) \/ Replay(r) \/ LinkPrivate(r)
                 \/ proposeAssistantAction(r) \/ rememberLegalMessage(r)
                 \/ Leave(r) \/ Crash(r)
        PROVE  turn'[m] = turn[m]
    <2>1. turn' = turn
      BY <1>9 DEF Acquire, Refused, Replay, LinkPrivate, proposeAssistantAction,
         rememberLegalMessage, Leave, Crash
    <2> QED BY <2>1
  <1>10. CASE UNCHANGED vars
    BY <1>10 DEF vars
  <1>11. ASSUME NEW r \in Requests, Work(r) PROVE turn'[m] = turn[m]
    BY <1>3, <1>4, <1>5, <1>6, <1>9, <1>11 DEF Work
  <1> QED BY <1>7, <1>8, <1>9, <1>10, <1>11 DEF Next

-----------------------------------------------------------------------------
(* Nothing but the two late writes takes an answer back, shows one to      *)
(* another client or parts the thread from the conversation.               *)

NoThreadNoEntry == session.thread = "NONE" => transcript = {}

(* A link that read whose the conversation was finds it still theirs.      *)
SeenKept ==
  link.phase = "reading" /\ link.seen # None => session.client = link.seen

(* Account facts have been read for somebody.                              *)
FactsOwned ==
  \A r \in Requests : req[r].facts # None =>
    req[r].facts = req[r].actor /\ session.client # None

FreeInv == NoThreadNoEntry /\ FactsOwned /\ SeenKept

(* Who the conversation belongs to.                                        *)
HandsStep ==
  \/ session'.client = session.client
  \/ session.client = None /\ session'.client \in Clients
  \/ \E c \in Clients : completeClientVerification(c) /\ session'.client = c

(* What a page, the clock or a link does to it.                            *)
LEMMA OutsideHands ==
    ASSUME ConvInv, FinishLink \/ Customer \/ Office \/ LeaseExpires \/ Recover
    PROVE  HandsStep
  <1> USE RowTyped DEF Sessions
  <1>1. ASSUME NEW c \in Clients, completeClientVerification(c) PROVE HandsStep
    <2>1. session'.client = c
      BY <1>1 DEF completeClientVerification, Released
    <2> QED BY <1>1, <2>1 DEF HandsStep
  <1>2. ASSUME NEW c \in Clients,
               attachAuthenticatedClient(c) \/ registerConversationClient(c) \/ SubmitFormation(c)
        PROVE  HandsStep
    BY <1>2 DEF attachAuthenticatedClient, registerConversationClient, SubmitFormation, Bumped,
       OwnedBy, HandsStep
  <1>3. CASE RefuseLink \/ submitConversationRequest \/ OpenLink \/ LeaseExpires \/ Recover
             \/ SetLocale \/ setOfficeContact \/ CancelBooking \/ replyAdminConversation
    BY <1>3 DEF RefuseLink, submitConversationRequest, OpenLink, LeaseExpires, Recover, SetLocale,
       setOfficeContact, CancelBooking, replyAdminConversation, Bumped, Released, HandsStep
  <1>4. ASSUME NEW mode \in Modes, changeAssistantDialogue(mode) PROVE HandsStep
    BY <1>4 DEF changeAssistantDialogue, Bumped, HandsStep
  <1>5. CASE session' = Booked
    BY <1>5 DEF Booked, HandedOff, Bumped, HandsStep
  <1>6. ASSUME NEW m \in Messages, CancelAction(m) \/ StaleAction(m) \/ ConfirmAction(m)
        PROVE  HandsStep
    BY <1>5, <1>6 DEF CancelAction, StaleAction, ConfirmAction, Bumped, HandsStep
  <1>7. ASSUME NEW r \in Requests, NEW m \in Messages, NEW c \in Clients \cup {None},
               Begin(r, m, c)
        PROVE  HandsStep
    BY <1>7 DEF Begin, HandsStep
  <1>8. ASSUME NEW p \in {"ACTIVATE", "RECOVER"}, startClientVerification(p) PROVE HandsStep
    BY <1>8 DEF startClientVerification, HandsStep
  <1>9. ASSUME NEW status \in {"OPEN", "CLOSED"}, NEW assistant \in {"KEPT", "SET"},
               updateAdminConversation(status, assistant)
        PROVE  HandsStep
    BY <1>9 DEF updateAdminConversation, HandsStep
  <1>10. mutateDirectBooking => session' = Booked
    BY DEF mutateDirectBooking
  <1> QED BY <1>1, <1>2, <1>3, <1>4, <1>5, <1>6, <1>7, <1>8, <1>9, <1>10
          DEF FinishLink, Customer, Office

LEMMA WorkHands ==
    ASSUME ConvInv, NEW r \in Requests, Work(r) \/ Crash(r)
    PROVE  HandsStep
  <1> USE RowTyped DEF Sessions
  <1>1. CASE LinkPrivate(r)
    <2>1. req[r].actor \in Clients
      BY <1>1, ConversationAssumption DEF LinkPrivate, ConvInv, TypeOK, ReqRecords
    <2> QED BY <1>1, <2>1 DEF LinkPrivate, StillOwn, OwnedBy, HandsStep
  <1>2. ASSUME NEW intent \in Intents, Complete(r, intent) PROVE HandsStep
    BY <1>2 DEF Complete, Bumped, HandsStep
  <1>3. CASE SendToOffice(r)
    BY <1>3 DEF SendToOffice, HandedOff, Bumped, HandsStep
  <1>4. CASE Acquire(r) \/ rememberLegalMessage(r) \/ Leave(r)
    BY <1>4 DEF Acquire, rememberLegalMessage, Leave, Released, HandsStep
  <1>5. CASE Save(r) \/ Refused(r) \/ Replay(r) \/ proposeAssistantAction(r) \/ FailTurn(r)
             \/ Crash(r)
    BY <1>5 DEF Save, Refused, Replay, proposeAssistantAction, FailTurn, Crash, HandsStep
  <1> QED BY <1>1, <1>2, <1>3, <1>4, <1>5 DEF Work

LEMMA HandsKept ==
    ASSUME ConvInv, [Next]_vars
    PROVE  HandsStep
  <1>1. CASE UNCHANGED vars
    BY <1>1 DEF vars, HandsStep
  <1> QED BY <1>1, OutsideHands, WorkHands DEF Next

(* The link that read whose it was leaves it theirs.                       *)
LEMMA HandsLate ==
    ASSUME ConvInv, SeenKept, [Next]_vars, ~LateLink
    PROVE  session.client \in {None, session'.client}
  <1>1. ASSUME NEW c \in Clients, completeClientVerification(c), session'.client = c
        PROVE  session.client \in {None, c}
    <2>1. CASE link.seen = None
      BY <1>1, <2>1 DEF LateLink
    <2>2. CASE link.seen # None
      BY <1>1, <2>2 DEF completeClientVerification, SeenKept
    <2> QED BY <2>1, <2>2
  <1> QED BY <1>1, HandsKept DEF HandsStep

(* A request knows account facts of its own caller only.                   *)
FactsStep(r) ==
  req'[r].facts # None =>
    \/ req'[r].facts = req[r].facts /\ req'[r].actor = req[r].actor
    \/ req'[r].facts = req'[r].actor /\ session'.client = req'[r].actor

LEMMA FactsKept ==
    ASSUME ConvInv, [Next]_vars, NEW r \in Requests
    PROVE  FactsStep(r)
  <1>1. CASE req' = req
    BY <1>1 DEF FactsStep
  <1>2. ASSUME NEW s \in Requests, NEW m \in Messages, NEW c \in Clients \cup {None},
               Begin(s, m, c)
        PROVE  FactsStep(r)
    <2>1. req \in [Requests -> ReqRecords]
      BY DEF ConvInv, TypeOK
    <2>2. CASE r = s
      BY <1>2, <2>1, <2>2 DEF Begin, FactsStep
    <2>3. CASE r # s
      BY <1>2, <2>1, <2>3 DEF Begin, FactsStep
    <2> QED BY <2>2, <2>3
  <1>3. ASSUME NEW s \in Requests, NEW stage \in Stages, Goto(s, stage)
        PROVE  FactsStep(r)
    BY <1>3, Going DEF FactsStep
  <1>4. ASSUME NEW s \in Requests, req' = [req EXCEPT ![s] = Done]
        PROVE  FactsStep(r)
    BY <1>4, Ending DEF FactsStep
  <1>5. ASSUME NEW s \in Requests, LinkPrivate(s)
        PROVE  FactsStep(r)
    <2>1. /\ req \in [Requests -> ReqRecords] /\ session \in Sessions
          /\ req' = [req EXCEPT ![s].facts = req[s].actor]
          /\ session' = [session EXCEPT !.client = req[s].actor]
      BY <1>5 DEF LinkPrivate, ConvInv, TypeOK
    <2>2. CASE r = s
      BY <2>1, <2>2 DEF FactsStep, ReqRecords, Sessions
    <2>3. CASE r # s
      BY <2>1, <2>3 DEF FactsStep
    <2> QED BY <2>2, <2>3
  <1>6. ASSUME NEW s \in Requests, Work(s) \/ Crash(s)
        PROVE  FactsStep(r)
    <2>1. CASE Acquire(s) \/ Save(s) \/ FailTurn(s) \/ SendToOffice(s) \/ Replay(s)
               \/ \E intent \in Intents : Complete(s, intent)
      <3>1. \E stage \in Stages : Goto(s, stage)
        BY <2>1 DEF Acquire, Save, FailTurn, SendToOffice, Replay, Complete, Stages
      <3> QED BY <1>3, <3>1
    <2>2. CASE Refused(s) \/ Leave(s) \/ Crash(s)
      BY <1>4, <2>2 DEF Refused, Leave, Crash
    <2>3. CASE proposeAssistantAction(s) \/ rememberLegalMessage(s)
      BY <1>1, <2>3 DEF proposeAssistantAction, rememberLegalMessage
    <2> QED BY <1>5, <1>6, <2>1, <2>2, <2>3 DEF Work
  <1>7. CASE UNCHANGED vars \/ FinishLink \/ Office \/ LeaseExpires \/ Recover
    <2>1. ASSUME NEW c \in Clients, completeClientVerification(c) PROVE req' = req
      BY <2>1 DEF completeClientVerification
    <2>2. ASSUME NEW status \in {"OPEN", "CLOSED"}, NEW assistant \in {"KEPT", "SET"},
                 updateAdminConversation(status, assistant)
          PROVE  req' = req
      BY <2>2 DEF updateAdminConversation
    <2>3. UNCHANGED vars \/ RefuseLink => req' = req
      BY DEF vars, RefuseLink
    <2>4. replyAdminConversation \/ LeaseExpires => req' = req
      BY DEF replyAdminConversation, LeaseExpires
    <2>5. Recover => req' = req
      BY DEF Recover
    <2> QED BY <1>1, <1>7, <2>1, <2>2, <2>3, <2>4, <2>5 DEF FinishLink, Office
  <1>8. CASE Customer
    <2>1. req' = req \/ \E s \in Requests, m \in Messages, c \in Clients \cup {None} :
                           Begin(s, m, c)
      BY <1>8 DEF Customer, changeAssistantDialogue, SetLocale, setOfficeContact,
         attachAuthenticatedClient, registerConversationClient, SubmitFormation,
         submitConversationRequest, mutateDirectBooking, CancelBooking, CancelAction,
         StaleAction, ConfirmAction, startClientVerification, OpenLink
    <2> QED BY <1>1, <1>2, <2>1
  <1> QED BY <1>6, <1>7, <1>8 DEF Next

LEMMA FactsOwnedKept ==
    ASSUME ConvInv, FactsOwned, [Next]_vars
    PROVE  FactsOwned'
  <1> SUFFICES ASSUME NEW r \in Requests, req'[r].facts # None
               PROVE  req'[r].facts = req'[r].actor /\ session'.client # None
    BY DEF FactsOwned
  <1>1. FactsStep(r) /\ HandsStep
    BY FactsKept, HandsKept
  <1> QED BY <1>1, ConversationAssumption DEF FactsStep, HandsStep, FactsOwned

(* What a step does to the turns and the thread.                           *)
ThreadKept ==
  /\ session'.thread = "NONE" <=> session.thread = "NONE"
  /\ transcript' = transcript

AnswerKept(n) ==
  /\ Answered(turn'[n]) <=> Answered(turn[n])
  /\ turn'[n].text = turn[n].text

Filed ==
  /\ session'.thread # "NONE" /\ transcript' = syncAssistantTranscript(turn', transcript)
  /\ \A n \in Messages :
       Answered(turn[n]) => Answered(turn'[n]) /\ turn'[n].text = turn[n].text

Unfiled == session.thread = "NONE" /\ ThreadKept

TurnStep ==
  \/ ThreadKept /\ \A n \in Messages : AnswerKept(n) \/ LateSave(n)
  \/ Filed
  \/ Unfiled

(* The facts in an answer are those of the request that gives it.          *)
PrivateStep ==
  \A n \in Messages :
    \/ turn'[n].private = turn[n].private
    \/ \E r \in Requests : /\ turn'[n].private = req[r].facts /\ OwnedBy(req[r].actor)
                           /\ session'.client = session.client

LEMMA SameTurns ==
    ASSUME turn' = turn
    PROVE  (\A n \in Messages : AnswerKept(n)) /\ PrivateStep
  BY DEF AnswerKept, PrivateStep

LEMMA PageTurns ==
    ASSUME ConvInv, PageStep
    PROVE  TurnStep /\ PrivateStep
  <1>1. turn' = turn /\ ThreadStep /\ turn \in [Messages -> Turns]
    BY DEF PageStep, ConvInv, TypeOK
  <1>2. CASE ThreadKept
    BY <1>1, <1>2, SameTurns DEF TurnStep
  <1>3. CASE session'.thread # "NONE" /\ transcript' = syncAssistantTranscript(turn, transcript)
    BY <1>1, <1>3, SameTurns DEF TurnStep, Filed
  <1> QED BY <1>1, <1>2, <1>3 DEF ThreadStep, ThreadKept

LEMMA SaveTurns ==
    ASSUME ConvInv, NEW r \in Requests, Save(r)
    PROVE  TurnStep /\ PrivateStep
  <1>1. /\ req[r].pc = "claimed" /\ turn' = [turn EXCEPT ![req[r].msg].status = "PENDING"]
        /\ UNCHANGED <<session, transcript>>
    BY DEF Save, At
  <1>2. PICK m \in Messages : m = req[r].msg
    BY <1>1 DEF ConvInv, Addressed
  <1>3. /\ turn'[m].status = "PENDING" /\ turn'[m].text = turn[m].text
        /\ turn'[m].private = turn[m].private
        /\ \A n \in Messages : n # m => turn'[n] = turn[n]
    BY <1>1, <1>2, Marked DEF ConvInv, TypeOK, TurnStatuses
  <1>4. ThreadKept
    BY <1>1 DEF ThreadKept
  <1>5. PrivateStep
    BY <1>3 DEF PrivateStep
  <1>6. \A n \in Messages : n # m => AnswerKept(n)
    BY <1>3 DEF AnswerKept
  <1>7. CASE Answered(turn[m])
    <2>1. LateSave(m)
      BY <1>1, <1>2, <1>7 DEF LateSave, ConvInv, HolderPending
    <2> QED BY <1>4, <1>5, <1>6, <2>1 DEF TurnStep
  <1>8. CASE ~Answered(turn[m])
    <2>1. AnswerKept(m)
      BY <1>3, <1>8 DEF AnswerKept, Answered
    <2> QED BY <1>4, <1>5, <1>6, <2>1 DEF TurnStep
  <1> QED BY <1>7, <1>8

(* A turn that was pending fails.                                          *)
LEMMA FailTurns ==
    ASSUME ConvInv, (\E r \in Requests : FailTurn(r)) \/ Recover
    PROVE  TurnStep /\ PrivateStep
  <1>1. turn \in [Messages -> Turns]
    BY DEF ConvInv, TypeOK
  <1>2. \A n \in Messages :
          \/ turn'[n] = turn[n]
          \/ turn[n].status = "PENDING" /\ turn'[n] = [turn[n] EXCEPT !.status = "FAILED"]
    BY <1>1 DEF FailTurn, Recover
  <1>3. ASSUME NEW n \in Messages
        PROVE  /\ Answered(turn'[n]) <=> Answered(turn[n])
               /\ turn'[n].text = turn[n].text
               /\ turn'[n].private = turn[n].private
    <2>1. CASE turn'[n] = turn[n]
      BY <2>1
    <2>2. CASE turn[n].status = "PENDING" /\ turn'[n] = [turn[n] EXCEPT !.status = "FAILED"]
      <3>1. turn[n] \in Turns
        BY <1>1
      <3> QED BY <2>2, <3>1 DEF Answered, Turns
    <2> QED BY <1>2, <2>1, <2>2
  <1>4. ThreadKept
    BY RowTyped DEF FailTurn, Recover, Bumped, Released, ThreadKept, Sessions
  <1> QED BY <1>3, <1>4 DEF TurnStep, AnswerKept, PrivateStep

(* The answer to a pending turn, with or without a thread.                 *)
LEMMA AnswerTurns ==
    ASSUME ConvInv, NEW r \in Requests, NEW a \in Turns, Answered(a),
           req[r].pc = "working", session.lease = r,
           turn' = [turn EXCEPT ![req[r].msg] = a],
           \/ Unfiled
           \/ session'.thread # "NONE" /\ transcript' = syncAssistantTranscript(turn', transcript),
           \/ a.private = turn[req[r].msg].private
           \/ a.private = req[r].facts /\ OwnedBy(req[r].actor) /\ session'.client = session.client
    PROVE  TurnStep /\ PrivateStep
  <1>1. PICK m \in Messages : m = req[r].msg /\ turn[m].status = "PENDING"
    BY DEF ConvInv, Addressed, HolderPending
  <1>2. /\ turn' \in [Messages -> Turns] /\ turn'[m] = a
        /\ \A n \in Messages : n # m => turn'[n] = turn[n]
    BY <1>1 DEF ConvInv, TypeOK
  <1>3. PrivateStep
    BY <1>1, <1>2 DEF PrivateStep
  <1>4. \A n \in Messages :
          Answered(turn[n]) => Answered(turn'[n]) /\ turn'[n].text = turn[n].text
    BY <1>1, <1>2 DEF Answered
  <1> QED BY <1>2, <1>3, <1>4 DEF TurnStep, Filed

LEMMA CompleteTurns ==
    ASSUME ConvInv, NEW r \in Requests, NEW intent \in Intents, Complete(r, intent)
    PROVE  TurnStep /\ PrivateStep
  <1>1. req[r] \in ReqRecords /\ session \in Sessions
    BY DEF ConvInv, TypeOK
  <1>2. PICK a : a = [status |-> "COMPLETED", text |-> r, private |-> req[r].facts]
    OBVIOUS
  <1>3. a \in Turns /\ Answered(a) /\ a.private = req[r].facts
    BY <1>1, <1>2 DEF Turns, TurnStatuses, ReqRecords, Answered
  <1>4. /\ req[r].pc = "working" /\ session.lease = r /\ OwnedBy(req[r].actor)
        /\ turn' = [turn EXCEPT ![req[r].msg] = a]
        /\ transcript' = IF session.thread = "NONE" THEN transcript
                         ELSE syncAssistantTranscript(turn', transcript)
    BY <1>2 DEF Complete, At, Holds, StillOwn
  <1>5. session'.client = session.client /\ session'.thread = session.thread
    BY <1>1 DEF Complete, Bumped, Sessions
  <1> QED BY <1>3, <1>4, <1>5, AnswerTurns DEF Unfiled, ThreadKept

LEMMA SendTurns ==
    ASSUME ConvInv, NEW r \in Requests, SendToOffice(r)
    PROVE  TurnStep /\ PrivateStep
  <1>1. /\ req[r].pc = "working" /\ session.lease = r
        /\ turn' = [turn EXCEPT ![req[r].msg].status = "HUMAN"]
        /\ transcript' = syncAssistantTranscript(turn', transcript)
        /\ session' = Bumped(HandedOff(session))
    BY DEF SendToOffice, At, Holds
  <1>2. req[r].msg \in Messages /\ turn[req[r].msg] \in Turns
    BY <1>1 DEF ConvInv, TypeOK, Addressed
  <1>3. PICK a : a = [turn[req[r].msg] EXCEPT !.status = "HUMAN"]
    OBVIOUS
  <1>4. a \in Turns /\ Answered(a) /\ a.private = turn[req[r].msg].private
    BY <1>2, <1>3 DEF Turns, TurnStatuses, Answered
  <1>5. session'.thread # "NONE"
    BY <1>1, RowTyped, HandedRow, BumpedRow
  <1>6. turn' = [turn EXCEPT ![req[r].msg] = a]
    BY <1>1, <1>3
  <1> QED BY <1>1, <1>4, <1>5, <1>6, AnswerTurns

LEMMA SessionTurns ==
    ASSUME session'.thread = session.thread, UNCHANGED <<turn, transcript>>
    PROVE  TurnStep /\ PrivateStep
  BY SameTurns DEF TurnStep, ThreadKept

LEMMA WorkTurns ==
    ASSUME ConvInv, NEW r \in Requests, Work(r) \/ Crash(r)
    PROVE  TurnStep /\ PrivateStep
  <1> USE RowTyped DEF Sessions
  <1>1. CASE Save(r) \/ FailTurn(r) \/ SendToOffice(r)
             \/ \E intent \in Intents : Complete(r, intent)
    BY <1>1, SaveTurns, FailTurns, SendTurns, CompleteTurns
  <1>2. CASE Acquire(r) \/ LinkPrivate(r) \/ rememberLegalMessage(r) \/ Leave(r)
    <2>1. session'.thread = session.thread /\ UNCHANGED <<turn, transcript>>
      BY <1>2 DEF Acquire, LinkPrivate, rememberLegalMessage, Leave, Released
    <2> QED BY <2>1, SessionTurns
  <1>3. CASE Refused(r) \/ Replay(r) \/ proposeAssistantAction(r) \/ Crash(r)
    <2>1. UNCHANGED <<session, turn, transcript>>
      BY <1>3 DEF Refused, Replay, proposeAssistantAction, Crash
    <2> QED BY <2>1, SessionTurns
  <1> QED BY <1>1, <1>2, <1>3 DEF Work

LEMMA CustomerTurns ==
    ASSUME ConvInv, Customer
    PROVE  TurnStep /\ PrivateStep
  <1>1. ASSUME NEW r \in Requests, NEW m \in Messages, NEW c \in Clients \cup {None},
               Begin(r, m, c)
        PROVE  TurnStep /\ PrivateStep
    <2>1. UNCHANGED <<session, turn, transcript>>
      BY <1>1 DEF Begin
    <2> QED BY <2>1, SessionTurns
  <1>2. ASSUME NEW mode \in Modes, changeAssistantDialogue(mode) PROVE TurnStep /\ PrivateStep
    BY <1>2, DialoguePage, PageTurns
  <1>3. CASE SetLocale \/ setOfficeContact \/ CancelBooking
    BY <1>3, BumpPage, PageTurns
  <1>4. ASSUME NEW c \in Clients,
               attachAuthenticatedClient(c) \/ registerConversationClient(c) \/ SubmitFormation(c)
        PROVE  TurnStep /\ PrivateStep
    BY <1>4, ClientPage, PageTurns
  <1>5. CASE submitConversationRequest \/ mutateDirectBooking
    BY <1>5, SubmitPage, BookingPage, PageTurns
  <1>6. ASSUME NEW m \in Messages, CancelAction(m) \/ StaleAction(m) \/ ConfirmAction(m)
        PROVE  TurnStep /\ PrivateStep
    BY <1>6, ActionPage, PageTurns
  <1>7. ASSUME NEW p \in {"ACTIVATE", "RECOVER"}, startClientVerification(p)
        PROVE  TurnStep /\ PrivateStep
    BY <1>7, LinkPage, PageTurns
  <1>8. CASE OpenLink
    BY <1>8, LinkPage, PageTurns
  <1> QED BY <1>1, <1>2, <1>3, <1>4, <1>5, <1>6, <1>7, <1>8 DEF Customer

LEMMA TurnsKept ==
    ASSUME ConvInv, [Next]_vars
    PROVE  TurnStep /\ PrivateStep
  <1>1. ASSUME NEW c \in Clients, completeClientVerification(c) PROVE TurnStep /\ PrivateStep
    BY <1>1, VerifiedPage, PageTurns
  <1>2. CASE RefuseLink
    BY <1>2, LinkPage, PageTurns
  <1>3. ASSUME NEW r \in Requests, Work(r) \/ Crash(r) PROVE TurnStep /\ PrivateStep
    BY <1>3, WorkTurns
  <1>4. CASE Customer
    BY <1>4, CustomerTurns
  <1>5. ASSUME NEW status \in {"OPEN", "CLOSED"}, NEW assistant \in {"KEPT", "SET"},
               updateAdminConversation(status, assistant)
        PROVE  TurnStep /\ PrivateStep
    BY <1>5, OfficePage, PageTurns
  <1>6. CASE (replyAdminConversation \/ LeaseExpires)
    BY <1>6, BumpPage, ExpiryPage, PageTurns
  <1>7. CASE Recover
    BY <1>7, FailTurns
  <1>8. CASE UNCHANGED vars
    BY <1>8, SessionTurns DEF vars
  <1> QED BY <1>1, <1>2, <1>3, <1>4, <1>5, <1>6, <1>7, <1>8 DEF Next, FinishLink, Office

LEMMA SeenAgain ==
    ASSUME ConvInv, SeenKept, [Next]_vars
    PROVE  SeenKept'
  <1>1. HandsStep
    BY HandsKept
  <1>2. CASE OpenLink
    BY <1>2 DEF OpenLink, SeenKept, ConvInv, TypeOK, Links
  <1>3. ASSUME NEW c \in Clients, completeClientVerification(c) PROVE SeenKept'
    BY <1>3 DEF completeClientVerification, SeenKept, ConvInv, TypeOK, Links
  <1>4. CASE RefuseLink
    BY <1>4 DEF RefuseLink, SeenKept, ConvInv, TypeOK, Links
  <1>5. ASSUME NEW p \in {"ACTIVATE", "RECOVER"}, startClientVerification(p) PROVE SeenKept'
    BY <1>5 DEF startClientVerification, SeenKept, ConvInv, TypeOK, Links
  <1>6. ASSUME link' = link PROVE SeenKept'
    <2>1. CASE \E c \in Clients : completeClientVerification(c)
      BY <1>3, <2>1
    <2>2. CASE ~\E c \in Clients : completeClientVerification(c)
      BY <1>1, <1>6, <2>2 DEF HandsStep, SeenKept
    <2> QED BY <2>1, <2>2
  <1>7. ASSUME NEW r \in Requests, Work(r) \/ Crash(r) PROVE link' = link
    BY <1>7 DEF Work, Crash, Acquire, Refused, Replay, Save, LinkPrivate, proposeAssistantAction,
       rememberLegalMessage, Complete, SendToOffice, FailTurn, Leave
  <1>8. Office \/ LeaseExpires \/ Recover \/ UNCHANGED vars => link' = link
    BY DEF Office, LeaseExpires, Recover, vars, replyAdminConversation, updateAdminConversation
  <1>9. CASE Customer
    <2>1. \/ link' = link \/ OpenLink
          \/ \E p \in {"ACTIVATE", "RECOVER"} : startClientVerification(p)
      BY <1>9 DEF Customer, Begin, changeAssistantDialogue, SetLocale, setOfficeContact,
         attachAuthenticatedClient, registerConversationClient, SubmitFormation,
         submitConversationRequest, mutateDirectBooking, CancelBooking, CancelAction,
         StaleAction, ConfirmAction
    <2> QED BY <1>2, <1>5, <1>6, <2>1
  <1> QED BY <1>3, <1>4, <1>6, <1>7, <1>8, <1>9 DEF Next, FinishLink

LEMMA FreeAlways == Spec => [](ConvInv /\ FreeInv)
  <1>1. Init => FreeInv
    BY DEF Init, Idle, FreeInv, NoThreadNoEntry, FactsOwned, SeenKept
  <1>2. ConvInv /\ FreeInv /\ [Next]_vars => FreeInv'
    <2> SUFFICES ASSUME ConvInv, FreeInv, [Next]_vars PROVE FreeInv'
      OBVIOUS
    <2>1. FactsOwned' /\ SeenKept'
      BY FactsOwnedKept, SeenAgain DEF FreeInv
    <2>2. TurnStep
      BY TurnsKept
    <2>3. NoThreadNoEntry'
      BY <2>2 DEF TurnStep, ThreadKept, Filed, Unfiled, FreeInv, NoThreadNoEntry
    <2> QED BY <2>1, <2>3 DEF FreeInv
  <1> QED BY <1>1, <1>2, InitConv, NextKeeps, PTL DEF Spec

(* An answered message loses its answer only to a late save: the upsert of *)
(* a request that has lost its lease since it found the turn open.         *)
THEOREM OnlyLateSavesTakeBack == Spec => AnswersStay
  <1>1. ConvInv /\ [Next]_vars =>
          [\A m \in Messages : Answered(turn[m]) => (turn'[m] = turn[m] \/ LateSave(m))]_vars
    BY StandStep
  <1> QED BY <1>1, ConvAlways, PTL DEF Spec, AnswersStay

(* A conversation that has a client changes hands only through a mailed    *)
(* link whose transaction has read it as a guest's before another client   *)
(* took it.                                                                *)
THEOREM OnlyLateLinksChangeHands ==
    Spec => [][session.client \in {None, session'.client} \/ LateLink]_vars
  <1>1. ConvInv /\ FreeInv /\ [Next]_vars =>
          [session.client \in {None, session'.client} \/ LateLink]_vars
    BY HandsLate DEF FreeInv
  <1> QED BY <1>1, FreeAlways, PTL DEF Spec

(* Account facts in the conversation of another client appear only that    *)
(* way: no answer puts them there.                                         *)
THEOREM OnlyLateLinksExpose == Spec => PrivateOwned
  <1>1. ASSUME ConvInv, FreeInv, [Next]_vars, NEW m \in Messages, PrivateTo(m), ~LateLink,
               turn'[m].private # None
        PROVE  session'.client = turn'[m].private
    <2>1. session.client \in {None, session'.client} /\ PrivateStep
      BY <1>1, HandsLate, TurnsKept DEF FreeInv
    <2>2. CASE turn'[m].private = turn[m].private
      BY <1>1, <2>1, <2>2 DEF PrivateTo
    <2>3. CASE turn'[m].private # turn[m].private
      <3>1. PICK r \in Requests : /\ turn'[m].private = req[r].facts /\ OwnedBy(req[r].actor)
                                  /\ session'.client = session.client
        BY <2>1, <2>3 DEF PrivateStep
      <3> QED BY <1>1, <3>1 DEF FreeInv, FactsOwned, OwnedBy
    <2> QED BY <2>2, <2>3
  <1>2. ConvInv /\ FreeInv /\ [Next]_vars =>
          [\A m \in Messages : PrivateTo(m) => (PrivateTo(m)' \/ LateLink)]_vars
    BY <1>1 DEF PrivateTo
  <1> QED BY <1>2, FreeAlways, PTL DEF Spec, PrivateOwned

(* What the thread has of one message after syncing: what it had, or else  *)
(* its answer.                                                             *)
LEMMA SyncedMessage ==
    ASSUME NEW t, NEW filed, NEW m \in Messages
    PROVE  {e \in syncAssistantTranscript(t, filed) : e.msg = m} =
             IF {e \in filed : e.msg = m} # {} THEN {e \in filed : e.msg = m}
             ELSE IF Answered(t[m]) THEN {[msg |-> m, text |-> t[m].text]} ELSE {}
  <1> DEFINE had == {e \in filed : e.msg = m}
             has == {e \in syncAssistantTranscript(t, filed) : e.msg = m}
  <1>1. \A e : e \in has <=>
          \/ e \in had
          \/ /\ e = [msg |-> m, text |-> t[m].text] /\ Answered(t[m])
             /\ \A f \in filed : f.msg # m
    BY DEF syncAssistantTranscript
  <1>2. (\A f \in filed : f.msg # m) <=> had = {}
    OBVIOUS
  <1> HIDE DEF had, has
  <1>3. has = IF had # {} THEN had
              ELSE IF Answered(t[m]) THEN {[msg |-> m, text |-> t[m].text]} ELSE {}
    BY <1>1, <1>2
  <1> QED BY <1>3 DEF had, has

(* The office thread and the conversation part only when a late save takes *)
(* an answer back: no page, retry, recovery or answer parts them.          *)
THEOREM OnlyLateSavesPart == Spec => TranscriptAgrees
  <1>1. ASSUME ConvInv, FreeInv, [Next]_vars, NEW m \in Messages, FiledTrue(m), ~LateSave(m)
        PROVE  FiledTrue(m)'
    <2>1. TurnStep
      BY <1>1, TurnsKept
    <2>2. CASE ThreadKept /\ AnswerKept(m)
      BY <1>1, <2>2 DEF ThreadKept, AnswerKept, FiledTrue
    <2>3. CASE Filed
      <3>1. {e \in transcript : e.msg = m} # {} =>
              Answered(turn[m]) /\ {e \in transcript : e.msg = m} =
                                     {[msg |-> m, text |-> turn[m].text]}
        BY <1>1 DEF FiledTrue, FreeInv, NoThreadNoEntry
      <3>2. {e \in transcript' : e.msg = m} =
              IF Answered(turn'[m]) THEN {[msg |-> m, text |-> turn'[m].text]} ELSE {}
        BY <2>3, <3>1, SyncedMessage DEF Filed
      <3> QED BY <3>2 DEF FiledTrue
    <2>4. CASE Unfiled
      BY <2>4 DEF Unfiled, ThreadKept, FiledTrue
    <2> QED BY <1>1, <2>1, <2>2, <2>3, <2>4 DEF TurnStep
  <1>2. ConvInv /\ FreeInv /\ [Next]_vars =>
          [\A m \in Messages : FiledTrue(m) => (FiledTrue(m)' \/ LateSave(m))]_vars
    BY <1>1
  <1> QED BY <1>2, FreeAlways, PTL DEF Spec, TranscriptAgrees

-----------------------------------------------------------------------------
(* Who looks after a reply in preparation: the lease is with a request for *)
(* its message, or with one that died and whose lease will run out.        *)
Tending(r, m) ==
  \/ req[r].pc = "done"
  \/ req[r].msg = m /\ req[r].pc \in {"leased", "claimed", "working"}

Pending(m) == turn[m].status = "PENDING"

Tended ==
  \A m \in Messages : Pending(m) => \E r \in Requests : session.lease = r /\ Tending(r, m)

(* Three ways out of it: a turn saved without the lease, a lease taken     *)
(* over from the reply to another message, and one that a mailed link      *)
(* takes away.                                                             *)
SaveUnheld == \E r \in Requests : Save(r) /\ session.lease # r
TakeOver == \E r \in Requests : Acquire(r) /\ \E m \in Messages : Pending(m) /\ req[r].msg # m
LinkRelease ==
  (\E c \in Clients : completeClientVerification(c)) /\ \E m \in Messages : Pending(m)

(* The holder goes on with its message, or dies.                           *)
LEMMA TendedAgain ==
    ASSUME Tended, turn' = turn, session'.lease = session.lease,
           \A r \in Requests : session.lease = r =>
             \/ req'[r] = req[r]
             \/ req'[r].pc = "done"
             \/ /\ req[r].pc # "done" /\ req'[r].msg = req[r].msg
                /\ req'[r].pc \in {"leased", "claimed", "working"}
    PROVE  Tended'
  <1> SUFFICES ASSUME NEW m \in Messages, Pending(m)'
               PROVE  \E r \in Requests : session'.lease = r /\ Tending(r, m)'
    BY DEF Tended
  <1>1. PICK r \in Requests : session.lease = r /\ Tending(r, m)
    BY DEF Tended, Pending
  <1>2. Tending(r, m)'
    BY <1>1 DEF Tending
  <1> QED BY <1>1, <1>2

(* Nothing is in preparation.                                              *)
LEMMA TendedNone ==
    ASSUME \A m \in Messages : ~Pending(m)'
    PROVE  Tended'
  BY DEF Tended

(* Handlers that edit the conversation want it unleased, the others leave  *)
(* the lease alone.                                                        *)
LEMMA PageLease ==
    ASSUME ConvInv, RefuseLink \/ Office \/ LeaseExpires
                    \/ (Customer /\ ~\E r \in Requests, m \in Messages, c \in Clients \cup {None} :
                                       Begin(r, m, c))
    PROVE  session'.lease = session.lease
  <1> USE RowTyped DEF Sessions
  <1>1. RefuseLink \/ submitConversationRequest \/ OpenLink \/ LeaseExpires \/ SetLocale
          \/ setOfficeContact \/ CancelBooking \/ replyAdminConversation =>
        session'.lease = session.lease
    BY DEF RefuseLink, submitConversationRequest, OpenLink, LeaseExpires, SetLocale,
       setOfficeContact, CancelBooking, replyAdminConversation, Bumped
  <1>2. ASSUME NEW c \in Clients,
               attachAuthenticatedClient(c) \/ registerConversationClient(c) \/ SubmitFormation(c)
        PROVE  session'.lease = session.lease
    BY <1>2 DEF attachAuthenticatedClient, registerConversationClient, SubmitFormation, Bumped
  <1>3. ASSUME NEW mode \in Modes, changeAssistantDialogue(mode)
        PROVE  session'.lease = session.lease
    BY <1>3 DEF changeAssistantDialogue, Bumped
  <1>4. session' = Booked => session'.lease = session.lease
    BY DEF Booked, HandedOff, Bumped
  <1>5. ASSUME NEW m \in Messages, CancelAction(m) \/ StaleAction(m) \/ ConfirmAction(m)
        PROVE  session'.lease = session.lease
    BY <1>4, <1>5 DEF CancelAction, StaleAction, ConfirmAction, Bumped
  <1>6. ASSUME NEW p \in {"ACTIVATE", "RECOVER"}, startClientVerification(p)
        PROVE  session'.lease = session.lease
    BY <1>6 DEF startClientVerification
  <1>7. ASSUME NEW status \in {"OPEN", "CLOSED"}, NEW assistant \in {"KEPT", "SET"},
               updateAdminConversation(status, assistant)
        PROVE  session'.lease = session.lease
    BY <1>7 DEF updateAdminConversation
  <1>8. mutateDirectBooking => session' = Booked
    BY DEF mutateDirectBooking
  <1> QED BY <1>1, <1>2, <1>3, <1>4, <1>5, <1>6, <1>7, <1>8 DEF Customer, Office

LEMMA PageTended ==
    ASSUME ConvInv, Tended, PageStep, session'.lease = session.lease
    PROVE  Tended'
  BY TendedAgain DEF PageStep

LEMMA CustomerTended ==
    ASSUME ConvInv, Tended, Customer
    PROVE  Tended'
  <1>1. ASSUME NEW r \in Requests, NEW m \in Messages, NEW c \in Clients \cup {None},
               Begin(r, m, c)
        PROVE  Tended'
    <2>1. req[r].pc = "idle" /\ UNCHANGED <<session, turn>>
          /\ \A s \in Requests : s # r => req'[s] = req[s]
      BY <1>1 DEF Begin, At, ConvInv, TypeOK
    <2>2. CASE session.lease # r
      BY <2>1, <2>2, TendedAgain
    <2>3. CASE session.lease = r
      <3>1. \A n \in Messages : ~Pending(n)
        BY <2>1, <2>3 DEF Tended, Tending
      <3> QED BY <2>1, <3>1, TendedNone DEF Pending
    <2> QED BY <2>2, <2>3
  <1>2. ASSUME ~\E r \in Requests, m \in Messages, c \in Clients \cup {None} : Begin(r, m, c)
        PROVE  Tended'
    <2>1. session'.lease = session.lease
      BY <1>2, PageLease
    <2>2. ASSUME NEW mode \in Modes, changeAssistantDialogue(mode) PROVE PageStep
      BY <2>2, DialoguePage
    <2>3. CASE SetLocale \/ setOfficeContact \/ CancelBooking
      BY <2>1, <2>3, BumpPage, PageTended
    <2>4. ASSUME NEW c \in Clients,
                 attachAuthenticatedClient(c) \/ registerConversationClient(c) \/ SubmitFormation(c)
          PROVE  PageStep
      BY <2>4, ClientPage
    <2>5. CASE submitConversationRequest \/ mutateDirectBooking
      BY <2>1, <2>5, SubmitPage, BookingPage, PageTended
    <2>6. ASSUME NEW m \in Messages, CancelAction(m) \/ StaleAction(m) \/ ConfirmAction(m)
          PROVE  PageStep
      BY <2>6, ActionPage
    <2>7. ASSUME NEW p \in {"ACTIVATE", "RECOVER"}, startClientVerification(p) PROVE PageStep
      BY <2>7, LinkPage
    <2>8. CASE OpenLink
      BY <2>1, <2>8, LinkPage, PageTended
    <2> QED BY <1>2, <2>1, <2>2, <2>3, <2>4, <2>5, <2>6, <2>7, <2>8, PageTended DEF Customer
  <1> QED BY <1>1, <1>2

(* A worker that has the lease has the only turn in preparation.           *)
LEMMA WorkTended ==
    ASSUME ConvInv, Tended, NEW r \in Requests, Work(r) \/ Crash(r), ~SaveUnheld, ~TakeOver
    PROVE  Tended'
  <1> USE RowTyped
  <1>1. req \in [Requests -> ReqRecords] /\ turn \in [Messages -> Turns]
    BY DEF ConvInv, TypeOK
  <1>2. CASE Acquire(r)
    <2>1. /\ session'.lease = r /\ turn' = turn /\ Goto(r, "leased")
          /\ \A m \in Messages : Pending(m) => req[r].msg = m
      BY <1>2 DEF Acquire, TakeOver, Sessions
    <2>2. req'[r].pc = "leased" /\ req'[r].msg = req[r].msg
      BY <2>1, Going DEF Stages
    <2> QED BY <2>1, <2>2 DEF Tended, Tending, Pending
  <1>3. CASE Save(r)
    <2>1. /\ session.lease = r /\ req[r].pc = "claimed" /\ Goto(r, "working")
          /\ session' = session /\ turn' = [turn EXCEPT ![req[r].msg].status = "PENDING"]
      BY <1>3 DEF Save, SaveUnheld, At
    <2>2. req'[r].pc = "working" /\ req'[r].msg = req[r].msg
      BY <2>1, Going DEF Stages
    <2>3. \A m \in Messages : m # req[r].msg => turn'[m] = turn[m] /\ ~Pending(m)
      BY <1>1, <2>1 DEF Tended, Tending
    <2>4. \A m \in Messages : Pending(m)' => m = req[r].msg
      BY <2>3 DEF Pending
    <2> QED BY <2>1, <2>2, <2>4 DEF Tended, Tending
  <1>4. CASE Replay(r)
    <2>1. /\ req[r].pc = "leased" /\ turn' = turn /\ session' = session
          /\ Goto(r, IF Answered(turn[req[r].msg]) THEN "leaving" ELSE "claimed")
      BY <1>4 DEF Replay, At
    <2>2. CASE session.lease = r /\ Answered(turn[req[r].msg])
      <3>1. \A m \in Messages : ~Pending(m)
        BY <2>1, <2>2 DEF Tended, Tending, Pending, Answered
      <3> QED BY <2>1, <3>1, TendedNone DEF Pending
    <2>3. CASE ~Answered(turn[req[r].msg])
      <3>1. /\ req'[r].pc = "claimed" /\ req'[r].msg = req[r].msg
            /\ \A s \in Requests : s # r => req'[s] = req[s]
        BY <2>1, <2>3, Going DEF Stages
      <3> QED BY <2>1, <3>1, TendedAgain
    <2>4. CASE session.lease # r
      <3>1. \A s \in Requests : s # r => req'[s] = req[s]
        BY <1>1, <2>1 DEF Goto
      <3> QED BY <2>1, <2>4, <3>1, TendedAgain
    <2> QED BY <2>2, <2>3, <2>4
  <1>5. CASE LinkPrivate(r) \/ rememberLegalMessage(r) \/ proposeAssistantAction(r)
    <2>1. turn' = turn /\ session'.lease = session.lease
      BY <1>5 DEF LinkPrivate, rememberLegalMessage, proposeAssistantAction, Sessions
    <2>2. req' = req \/ (req' = [req EXCEPT ![r].facts = req[r].actor] /\ req[r].pc = "working")
      BY <1>5 DEF LinkPrivate, rememberLegalMessage, proposeAssistantAction, At
    <2>3. \A s \in Requests : \/ req'[s] = req[s]
                              \/ /\ req[s].pc # "done" /\ req'[s].msg = req[s].msg
                                 /\ req'[s].pc \in {"leased", "claimed", "working"}
      BY <1>1, <2>2 DEF ReqRecords
    <2> QED BY <2>1, <2>3, TendedAgain
  <1>6. CASE Refused(r) \/ Crash(r)
    <2>1. turn' = turn /\ session' = session /\ req' = [req EXCEPT ![r] = Done]
      BY <1>6 DEF Refused, Crash
    <2>2. \A s \in Requests : req'[s] = req[s] \/ req'[s].pc = "done"
      BY <2>1, Ending
    <2> QED BY <2>1, <2>2, TendedAgain
  <1>7. ASSUME session.lease = r, req[r].pc = "working",
               \A m \in Messages : m # req[r].msg => turn'[m] = turn[m],
               turn'[req[r].msg].status # "PENDING"
        PROVE  Tended'
    <2>1. \A m \in Messages : m # req[r].msg => ~Pending(m)
      BY <1>7 DEF Tended, Tending
    <2>2. ASSUME NEW m \in Messages PROVE ~Pending(m)'
      <3>1. CASE m = req[r].msg
        BY <1>7, <3>1 DEF Pending
      <3>2. CASE m # req[r].msg
        BY <1>7, <2>1, <3>2 DEF Pending
      <3> QED BY <3>1, <3>2
    <2> QED BY <2>2, TendedNone
  <1>8. CASE SendToOffice(r) \/ \E intent \in Intents : Complete(r, intent)
    <2>1. session.lease = r /\ req[r].pc = "working"
      BY <1>8 DEF SendToOffice, Complete, Holds, At
    <2>2. req[r].msg \in Messages /\ turn[req[r].msg] \in Turns
      BY <1>1, <2>1 DEF ConvInv, Addressed
    <2>3. \A m \in Messages : m # req[r].msg => turn'[m] = turn[m]
      BY <1>1, <1>8 DEF SendToOffice, Complete
    <2>4. SendToOffice(r) => turn'[req[r].msg].status # "PENDING"
      BY <1>1, <2>2 DEF SendToOffice, Turns
    <2>5. ASSUME NEW intent \in Intents, Complete(r, intent)
          PROVE  turn'[req[r].msg].status # "PENDING"
      <3>1. PICK a : /\ a = [status |-> "COMPLETED", text |-> r, private |-> req[r].facts]
                     /\ turn' = [turn EXCEPT ![req[r].msg] = a]
        BY <2>5 DEF Complete
      <3>2. a.status = "COMPLETED"
        BY <3>1
      <3> QED BY <1>1, <2>2, <3>1, <3>2
    <2> QED BY <1>7, <1>8, <2>1, <2>3, <2>4, <2>5
  <1>9. CASE FailTurn(r)
    <2>1. req[r].pc = "working" /\ Goto(r, "leaving") /\ session' = session
      BY <1>9 DEF FailTurn, At
    <2>2. req[r].msg \in Messages /\ turn[req[r].msg] \in Turns
      BY <1>1, <2>1 DEF ConvInv, Addressed
    <2>3. CASE session.lease = r
      <3>1. turn' = [turn EXCEPT ![req[r].msg].status = "FAILED"]
        BY <1>9, <2>1, <2>3 DEF FailTurn, ConvInv, HolderPending
      <3>2. /\ turn'[req[r].msg].status = "FAILED"
            /\ \A m \in Messages : m # req[r].msg => turn'[m] = turn[m]
        BY <1>1, <2>2, <3>1 DEF Turns
      <3> QED BY <1>7, <2>1, <2>3, <3>2
    <2>4. CASE session.lease # r
      <3>1. turn' = turn
        BY <1>9, <2>4 DEF FailTurn
      <3>2. \A s \in Requests : s # r => req'[s] = req[s]
        BY <1>1, <2>1 DEF Goto
      <3> QED BY <2>1, <2>4, <3>1, <3>2, TendedAgain
    <2> QED BY <2>3, <2>4
  <1>10. CASE Leave(r)
    <2>1. /\ req[r].pc = "leaving" /\ turn' = turn
          /\ req' = [req EXCEPT ![r] = Done]
          /\ session.lease # r => session' = session
      BY <1>10 DEF Leave, At
    <2>2. CASE session.lease = r
      <3>1. \A m \in Messages : ~Pending(m)
        BY <2>1, <2>2 DEF Tended, Tending
      <3> QED BY <2>1, <3>1, TendedNone DEF Pending
    <2>3. CASE session.lease # r
      <3>1. \A s \in Requests : s # r => req'[s] = req[s]
        BY <2>1, Ending
      <3> QED BY <2>1, <2>3, <3>1, TendedAgain
    <2> QED BY <2>2, <2>3
  <1> QED BY <1>2, <1>3, <1>4, <1>5, <1>6, <1>8, <1>9, <1>10 DEF Work

(* A reply in preparation loses whoever looks after it in three ways, the  *)
(* ones PendingEnds fails by, and in no other: no failure, crash, refusal, *)
(* recovery, or operation of a page or of the office leaves one behind.    *)
THEOREM OnlyThreeWaysAbandon ==
    Spec => [][(Tended => Tended') \/ SaveUnheld \/ TakeOver \/ LinkRelease]_vars
  <1>1. ASSUME ConvInv, [Next]_vars, Tended, ~SaveUnheld, ~TakeOver, ~LinkRelease
        PROVE  Tended'
    <2>1. ASSUME NEW c \in Clients, completeClientVerification(c) PROVE Tended'
      <3>1. turn' = turn /\ \A m \in Messages : ~Pending(m)
        BY <1>1, <2>1 DEF LinkRelease, completeClientVerification
      <3> QED BY <3>1, TendedNone DEF Pending
    <2>2. CASE RefuseLink
      BY <1>1, <2>2, LinkPage, PageLease, PageTended
    <2>3. ASSUME NEW r \in Requests, Work(r) \/ Crash(r) PROVE Tended'
      BY <1>1, <2>3, WorkTended
    <2>4. CASE Customer
      BY <1>1, <2>4, CustomerTended
    <2>5. ASSUME NEW status \in {"OPEN", "CLOSED"}, NEW assistant \in {"KEPT", "SET"},
                 updateAdminConversation(status, assistant)
          PROVE  Tended'
      <3>1. PageStep
        BY <1>1, <2>5, OfficePage
      <3>2. session'.lease = session.lease
        BY <1>1, <2>5, PageLease DEF Office
      <3> QED BY <1>1, <3>1, <3>2, PageTended
    <2>6. CASE (replyAdminConversation \/ LeaseExpires)
      BY <1>1, <2>6, BumpPage, ExpiryPage, PageLease, PageTended DEF Office
    <2>7. CASE Recover
      <3>1. turn \in [Messages -> Turns]
        BY <1>1 DEF ConvInv, TypeOK
      <3>2. \A m \in Messages : ~Pending(m)'
        BY <2>7, <3>1 DEF Recover, Pending, Turns
      <3> QED BY <3>2, TendedNone
    <2>8. CASE UNCHANGED vars
      BY <1>1, <2>8, TendedAgain DEF vars
    <2> QED BY <1>1, <2>1, <2>2, <2>3, <2>4, <2>5, <2>6, <2>7, <2>8 DEF Next, FinishLink, Office
  <1>2. ConvInv /\ [Next]_vars =>
          [(Tended => Tended') \/ SaveUnheld \/ TakeOver \/ LinkRelease]_vars
    BY <1>1
  <1> QED BY <1>2, ConvAlways, PTL DEF Spec
=============================================================================
