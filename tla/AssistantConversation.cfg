CONSTANTS
  Messages = {m1, o1}
  OfficeMessages = {o1}
  Requests = {r1, r2}
  Clients = {c1, c2}
  None = None
  MaxRevision = 2
SPECIFICATION Spec
SYMMETRY Symmetry
INVARIANTS
  TypeOK
  ConsentCurrent
  ActionOnce
PROPERTIES
  PrivateOwned
  TranscriptAgrees
  AnswersStay
CHECK_DEADLOCK FALSE
