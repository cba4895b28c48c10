CONSTANTS
  Messages = {m1}
  OfficeMessages = {}
  Requests = {r1}
  Clients = {c1}
  None = None
  MaxRevision = 2
SPECIFICATION FairSpec
PROPERTIES
  PendingEnds
CHECK_DEADLOCK FALSE
