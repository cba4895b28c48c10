SPECIFICATION FairSpec
CONSTANTS
  c1 = c1
  c2 = c2
  Consultations = {c1, c2}
  Lawyers = {l1}
  Legacy = {c1}
  Charged = {c2}
  None = None
  ClientOf <- OneClient
  PhoneOf <- OneClient
  Slots <- Hours
  Horizon = 2
  Lag = 1
  MaxVersion = 2
INVARIANTS
  TypeOK
  RecordedAfterTheMeeting
PROPERTIES
  OnlyRevivalsDoubleBook
  OnlyLateReportsPartResults
  OnlyLateReportsPartLawyers
  LifecycleSpec
  EndedIsClassified
CHECK_DEADLOCK FALSE
