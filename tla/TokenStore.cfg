SPECIFICATION FairSpec
CONSTANTS
  Proc = {p1, p2}
  Token = {t1, t2}
  NoProc = NoProc
  NoToken = NoToken
  DiskFaults = TRUE
  ReadFaults = FALSE
INVARIANTS
  TypeOK
  NeverTorn
  CreatedIsDurable
  DeletedIsFinal
  DiskLagIsOwed
PROPERTIES
  EveryRequestAnswered
  ImplementsRegistry
