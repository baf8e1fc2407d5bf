SPECIFICATION Spec
CONSTANTS
  Proc = {p1}
  Token = {t1}
  NoProc = NoProc
  NoToken = NoToken
  DiskFaults = FALSE
  ReadFaults = TRUE
INVARIANTS
  CreatedPersists
