SPECIFICATION Spec
CONSTANTS
  Proc = {p1}
  Token = {t1}
  NoProc = NoProc
  NoToken = NoToken
  DiskFaults = TRUE
  ReadFaults = FALSE
INVARIANTS
  NotFoundIsGone
