SPECIFICATION GatewaySpec
CONSTANTS
  t1 = t1
  t2 = t2
  Proc = {p1}
  Token <- MCToken
  NoProc = NoProc
  NoToken = NoToken
  DiskFaults = TRUE
  ReadFaults = TRUE
  Conn = {q1}
  Request <- MCRequest
  NoRequest = NoRequest
  AllowFeatures = {}
  AllowedFS <- MCAllowedFS
  GuiTarget <- MCGuiTarget
INVARIANTS
  RevokedThenRefused
  LiveTokenAccepted
  ActsOnOwnFilesystem
