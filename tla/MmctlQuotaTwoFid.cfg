SPECIFICATION Spec
CONSTANTS
  FS <- MCFS
  Fileset <- MCFileset
  Account <- MCAccount
  InitialIds <- MCInitialIds
  PerFileset = {"fs0"}
  Enforced <- MCEnforced
  AllowedFS <- BothTenant
  Commands <- TwoDevices
  MaxId = 2
INVARIANTS
  FidsRight
\* mmctl exits.
CHECK_DEADLOCK FALSE
