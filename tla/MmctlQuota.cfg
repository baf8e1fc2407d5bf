SPECIFICATION Spec
CONSTANTS
  FS <- MCFS
  Fileset <- MCFileset
  Account <- MCAccount
  InitialIds <- MCInitialIds
  PerFileset = {"fs0"}
  Enforced <- MCEnforced
  AllowedFS <- AnyTenant
  Commands <- AnyCommand
  MaxId = 3
INVARIANTS
  TypeOK
  StableQuotasReported
  FailureHasCause
  LinesInPlace
  FidsRightInOne
  EnforcementRight
\* mmctl exits.
CHECK_DEADLOCK FALSE
