SPECIFICATION SetquotaSpec
CONSTANTS
  Lines <- MCLines
  ToLower <- MCToLower
  Plans <- MCPlans
  Change <- MCChange
INVARIANTS
  SuccessMeansDone
  ChangesFormAPrefix
  FailureHasCause
  LimitsAsAsked
  NothingElse
  KeepsToSynopsis
PROPERTIES
  HangsOnlyOnARequest
\* mmctl exits.
CHECK_DEADLOCK FALSE
