SPECIFICATION Spec
CONSTANTS
  Method <- MCMethod
  Segment <- MCSegment
  Path <- MCPath
  Configured <- MCConfigured
INVARIANTS
  VerdictAgreesWithRules
  CheckedIsResolved
  GateNotShadowed
  ChangesNameFilesystem
