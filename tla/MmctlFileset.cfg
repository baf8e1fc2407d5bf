SPECIFICATION Spec
CONSTANTS
  Id = {"i1", "i2", "i3"}
  Name = {"a", "b", "c"}
  Junction = {"/a", "/b", "/c"}
  TrimSlash <- MCTrimSlash
  Default <- MCDefault
  Existing <- MCExisting
  Commands <- Everything
  Unit <- MCUnit
  MaxInt = 127
INVARIANTS
  TypeOK
  JunctionHitUnlessRenamed
  CountsExact
\* mmctl exits.
CHECK_DEADLOCK FALSE
