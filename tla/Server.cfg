SPECIFICATION FairSpec
CONSTANTS
  ConfigFile <- MCConfigFile
  Provided <- Anything
  MaxMishap = 3
INVARIANTS
  HalfPairHasCause
PROPERTIES
  PairStays
  ComesUp
