SPECIFICATION FairSpec
CONSTANTS
  ConfigFile <- TlsOnly
  Provided <- Nothing
  MaxMishap = 1
PROPERTIES
  AlwaysComesUp
