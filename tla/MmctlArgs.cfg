SPECIFICATION Spec
CONSTANTS
  MaxItems <- MCMaxItems
  Operands <- MCOperands
  Values <- MCValues
  Colon <- MCColon
  Comma <- MCComma
  Sizes <- MCSizes
  InodeCounts <- MCInodeCounts
  Gui <- MCGui
  Widths <- MCWidths
  Characters <- MCCharacters
  MaxText <- MCMaxText
INVARIANTS
  ReadAsMeant
  RunsItsSynopsis
  WithinAllowlist
  OperandsHeeded
  ListedOnce
  PrintedReadsBack
\* A line is written once.
CHECK_DEADLOCK FALSE
