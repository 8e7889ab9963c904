SPECIFICATION FairSpec
CONSTANTS
  CodePoints <- MCCodePoints
  RegexMatch <- MCRegexMatch
  FormatOk = {}
  Values <- MCValues
  Codes <- MCCodes
  MemoryMayFail = TRUE
INVARIANTS
  RecursionBounded
  ErrorsExplainVerdict
PROPERTY Termination
CHECK_DEADLOCK FALSE
