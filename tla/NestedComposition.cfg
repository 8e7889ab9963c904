SPECIFICATION SystemSpec
CONSTANTS
  CodePoints <- MCCodePoints
  RegexMatch <- MCRegexMatch
  FormatOk <- MCFormatOk
  Graphs <- NestedGraphs
  Configs <- MCConfigs
  PatternOk = {"P"}
  KnownFormats = {"F"}
  ProgramInitialCap = 4
  PatternInitialCap = 2
  AllocMayFail = FALSE
  MaxDepth = 4
  Values <- MCValues
  JsonValues <- MCJsonValues
  Directed = {"none"}
INVARIANT VerdictMatchesSchema
CHECK_DEADLOCK FALSE
