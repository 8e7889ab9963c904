SPECIFICATION FairSystemSpec
CONSTANTS
  CodePoints <- MCCodePoints
  RegexMatch <- MCRegexMatch
  FormatOk <- MCFormatOk
  Graphs <- SafeGraphs
  Configs <- MCConfigs
  PatternOk = {"P"}
  KnownFormats = {"F"}
  ProgramInitialCap = 4
  PatternInitialCap = 2
  AllocMayFail = FALSE
  MaxDepth = 4
  Values <- MCValues
  JsonValues <- MCJsonValues
  Directed = {"none"}
INVARIANT RunsToTheLastEnd
PROPERTY KeepsPromise
CHECK_DEADLOCK FALSE
