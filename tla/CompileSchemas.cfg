SPECIFICATION FairSpec
CONSTANTS
  CodePoints <- MCCodePoints
  RegexMatch = {}
  FormatOk = {}
  Graphs <- AcyclicGraphs
  Configs <- MCConfigs
  PatternOk = {"P", "Q"}
  KnownFormats = {"F"}
  ProgramInitialCap = 2
  PatternInitialCap = 1
  AllocMayFail = TRUE
  MaxDepth = 4
INVARIANTS
  WithinCapacity
  PatternsFreedOnce
  ProgramIsStructured
PROPERTY CompileReturns
CHECK_DEADLOCK FALSE
