SPECIFICATION Spec
CONSTANTS
  Texts <- MCTexts
  Accepted <- MCAccepted
  FailureSets <- MCFailureSets
  ServerArgs <- MCServerArgs
  PathArgs <- MCPathArgs
  MethodArgs <- MCMethodArgs
  OpArgs <- MCOpArgs
  NameArgs <- MCNameArgs
  TextArgs <- MCTextArgs
  StringOpts <- MCStringOpts
  NumberOpts <- MCNumberOpts
  MaxCalls = 5
  MaxEmits = 2
INVARIANTS
  SurvivesRoundTrip
  OutOfMemoryOnlyDrops
PROPERTY BuildersKeepDocument
CHECK_DEADLOCK FALSE
