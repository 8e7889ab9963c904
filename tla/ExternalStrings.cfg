SPECIFICATION FairSpec
CONSTANTS
  None = None
  All = All
  TooLong = TooLong
  Refs <- MCRefs
  Uri <- MCUri
  Documents <- MCDocuments
  Content <- MCContent
  Outcomes <- MCOutcomes
  Settings <- MCSettings
  Calls <- MCCalls
  MaxRefDepth = 2
  VisitedInitialCap = 1
INVARIANT LinkedDocumentsOutliveParsing
CHECK_DEADLOCK FALSE
