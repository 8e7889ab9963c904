SPECIFICATION DefaultsSpec
CONSTANTS
  MaxSegments = 3
  Docs <- MCDocs
  Environments <- MCEnvironments
  Calls <- MCCalls
  Fold <- MCFold
  JsonReading <- MCJsonReading
  Quoted <- MCQuoted
  Accepted <- MCAccepted
  DefaultsMaxDepth = 1
  SourceSchemas <- MCSourceSchemas
  LostNames <- MCLostNames
  Places <- MCPlaces
INVARIANTS
  VerdictIsComplete
  ErrorsExplainVerdict
  DefaultsFillTheBody
CHECK_DEADLOCK FALSE
