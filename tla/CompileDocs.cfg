SPECIFICATION AdapterSpec
CONSTANTS
  MaxSegments = 3
  ParsedDocs <- AllDocs
  CompilerConfigs <- MCConfigs
  BadSchemas <- MCBadSchemas
  UnresolvedSchemas <- MCUnresolved
  NoSchema = NoSchema
  TrackInitialCap = 1
INVARIANTS
  CompiledDocIsComplete
  
  SchemasFreedOnce
  BackendOutlivesPatterns
  AdapterReleasesAll
CHECK_DEADLOCK FALSE
