SPECIFICATION Spec
CONSTANTS
  ok = ok
  empty = empty
  long = long
  NoUrl = NoUrl
  Urls <- MCUrls
  HostOk = {ok}
  PortOk = {ok}
  PathOk = {ok}
  Responses <- MCResponses
  Options <- MCOptions
  DefaultMaxSize = 10
  DefaultMaxRedirects = 2
  InitBuf = 4
  Word = 128
INVARIANTS
  NothingHeld
  SuccessIsComplete
  RefusedWhenLarge
  HopsBounded
PROPERTIES
  CallReturns
