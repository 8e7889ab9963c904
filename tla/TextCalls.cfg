\* Valid texts and texts one edit away from them, through every parser.
SPECIFICATION Spec
CONSTANTS
  Uris        <- MCUris
  Bases       <- MCBases
  References  <- MCReferences
  Samples     <- MCSamples
  Pointers    <- MCPointers
  QueryLists  <- MCQueryLists
  CookieLists <- MCCookieLists
  Spellings   <- MCSpellings
  Accepts     <- MCAccepts
  Available   <- MCAvailable
INVARIANTS
  ParsingLosesNothing
  ResolutionFits
  AnswersAreRight
  NegotiatedIsBest
