CONSTANTS
  Missing = Missing
  Unset = Unset
  old = old
  new = new
  empty = empty
  truncated = truncated
  Contents <- MCContents
  Mappings <- MCMappings
  ValidPairs <- MCValidPairs
  NoAccounts <- MCNoAccounts
  MaxWrites = 3
  QuietStartup = TRUE
  DistinctMtimes = TRUE
SPECIFICATION Spec
INVARIANTS TypeOK QuietMeansCurrent ServesValidated
PROPERTIES EventuallyCurrent
