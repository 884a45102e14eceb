CONSTANTS
  Missing = Missing
  Unset = Unset
  old = old
  new = new
  empty = empty
  truncated = truncated
  Contents <- MCContents
  Mappings <- MCMappings
  ValidPairs <- MCValidPairs
  NoAccounts <- MCNoAccounts
  MaxWrites = 2
  QuietStartup = FALSE
  DistinctMtimes = TRUE
SPECIFICATION Spec
INVARIANTS QuietMeansCurrent
