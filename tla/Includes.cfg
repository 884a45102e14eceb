CONSTANTS
  Unrestricted = Unrestricted
  NoTenant = NoTenant
  Null = Null
  tA = tA
  tB = tB
  Versions = {"boot", "hidden", "denied", "rewired", "dropped"}
  Boot = "boot"
  Configs <- MCConfigs
  Dn = "admin"
  Queries <- MCQueries
  Table0 <- MCTable
  Edits <- MCEdits
  MaxReloads = 2
  MaxWrites = 2
  Rls = FALSE
SPECIFICATION Spec
INVARIANTS IncludedVisible IncludedRelated IncludesComplete
