CONSTANTS
  Unrestricted = Unrestricted
  NoTenant = NoTenant
  Unborn = Unborn
  Erased = Erased
  NoConnection = NoConnection
  i1 = i1
  i2 = i2
  i3 = i3
  i4 = i4
  tA = tA
  tB = tB
  ann = ann
  bob = bob
  eve = eve
  active = active
  paused = paused
  Tenants = {tA, tB}
  Texts = {ann, bob, eve}
  Statuses = {active, paused}
  DefaultStatus = active
  Ids <- MCIds
  Requests = {r1}
  Connections = {k1}
  Versions = {"boot"}
  Boot = "boot"
  Configs <- BootOnly
  Calls <- UnfilteredDelete
  Table0 <- MCTable
  MaxReloads = 0
  Rls = TRUE
  Faults = FALSE
SPECIFICATION Spec
INVARIANTS BulkDeleteNarrowed
