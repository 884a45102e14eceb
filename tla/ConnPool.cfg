CONSTANTS
  Workers = {w1, w2}
  Connections = {k1, k2}
  First = k1
  Tenants = {tA, tB}
  NoTenant = NoTenant
  NoConnection = NoConnection
SPECIFICATION Spec
INVARIANTS StatementsBound ReadyMeansUp
PROPERTIES ImplementsLeases EveryUseEnds ProbesRecover
