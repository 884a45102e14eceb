CONSTANTS
  Requests <- MCRequests
  Samples <- MCSamples
  Tenant = 1
  Now = 3
  Null = Null
  Blank = Blank
  Identifiers <- MCIdentifiers
  DefaultLimit = 2
  MaxLimit = 4
  Like <- MCLike
  ILike <- MCILike
  Truthy <- MCTruthy
SPECIFICATION Spec
INVARIANTS SelectsWanted ValuesPlaced EveryArgumentUsed RefusedForCause
