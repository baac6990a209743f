SPECIFICATION Spec
CONSTANTS
  NoObject = NoObject
  Capacity = 2
  Replicas = {r1, r2, r3}
  Names <- MCNames
  BadAddr = BadAddr
  StorageSize = 12
  Stale <- MCStale
  Samples <- MCSamples
  Sorts <- MCSorts
  MaxSockets = 3
  MaxSends = 2
  MaxCopies = 1
SYMMETRY MCSymmetry
INVARIANTS
  TypeOK
  DestroyedWhenUnreferenced
  BoundAddressReaches
  ReceivedByBinder
  NamesApart
CHECK_DEADLOCK FALSE
