SPECIFICATION FairSpec
CONSTANTS
  Datagrams = {d1, d2}
  Nobody = Nobody
  MayDrop = TRUE
  MaxReplays = 1
  MinLatency = 1
  MaxLatency = 2
  Draws <- MCDraws
  MaxTime = 6
INVARIANTS
  TypeOK
  NoLostWakeup
  ReorderBounded
PROPERTIES
  ImplementsChannel
  RecvReturns
