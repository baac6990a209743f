SPECIFICATION Spec
CONSTANTS
  NoObject = NoObject
  Capacity = 4
  MaxObjects = 7
  WildFds <- MCMadeUp
INVARIANT
  InsertsIntoEmptySlot
