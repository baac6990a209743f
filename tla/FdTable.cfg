SPECIFICATION Spec
CONSTANTS
  NoObject = NoObject
  Capacity = 4
  MaxObjects = 7
  WildFds <- MCNegative
INVARIANTS
  TypeOK
  InsertsIntoEmptySlot
  NumbersAccountedFor
  DescriptorsStable
  NothingLeaks
  EmfileMeansFull
