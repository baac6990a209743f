SPECIFICATION Spec
CONSTANTS
  Bytes = {0, 1}
  MaxFile = 1
  Modulus = 2
  MaxLen = 1
  Openers = {o1, o2}
  MaxWrites = 3
SYMMETRY MCSymmetry
CONSTRAINT MCZeros
INVARIANTS
  TypeOK
  OnceAndInOrder
PROPERTY
  ImplementsFile
