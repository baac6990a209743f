SPECIFICATION Spec
CONSTANTS
  N = 2
  Scales <- MCScales
  Images <- MCImages
  Image <- MCImage
  Gap = 2
  Second = 3
  Durations = {1, 3}
  MaxTime = 7
INVARIANTS
  TypeOK
  VdsoRemoved
  ClocksAgree
  SleepsLongEnough
CHECK_DEADLOCK FALSE
