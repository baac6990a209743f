SPECIFICATION Spec
CONSTANTS
  Scenarios <- MCPrime
INVARIANTS
  EndsNormally
CHECK_DEADLOCK FALSE
