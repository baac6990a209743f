SPECIFICATION HookSpec
CONSTANTS
  Hooks <- MCHooks
  Passthrough = "pass"
  NoHook = "none"
  Numbers <- MCNumbers
  Named <- MCNamed
  NoName = NoName
  IntMax = 8
  SizeModulus = 16
  MaxTable = 12
INVARIANTS
  AnswersAsListed
  StatisticsPartition
CHECK_DEADLOCK FALSE
