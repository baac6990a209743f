SPECIFICATION FairSpec
CONSTANTS
  Scenarios <- MCScenarios
INVARIANTS
  TypeOK
  GuestSeesResult
  SigtermHeldBack
  AllOrNothing
  RunComplete
  
PROPERTIES
  MainReturns
CHECK_DEADLOCK FALSE
