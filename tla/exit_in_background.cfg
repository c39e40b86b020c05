SPECIFICATION Spec
CONSTANTS
  NT = 3
  MaxProc = 6
  PreemptAt <- SafePoints
  CountBound = 0
  BootFirst = TRUE
  CalmUser = FALSE
  MayFault = FALSE
PROPERTY
  HaltKeepsOtherTerminals
CHECK_DEADLOCK FALSE
