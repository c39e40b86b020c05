SPECIFICATION Spec
CONSTANTS
  NT = 2
  MaxProc = 2
  PreemptAt <- AnyStretch
  CountBound = 0
  BootFirst = FALSE
  CalmUser = FALSE
  MayFault = TRUE
PROPERTY
  VideoMappingKept
CHECK_DEADLOCK FALSE
