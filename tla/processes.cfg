SPECIFICATION FairSpec
CONSTANTS
  NT = 3
  MaxProc = 6
  PreemptAt <- SafePoints
  BootFirst = TRUE
  CalmUser = TRUE
  CountBound = 0
  MayFault = FALSE
INVARIANTS
  SessionIInv
  RunsInOwnSpace
  EveryTerminalResumable
  SlotsAccountedFor
  StaysInTable
PROPERTIES
  RefusesOnlyWhenFull
  StatusGoesToParent
  EveryTerminalScheduled
  SwitchServed
  ExecuteCompletes
  ImplementsSessions
