SPECIFICATION Spec
CONSTANTS
  NumCells = 3
  NumPlaces = 3
  Structs <- SmallStructs
  Blank = 32
INVARIANTS
  ListHoldsBlinkers
  SyncedInStep
PROPERTY
  ImplementsBlinkers
