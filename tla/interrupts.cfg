SPECIFICATION FairSpec
CONSTANTS
  NT = 2
  Keys <- FewKeys
  KbMax = 2
  MaxNest = 2
INVARIANTS
  TypeOK
  NothingLeftInService
  HandlersRunAlone
  KeysDoWhatWasMeant
PROPERTIES
  NoLineStarves
