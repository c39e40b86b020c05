SPECIFICATION FairSpec
CONSTANTS
  NT = 3
  HZ = 4
  MinFreq = 2
  Freqs <- SomeFreqs
INVARIANTS
  TypeOK
  ClockIsPrivate
PROPERTIES
  ReadTakesItsPeriod
  ReadReturns
