SPECIFICATION FairSpec
CONSTANTS
  v1 = v1
  v2 = v2
  Values <- MCValues
  NoValue = NoValue
  Capacity = 2
  Modulus = 4
INVARIANTS
  TypeOK
  NoDataRace
  SizeInRange
PROPERTIES
  ImplementsFifo
  OldestIsTaken
