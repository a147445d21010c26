SPECIFICATION FairSpec
CONSTANTS
  Word = 5
  PW_NUM = 2
  MaxReadings = 3
  MaxDay = 2
  MaxPulses = 5
  MaxMidnights = 1
  MaxCuts = 2
INVARIANTS
  ReportsAreCounted
  BookedOnce
  ReadingsInOrder
PROPERTIES
  MidnightRecorded
CHECK_DEADLOCK FALSE
