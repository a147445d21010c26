SPECIFICATION HttpdFairSpec
CONSTANTS
  MaxFaults = 3
  MaxKeys = 2
INVARIANTS
  NoStopLeftBehind
  BusyWordIsOwned
PROPERTY
  ServerComesBack
CHECK_DEADLOCK FALSE
