SPECIFICATION FairSpec
CONSTANTS
  MaxDelay = 1
  MaxOutages = 1
  MaxCommands = 2
INVARIANTS
  ApClosedWhenUp
  ScanIsLatest
PROPERTIES
  OfflineActionDue
  CountdownEnds
  MqttFollowsLink
  StaysReachable
CHECK_DEADLOCK FALSE
