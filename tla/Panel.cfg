SPECIFICATION Spec
CONSTANTS
  SOCKET_NUM = 2
  Scenarios <- MCScenarios
  MaxBusy = 2
  UNSAID = UNSAID
  OLDER = OLDER
INVARIANTS
  RelayAgrees
  LampAgrees
  ReportsAgree
  SavedWhenQuiet
