SPECIFICATION Spec
CONSTANTS
  MAX_TASK_NUM = 2
  SOCKET_NUM = 1
  DAY = 3
  MINUTE = 1
  TZ = 1
  LOOP_MASK_MINUTES = 2
  PRS_MIN = 3
  PRS_MAX = 6
  MaxTime = 7
  Requests <- MCRequests
  LegacyTasks <- MCLegacyTasks
  NIGHT_START = 2
  NIGHT_END = 0
INVARIANTS
  TypeOK
  AgendaOK
  FlashCurrent
  LoopStillScheduled
PROPERTIES
  NoImmediateRefire
  RescheduledToFirstMatch
  NoTaskLost
  DueTaskRuns
