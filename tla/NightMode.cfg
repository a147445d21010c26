SPECIFICATION Spec
CONSTANTS
  MAX_TASK_NUM = 2
  MINUTES = 3
  Nights <- MCNights
  Wednesdays <- MCWednesdays
INVARIANTS
  NightTasksCurrent
  NoSlotLost
  LampDarkAtNight
