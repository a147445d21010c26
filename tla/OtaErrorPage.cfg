SPECIFICATION Spec
CONSTANTS
  Http = http
  Others = {mqtt}
  Len = 3
  MaxPos = 6
  MAX_RETRY = 2
  Replies = {"partial", "error"}
INVARIANT
  OnlyWholeFirmware
CHECK_DEADLOCK FALSE
