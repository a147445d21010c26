SPECIFICATION Spec
CONSTANTS
  Http = http
  Others = {mqtt}
  Len = 2
  MaxPos = 3
  MAX_RETRY = 2
  Replies = {"partial"}
INVARIANTS
  OnlyWholeFirmware
  EntryNotStuck
  DoneIsDone
CHECK_DEADLOCK FALSE
