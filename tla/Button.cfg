SPECIFICATION Spec
CONSTANTS
  BUTTON_LONG_PRESS_TIME = 10
  MaxHold = 60
  MaxClicks = 3
INVARIANT
  LongPressWasHeld
