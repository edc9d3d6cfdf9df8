SPECIFICATION Spec
CONSTANTS
  Keys = {k1, k2}
  NULL = NULL
  Times = {1, 3}
  Clicks = {1, 2}
  TIME_MULTIPLE = 2
  MaxAge = 3
  MaxRegistered = 2
  MaxAlone = 3
INVARIANTS
  TypeOK
  MultipleIsCounted
  LongIsHeld
PROPERTY PressIsAnswered
CHECK_DEADLOCK FALSE
