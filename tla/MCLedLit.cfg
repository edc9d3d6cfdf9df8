SPECIFICATION Spec
CONSTANTS
  Effects <- MCLastingEffects
  Names <- MCNames
  TIMER_PERIOD = 20
  DeviceOutcomes = {TRUE}
  DirectColors = {}
  MaxCalls = 3
  NULL = NULL
INVARIANT ChosenIsLit
CHECK_DEADLOCK FALSE
