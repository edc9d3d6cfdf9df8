SPECIFICATION Spec
CONSTANTS
  Effects <- MCEffects
  Names <- MCNames
  TIMER_PERIOD = 20
  DeviceOutcomes = {TRUE, FALSE}
  DirectColors = {3}
  MaxCalls = 3
  NULL = NULL
INVARIANTS TypeOK StableSorted StableNamesUnique PendingNeverSleeps SetIsShown
PROPERTIES TempIsShown TempExpires ImplementsLayers
CHECK_DEADLOCK FALSE
