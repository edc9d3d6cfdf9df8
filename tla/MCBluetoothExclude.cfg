SPECIFICATION Spec
CONSTANTS
  Listeners = {"rfcomm", "underrun"}
  MaxCalls = 3
PROPERTY HfpExcludesSink
CHECK_DEADLOCK FALSE
