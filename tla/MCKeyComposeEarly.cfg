SPECIFICATION Spec
CONSTANTS
  Keys = {1, 2, 3, 4}
  Composes <- MCPair
  MaxRegistered = 2
  MaxAge = 3
  NULL = NULL
PROPERTY NotEarly
CHECK_DEADLOCK FALSE
