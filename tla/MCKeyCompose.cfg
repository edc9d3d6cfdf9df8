SPECIFICATION Spec
CONSTANTS
  Keys = {1, 2, 3, 12}
  Composes <- MCComposes
  MaxRegistered = 2
  MaxAge = 3
  NULL = NULL
INVARIANTS TypeOK QueueIsHeld MutexGivenBack CalledOnce
PROPERTIES CalledWhileHeld QueuedIsHandled
CHECK_DEADLOCK FALSE
