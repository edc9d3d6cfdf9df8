SPECIFICATION Spec
CONSTANTS
  Handles = {h1, h2}
  Clients = {c1}
  Threads = {t1}
  Settings <- MCSettings
  MaxAge = 2
  Api = {"stop", "init", "exit"}
  NULL = NULL
INVARIANTS TypeOK ListIsList
PROPERTIES OneShotOnce RepeatsForEver ExitEndsThreads
CHECK_DEADLOCK FALSE
