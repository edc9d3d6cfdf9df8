SPECIFICATION Spec
CONSTANTS
  Clients = {c1}
  s1 = s1
  Ssids = {s1, s2}
  NULL = NULL
  BLANK = BLANK
  WIFI_CONNECT_RETRY = 2
  MaxChecks = 2
  MaxCalls = 2
  MaxId = 1
  Configurations <- MCConfigurations
INVARIANTS TypeOK OneEntryPerNetwork
PROPERTIES EveryCheckEnds ImplementsAttempt
