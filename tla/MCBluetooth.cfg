SPECIFICATION Spec
CONSTANTS
  Listeners = {"rfcomm", "underrun"}
  MaxCalls = 5
INVARIANTS
  TypeOK
  OpenIsServed
  OffIsOff
PROPERTY CallEnds
CHECK_DEADLOCK FALSE
