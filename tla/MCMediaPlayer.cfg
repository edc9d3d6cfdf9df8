SPECIFICATION Spec
CONSTANTS
  MaxTracks = 3
  MaxEos = 1
  URL = URL
  NULL = NULL
INVARIANTS TypeOK ListIsLinked PrevUndoesNext RandomIsOther PlaysCurrent
PROPERTY KeepsPlaying
CHECK_DEADLOCK FALSE
