SPECIFICATION FairProcessSpec
CONSTANTS
  MaxSignals = 2
INVARIANTS
  PlayerHasAll
  
PROPERTIES
  QuitEnds
CHECK_DEADLOCK FALSE
