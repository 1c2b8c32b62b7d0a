SPECIFICATION FairSpec
CONSTANTS
  File = {a, b}
  Symlink = {}
  UpdateBeforeTransmit = TRUE
  MaxTime = 2
  MaxChanges = 2
  MaxUpdates = 3
  MaxReads = 1
INVARIANTS
  FirstTakesAll

  
  
CHECK_DEADLOCK FALSE
