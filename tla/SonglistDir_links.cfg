SPECIFICATION Spec
CONSTANTS
  File = {a, b}
  Symlink = {b}
  UpdateBeforeTransmit = FALSE
  MaxTime = 3
  MaxChanges = 3
  MaxUpdates = 3
  MaxReads = 0
PROPERTIES
  ImplementsRequestQueue
CHECK_DEADLOCK FALSE
