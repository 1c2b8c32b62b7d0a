SPECIFICATION Spec
CONSTANTS
  File = {a, b}
  Mp3File = {a, b}
  MaxTime = 3
  MaxChanges = 2
  MaxStarts = 2
SYMMETRY Symmetry
INVARIANTS
  TypeOK
  QueuedOnce
  LostOnlyDuringScan
  
PROPERTIES
  ImplementsRequestQueue
CHECK_DEADLOCK FALSE
