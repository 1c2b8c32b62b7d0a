SPECIFICATION InfoSpec
CONSTANTS
  Thread = {player, main}
  NoThread = NoThread
  Fields = 3
  MaxCalls = 3
  MaxChanges = 1
SYMMETRY Symmetry
INVARIANTS
  TornOnlyByTwo
  SettledComplete
CHECK_DEADLOCK FALSE
