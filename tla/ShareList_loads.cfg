SPECIFICATION Spec
CONSTANTS
  Song = {a, b, t}
  Mp3Song = {a, b}
  KeptSong = {a, t}
  LongLine = LongLine
  MaxLines = 2
  MaxTime = 3
  MaxEdits = 2
INVARIANTS
  
  MissedOnlyWithinSecond
CHECK_DEADLOCK FALSE
