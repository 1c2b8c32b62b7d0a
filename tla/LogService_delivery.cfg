SPECIFICATION FairSpec
CONSTANTS
  Main = Main
  Worker = {w1}
  Nobody = Nobody
  MaxCalls = 2
  MaxSignals = 1
INVARIANTS
  NoStuckEntry
PROPERTIES
  ImplementsEventLog
  QueueDrains
CHECK_DEADLOCK FALSE
