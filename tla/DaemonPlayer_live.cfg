SPECIFICATION FairSpec
CONSTANTS
  Thread = {t1, t2}
  RequestFile = {r1}
  CacheFile = {}
  ShareFile = {}
  NoFile = NoFile
  DeletePlayed = TRUE
  SongBlocks = 1
  MaxLandings = 1
  MaxCommands = 2
PROPERTIES
  StopEnds
  
CHECK_DEADLOCK FALSE
