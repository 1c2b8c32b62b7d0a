SPECIFICATION Spec
CONSTANTS
  Thread = {t1, t2}
  RequestFile = {r1}
  CacheFile = {c1}
  ShareFile = {s1}
  NoFile = NoFile
  DeletePlayed = TRUE
  SongBlocks = 1
  MaxLandings = 1
  MaxCommands = 2
SYMMETRY Symmetry
INVARIANTS
  TypeOK
  OnlyDeletable
  DeletionLedger
  GivenOnce
  
CHECK_DEADLOCK FALSE
