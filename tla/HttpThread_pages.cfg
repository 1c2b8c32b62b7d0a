SPECIFICATION FairSpec
CONSTANTS
  RequestFile = {r1}
  CacheFile = {c1}
  ShareFile = {s1}
  NoFile = NoFile
  UserCommand = {next}
  OtherCommand = {reload}
  PowerUser = {pu}
  PlainUser = {us}
  MaxEntries = 2
  MaxLandings = 1
  MaxConnections = 2
INVARIANTS
  CommandsAllowed
  PageNamesCurrent
  
  
PROPERTIES
  ConnectionCloses
CHECK_DEADLOCK FALSE
