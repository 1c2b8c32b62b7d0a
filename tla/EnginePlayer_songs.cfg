SPECIFICATION FairSpec
CONSTANTS
  RequestFile = {r1, r2}
  ShareFile = {s1}
  NoSong = NoSong
  Garbage = Garbage
  SongBlocks = 1
  MaxEdits = 1
  MaxSkips = 1
INVARIANTS
  SkipCutsOne
  RequestsFirst
PROPERTIES
  
  RequestsTaken
  QuitEndsPlaying
CHECK_DEADLOCK FALSE
