SPECIFICATION FairSpec
CONSTANTS
  leader = leader
  child = child
  c1 = c1
  c2 = c2
  Leader = leader
  Members <- Family
  Streams = {"stdout"}
  MaxChunks = 0
  Callers = {c1}
  Requests <- Ending
PROPERTIES
  KillEnds
  CancelEnds
  DeadlineEnds
  NobodyLeftBehind
CHECK_DEADLOCK FALSE
