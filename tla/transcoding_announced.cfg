CONSTANTS
  movie = movie
  broken = broken
  Videos = {movie, broken}
  NoVideo = NoVideo
  Unreadable = {broken}
  Segments = {1, 2, 3}
  Concurrency = 2
  Builds <- MCCode
  Attempts = 2
  MaxStalls = 1
  MaxRedeliveries = 1
  MaxFaults = 0
CHECK_DEADLOCK FALSE
SPECIFICATION FairSpec
PROPERTY VideoServiceWillKnow
