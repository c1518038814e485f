SPECIFICATION FairSpec
CONSTANTS
  t1 = t1
  t2 = t2
  s1 = s1
  s2 = s2
  p1 = p1
  loop = loop
  Turns = {t1, t2}
  Subs = {s1, s2}
  Tools = {p1}
  Loop = loop
  maxTranscript = 2
  Buffer = 1
  MaxRuns = 2
  MaxChunks = 1
  Disconnects = TRUE
  Abandons = TRUE
INVARIANTS
  WatchMatchesFlag
PROPERTIES
  ClaimSpec
  StreamEnds
CHECK_DEADLOCK FALSE
