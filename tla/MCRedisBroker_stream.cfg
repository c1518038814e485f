SPECIFICATION FairSpec
CONSTANTS
  t1 = t1
  t2 = t2
  t3 = t3
  s1 = s1
  Turns = {t1, t2, t3}
  Subs = {s1}
  maxLen = 2
  readCount = 2
  MaxChunks = 2
  MaxLate = 1
  Expires = FALSE
  Faults = TRUE
INVARIANTS
  OneRunAtATime
  ReaderInOrder
  StopIsForThisRun
PROPERTIES
  RunClaimSpec
  ClaimReleased
CHECK_DEADLOCK FALSE
