SPECIFICATION Spec
CONSTANTS
  t1 = t1
  s1 = s1
  s2 = s2
  p1 = p1
  loop = loop
  Turns = {t1}
  Subs = {s1, s2}
  Tools = {p1}
  Loop = loop
  maxTranscript = 2
  Buffer = 1
  MaxRuns = 1
  MaxChunks = 2
  Disconnects = TRUE
  Abandons = FALSE
SYMMETRY Symmetry
INVARIANTS
  DeliveredOnce
  PublisherOrder
CHECK_DEADLOCK FALSE
