SPECIFICATION Spec
CONSTANTS
  Managers = {x1, x2}
  Runs = {r1, r2, r3}
  Threads = {t1, t2}
  Convs = {c1, c2}
  MaxSaves = 4
  MaxCrashes = 1
  MaxErrors = 1
  Concurrent = FALSE
SYMMETRY Symmetry
INVARIANTS
  ReplayRebuilds
  AckedSurvives
  ChainLoaded
CHECK_DEADLOCK FALSE
