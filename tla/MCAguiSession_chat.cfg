CONSTANTS
    Providers <- AllProviders
    Kinds <- SomeKinds
    MaxCalls = 2
    MaxBlocks = 2
    MaxFragments = 1
    MaxTurns = 2
    MaxFailures = 1
    Decisions <- SomeDecisions
    Reads = TRUE
SPECIFICATION SessionSpec
INVARIANTS
  StreamVerifies
  LiveMatchesReload
  EchoKeepsThread
CHECK_DEADLOCK FALSE
