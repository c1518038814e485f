CONSTANTS
    Providers <- AllProviders
    Kinds <- AllKinds
    MaxCalls = 2
    MaxBlocks = 3
    MaxFragments = 2
SPECIFICATION Spec
INVARIANTS
  OneItemOpen
  ItemsMatchBlocks
  CallsWhole
  StreamAgreesWithResponse
  PromptPaired
  FormatsCarry
CHECK_DEADLOCK FALSE
