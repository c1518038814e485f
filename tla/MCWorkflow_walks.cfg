SPECIFICATION Spec
CONSTANTS
  Nodes = {1, 2, 3, 4, 5, 6}
  Ports = {"a", "b"}
  Keys = {"own", "shared"}
  Values = {"x", "y"}
  Writes <- WritesOf
  Gates = {2, 3}
  Graphs <- StableGraphs
  MaxSteps = 3
  MaxWalks = 5
INVARIANTS
  ReturnAccountsForAll
  Caused
  DecisionConsumed
  OneFront
PROPERTIES
  CompletedIsFinal
CHECK_DEADLOCK FALSE
