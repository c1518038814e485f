CONSTANTS
    Summarizers <- AllSummarizers
    Keeps = {1, 2}
    Threshold = 7
    Asked = {"last", ""}
    Agents = {"a"}
    Tokens <- Weights
    Prefix = 1
    Steering = 1
    MaxRuns = 4
    MaxBundles = 8
    MaxSummaries = 2
    MaxFailures = 1
SPECIFICATION Spec
INVARIANTS
  ContextComplete
  ContextMeasured
  SummaryCoversRun
CHECK_DEADLOCK FALSE
