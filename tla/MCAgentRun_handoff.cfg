SPECIFICATION FairSpec
CONSTANTS
  root = root
  spec = spec
  g1 = g1
  g2 = g2
  i1 = i1
  e1 = e1
  p1 = p1
  n1 = n1
  n2 = n2
  t1 = t1
  x1 = x1
  m1 = m1
  m2 = m2
  Agents = {root, spec}
  Root = root
  Calls = {t1, x1, g1}
  Inner = {}
  Msgs = {m1}
  parent <- ParentOf
  owner <- SpecOwnsX
  Gated = {g1, x1}
  Interrupting = {g1}
  transfer <- TransferToSpec
  handoffs <- RootToSpec
  MaxLoops <- Loops4
  SingleTurn = FALSE
  Sticky = TRUE
  Faults = FALSE
  BrokerErrors = FALSE
INVARIANTS
  IInv
  CompletedRowPaired
PROPERTIES
  ApprovedCallStarts
  RestartIsResume
  RunEnds
CHECK_DEADLOCK FALSE
