SPECIFICATION Spec
CONSTANTS
  root = root
  spec = spec
  g1 = g1
  g2 = g2
  i1 = i1
  e1 = e1
  p1 = p1
  n1 = n1
  n2 = n2
  t1 = t1
  x1 = x1
  m1 = m1
  m2 = m2
  Agents = {root}
  Root = root
  Calls = {p1, e1}
  Inner = {n1}
  Msgs = {m1}
  parent <- ParentOf
  owner <- RootOwnsAll
  Gated = {}
  Interrupting = {e1}
  transfer <- NoTransfers
  handoffs <- NoHandoffs
  MaxLoops <- Loops2
  SingleTurn = FALSE
  Sticky = FALSE
  Faults = FALSE
  BrokerErrors = FALSE
INVARIANTS
  PausedRowResumable
  ToldOnlyGranted
CHECK_DEADLOCK FALSE
