SPECIFICATION Spec
CONSTANTS
  root = root
  spec = spec
  g1 = g1
  g2 = g2
  i1 = i1
  e1 = e1
  p1 = p1
  n1 = n1
  n2 = n2
  t1 = t1
  x1 = x1
  m1 = m1
  m2 = m2
  Agents = {root}
  Root = root
  Calls = {g1, e1}
  Inner = {}
  Msgs = {m1, m2}
  parent <- ParentOf
  owner <- RootOwnsAll
  Gated = {g1}
  Interrupting = {e1}
  transfer <- NoTransfers
  handoffs <- NoHandoffs
  MaxLoops <- Loops2
  SingleTurn = FALSE
  Sticky = FALSE
  Faults = TRUE
  BrokerErrors = TRUE
SYMMETRY Symmetry
INVARIANTS
  GatedNeedsGrant
  PromptPaired
  AnsweredNeverRerun
CHECK_DEADLOCK FALSE
