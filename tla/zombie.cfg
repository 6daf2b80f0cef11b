\* One machine with two claiming threads, whose keeper stalls for a whole lease.
SPECIFICATION Spec
CONSTANTS
  p1 = p1
  k1 = k1
  d1 = d1
  d2 = d2
  x1 = x1
  x2 = x2
  c1 = c1
  c2 = c2
  m1 = m1
  m2 = m2
  None = None
  Pull = {p1}
  MaxRef = 1
  Row = {d1}
  Webhook = {d1}
  Job <- MCJob
  ReaperRow <- MCReaperRow
  MovedRow <- MCMovedRow
  Tenant = {k1}
  Cap <- TwoEach
  Machine = {m1}
  Thread = {t1, t2}
  MachineOf <- OneMachine
  Serving = {}
  Reaper = {r1}
  Budget <- Tries
  Env = {"stall"}
  MaxRevive = 0
  MaxCrash = 0
INVARIANTS HeadCovered
