\* A CI failure of the older head is delivered after the review of the newer one was queued.
SPECIFICATION Spec
CONSTANTS
  p1 = p1
  k1 = k1
  d1 = d1
  d2 = d2
  x1 = x1
  x2 = x2
  c1 = c1
  c2 = c2
  m1 = m1
  m2 = m2
  None = None
  Pull = {p1}
  MaxRef = 2
  Row = {d1, d2, c1}
  Webhook = {d1, d2, c1}
  Job <- MCJob
  ReaperRow <- MCReaperRow
  MovedRow <- MCMovedRow
  Tenant = {k1}
  Cap <- OneEach
  Machine = {m1}
  Thread = {m1}
  MachineOf <- ThreadEach
  Serving = {}
  Reaper = {r1}
  Budget <- OneTry
  Env = {"reorder"}
  MaxRevive = 0
  MaxCrash = 0
INVARIANTS HeadCovered
