\* An attempt passes its deadline and its Check Run cannot be closed.
SPECIFICATION Spec
CONSTANTS
  p1 = p1
  k1 = k1
  d1 = d1
  d2 = d2
  x1 = x1
  x2 = x2
  c1 = c1
  c2 = c2
  m1 = m1
  m2 = m2
  None = None
  Pull = {p1}
  MaxRef = 1
  Row = {d1}
  Webhook = {d1}
  Job <- MCJob
  ReaperRow <- MCReaperRow
  MovedRow <- MCMovedRow
  Tenant = {k1}
  Cap <- OneEach
  Machine = {m1}
  Thread = {m1}
  MachineOf <- ThreadEach
  Serving = {}
  Reaper = {r1}
  Budget <- Tries
  Env = {"deadline"}
  MaxRevive = 0
  MaxCrash = 0
INVARIANTS KeptIsWorkedOn
