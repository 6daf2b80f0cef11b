\* A machine dies during the last attempt of a row.
SPECIFICATION Spec
CONSTANTS
  p1 = p1
  k1 = k1
  d1 = d1
  d2 = d2
  x1 = x1
  x2 = x2
  c1 = c1
  c2 = c2
  m1 = m1
  m2 = m2
  None = None
  Pull = {p1}
  MaxRef = 2
  Row = {d1}
  Webhook = {d1}
  Job <- MCJob
  ReaperRow <- MCReaperRow
  MovedRow <- MCMovedRow
  Tenant = {k1}
  Cap <- OneEach
  Machine = {m1, m2}
  Thread = {m1, m2}
  MachineOf <- ThreadEach
  Serving = {}
  Reaper = {r1}
  Budget <- OneTry
  Env = {}
  MaxRevive = 0
  MaxCrash = 1
INVARIANTS NeverStranded
