\* Two CI-failure fixes of one head and a review of the next, in any order, on a machine that
\* also takes the deliveries, while jobs outlive their deadline and an operator retries.
SPECIFICATION Spec
CONSTANTS
  p1 = p1
  k1 = k1
  d1 = d1
  d2 = d2
  x1 = x1
  x2 = x2
  c1 = c1
  c2 = c2
  m1 = m1
  m2 = m2
  None = None
  Pull = {p1}
  MaxRef = 2
  Row = {d2, c1, c2}
  Webhook = {d2, c1, c2}
  Job <- MCJob
  ReaperRow <- MCReaperRow
  MovedRow <- MCMovedRow
  Tenant = {k1}
  Cap <- OneEach
  Machine = {m1}
  Thread = {m1}
  MachineOf <- ThreadEach
  Serving = {m1}
  Reaper = {}
  Budget <- OneTry
  Env = {"reorder", "retry_now", "deadline", "db_error"}
  MaxRevive = 1
  MaxCrash = 0
INVARIANTS OneLiveHead
