\* A review of each of two heads, and the rows the reaper and a finished review may queue
\* for the second head; two machines, two crashes, two attempts per row.
SPECIFICATION Spec
CONSTANTS
  p1 = p1
  k1 = k1
  d1 = d1
  d2 = d2
  x1 = x1
  x2 = x2
  c1 = c1
  c2 = c2
  m1 = m1
  m2 = m2
  None = None
  Pull = {p1}
  MaxRef = 2
  Row = {d1, d2, x1, x2}
  Webhook = {d1, d2}
  Job <- MCJob
  ReaperRow <- MCReaperRow
  MovedRow <- MCMovedRow
  Tenant = {k1}
  Cap <- TwoEach
  Machine = {m1, m2}
  Thread = {m1, m2}
  MachineOf <- ThreadEach
  Serving = {}
  Reaper = {r1}
  Budget <- Tries
  Env = {}
  MaxRevive = 0
  MaxCrash = 2
SYMMETRY MachineSymmetry
INVARIANTS TypeOK HeadCovered StaleHeadReplaced
PROPERTIES ImplementsPromise
