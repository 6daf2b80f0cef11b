\* One row between two machines and two reapers: stalled keepers, a crash, a reaper that dies
\* in the middle of a tick, operator and outage retries, cancellations, draining.
SPECIFICATION Spec
CONSTANTS
  p1 = p1
  k1 = k1
  d1 = d1
  d2 = d2
  x1 = x1
  x2 = x2
  c1 = c1
  c2 = c2
  m1 = m1
  m2 = m2
  None = None
  Pull = {p1}
  MaxRef = 1
  Row = {d1}
  Webhook = {d1}
  Job <- MCJob
  ReaperRow <- MCReaperRow
  MovedRow <- MCMovedRow
  Tenant = {k1}
  Cap <- TwoEach
  Machine = {m1, m2}
  Thread = {m1, m2}
  MachineOf <- ThreadEach
  Serving = {}
  Reaper = {r1, r2}
  Budget <- OneTry
  Env = {"stall", "failover", "retry_now", "outage", "cancel", "drain", "notice_error"}
  MaxRevive = 1
  MaxCrash = 1
SYMMETRY FleetSymmetry
INVARIANTS ClaimsBounded KeptIsWorkedOn ToldOncePerDeath
PROPERTIES DrainedButForStarts
