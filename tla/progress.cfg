\* Reviews of two heads under a cap of one, one crash, failing lookups and completions, a
\* tenant that is paused now and then; fair workers, keepers and reaper.
SPECIFICATION FairSpec
CONSTANTS
  p1 = p1
  k1 = k1
  d1 = d1
  d2 = d2
  x1 = x1
  x2 = x2
  c1 = c1
  c2 = c2
  m1 = m1
  m2 = m2
  None = None
  Pull = {p1}
  MaxRef = 2
  Row = {d1, d2}
  Webhook = {d1, d2}
  Job <- MCJob
  ReaperRow <- MCReaperRow
  MovedRow <- MCMovedRow
  Tenant = {k1}
  Cap <- OneEach
  Machine = {m1, m2}
  Thread = {m1, m2}
  MachineOf <- ThreadEach
  Serving = {}
  Reaper = {r1}
  Budget <- OneTry
  Env = {"db_error", "lookup_error", "pause"}
  MaxRevive = 0
  MaxCrash = 1
PROPERTIES RunsEnd WaitsEnd DeadIsTold
