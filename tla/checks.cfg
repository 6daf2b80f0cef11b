\* The Check Runs of a pull request: replaced heads, faults, an operator.
SPECIFICATION FairSpec
CONSTANTS
  d1 = d1
  d2 = d2
  e2 = e2
  m2 = m2
  q1 = q1
  q2 = q2
  w1 = w1
  w2 = w2
  Row = {d1, d2, e2, m2}
  Delivery = {d1, d2, e2}
  Ref <- RefOfRow
  Heads = 2
  Request = {q1, q2}
  Worker = {w1, w2}
  Sweeper = {s1}
  Scenarios <- MCScenarios
  Budget = 2
  Dies <- OnceRecorded
  Stops <- OnceAttached
  Refused <- MadeUpFor
  Hasty = FALSE
  None = None
INVARIANTS TypeOK NoRunForgotten
PROPERTIES VerdictStays EveryRunEnds
CHECK_DEADLOCK FALSE
