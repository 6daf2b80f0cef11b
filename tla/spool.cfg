\* A review and a fix of two heads of one pull request: a boot on shadow, one on postgres,
\* one that rolls back, an outage, and a Postgres call that outlives its timeout.
SPECIFICATION FairSpec
CONSTANTS
  d1 = d1
  d2 = d2
  Delivery = {d1, d2}
  Job <- ReviewAndFix
  Thread = {t1}
  LaneKinds = {"review"}
  FileTries = 2
  Budget <- OneTry
  First = "shadow"
  Switch <- ForthAndBack
  Slow = {d1}
  MaxCrash = 2
  MaxOutage = 1
  MaxRepeat = 0
  None = None
INVARIANTS TypeOK NoDeliveryLost
PROPERTIES FinishedStaysFinished HandedOverStays EndsOrSticks
CHECK_DEADLOCK FALSE
