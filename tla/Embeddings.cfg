SPECIFICATION Spec
CONSTANTS
  Ids = {e1, e2}
  Silent = {e2}
  Servers = {m1, m2}
  PoolSize = 2
  Limit = 2
  MaxText = 2
  MaxChanges = 3
  MaxFaults = 1
INVARIANT StaleForACause
PROPERTY BackfillCatchesUp
CHECK_DEADLOCK FALSE
