CONSTANTS
  NULL = NULL
  Bots = {b1, b2}
  Batch = 2
  LockFor = 2
  Retention = 2
  MaxSent = 2
  MaxTime = 2
  MaxCalls = 2
SPECIFICATION Spec
INVARIANTS TypeOK NoLostWakeup
PROPERTIES Delivers DueRowsAttempted
CHECK_DEADLOCK FALSE
