CONSTANTS
  NULL = NULL
  Bots = {b1}
  Batch = 2
  LockFor = 2
  Retention = 2
  MaxSent = 1
  MaxTime = 1
  MaxCalls = 1
SPECIFICATION Spec
PROPERTIES RetriedWithoutNotify
CHECK_DEADLOCK FALSE
