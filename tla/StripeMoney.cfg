CONSTANTS
  PIs = {1, 2}
  Charges = {1, 2, 3}
  Refunds = {1, 2}
  BalanceTxs = {1, 2, 3, 4}
  Customers = {}
  PMs = {1, 2}
  Amounts = {1, 2}
  SeedStatuses = {}
  MaxEvents = 1
  NULL = NULL
  KEEP = KEEP
SPECIFICATION Spec
INVARIANTS
  TypeOK
  CapturedOnce
  BalanceReconciles
  EventsTellOutcome
PROPERTIES
  Settles
