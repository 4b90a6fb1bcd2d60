CONSTANTS
  PIs = {1}
  Charges = {1, 2}
  Refunds = {}
  BalanceTxs = {1}
  Customers = {1, 2}
  PMs = {1, 2}
  Amounts = {1}
  SeedStatuses = {"requires_action"}
  MaxEvents = 2
  NULL = NULL
  KEEP = KEEP
SPECIFICATION Spec
INVARIANTS
  DetachedForGood
PROPERTIES
  ChargedWithUsablePM
