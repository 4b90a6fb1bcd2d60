CONSTANTS
  r1 = r1
  r2 = r2
  a1 = a1
  a2 = a2
  NoAgent = NoAgent
  Requests = {r1, r2}
  Agents = {a1, a2}
  Types = {"started", "completed"}
  NewTypes = {"started"}
  Seeds <- SeededDelegate
  Wanted <- IssuesOnly
  MaxIds = 4
  MaxResets = 1
  MaxIssues = 2
SPECIFICATION Spec
INVARIANTS TypeOK ParentsWellFounded StampsFollowState DelegationServed DeliveryIdsReserved
SYMMETRY Symmetry
CHECK_DEADLOCK FALSE
