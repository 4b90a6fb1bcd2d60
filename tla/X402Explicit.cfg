SPECIFICATION Spec
CONSTANTS
  cheap = cheap
  dear = dear
  static = static
  p1 = p1
  p2 = p2
  wallet = wallet
  NULL = NULL
  NoPayment = NoPayment
  Requests = {r1, r2, r3}
  Routes = {static}
  Accepts <- AcceptsMC
  Addresses = {wallet}
  Prices = {p1, p2}
  Nonces = {n1}
  TTL = 1
  MaxPIs = 2
  MaxTime = 0
INVARIANT ChargedOnce
CHECK_DEADLOCK FALSE
