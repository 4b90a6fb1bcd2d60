SPECIFICATION Spec
CONSTANTS
  cheap = cheap
  dear = dear
  static = static
  p1 = p1
  p2 = p2
  wallet = wallet
  NULL = NULL
  NoPayment = NoPayment
  Requests = {r1, r2, r3}
  Routes = {cheap, dear}
  Accepts <- AcceptsMC
  Addresses = {}
  Prices = {p1, p2}
  Nonces = {n1}
  TTL = 1
  MaxPIs = 2
  MaxTime = 2
INVARIANTS TypeOK MintedOffersStand MintedChargedOnce
PROPERTY Collects
SYMMETRY Interchangeable
CHECK_DEADLOCK FALSE
