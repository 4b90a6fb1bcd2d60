CONSTANTS
  t1 = t1
  t2 = t2
  r1 = r1
  r2 = r2
  r3 = r3
  Twins = {t1, t2}
  Requests = {r1, r2, r3}
  TwinOf <- TwinOfMC
  Callers = {}
  Signals = {SIGINT, SIGTERM}
SPECIFICATION Spec
INVARIANTS GracefulExit
CHECK_DEADLOCK FALSE
