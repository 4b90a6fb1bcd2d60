CONSTANTS
  t1 = t1
  t2 = t2
  r1 = r1
  r2 = r2
  r3 = r3
  Twins = {t1, t2}
  Requests = {r1, r2, r3}
  TwinOf <- TwinOfMC
  Callers = {c1}
  Signals = {SIGTERM}
SPECIFICATION Spec
INVARIANTS TypeOK NoSilentLoss ExitDrains
PROPERTIES Logs CloseSettles
CHECK_DEADLOCK FALSE
