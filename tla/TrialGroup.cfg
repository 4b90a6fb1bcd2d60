CONSTANTS
  Trials = 2
  Attempts = 2
  Criteria = {c1, c2}
  Rows <- MCRows
  NULL = NULL
SPECIFICATION Spec
INVARIANTS TypeOK RowsFaithful SessionsReleased
PROPERTIES GroupEnds
CHECK_DEADLOCK FALSE
