CONSTANTS
  N = 3
  Keys = {k1}
  Hashes = {h1, h2}
  NULL = NULL
  BeforeAttempt = 2
  AfterAttempt = 1
  MaxResets = 1
  MaxRestarts = 1
SPECIFICATION Spec
INVARIANTS
  TypeOK
  CommitsOnce
  ReplayFaithful
  TapeTruthful
PROPERTIES
  Answered
CHECK_DEADLOCK FALSE
