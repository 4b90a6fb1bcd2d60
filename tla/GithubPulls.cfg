CONSTANTS
  main = main
  dev = dev
  topic = topic
  b1 = b1
  b2 = b2
  ci = ci
  Main = main
  Refs = {main, dev, topic}
  Paths = {1, 2}
  Blobs = {b1, b2}
  Contexts = {ci}
  Reports = {"failure"}
  Seeds <- MovedSeeds
  MaxCommits = 3
  MaxPulls = 1
  Given = {2}
  MaxReports = 1
  NONE = NONE
  KEEP = KEEP
SPECIFICATION Spec
INVARIANTS TypeOK TreeIsSnapshot RowsAreCache MergedIntoMain
PROPERTIES FreshMergeConverges UpdateSettles
SYMMETRY Symmetry
CHECK_DEADLOCK FALSE
