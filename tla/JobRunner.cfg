SPECIFICATION Spec
CONSTANTS
  t1 = t1
  t2 = t2
  f = f
  g = g
  h = h
  Threads = {t1, t2}
  Symbols = {f, g, h}
  Helper = h
  Size <- MCSize
  OptPool = 2
  OptStop = 1
  OptCheckpoint = TRUE
  OptTimeout = TRUE
  MaxUnopened = 2
INVARIANTS
  PoolSorted
  CheckpointIsBest
  BestIsSmallest
PROPERTIES
  BestImproves
  Terminates
