SPECIFICATION HistorySpec
CONSTANTS
  Traces = {t1, t2}
  Nobody = nobody
  Roots <- MCRoots
  Kinds = {"text", "huge", "locked"}
  Huge = "huge"
  Locked = "locked"
  Editions = {0, 1}
  Writings <- MCWritings
  FirstDisks <- MCFirstDisks
  MaxEdits = 2
  Checkpoint = 2
INVARIANTS
  IndexTruthful
  AloneComplete
CHECK_DEADLOCK FALSE
