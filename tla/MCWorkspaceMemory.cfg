CONSTANTS
  Callers = {c1, c2}
  c1 = c1
  c2 = c2
  Files = {f1}
  GitFacts = {g1}
  Observations = {o1}
  Tasks = {t1}
  Contents = {x, y}
  Absent = Absent
  Providers = {p, q}
  Unknown = Unknown
  Limit = 1
  MaxRows = 3
  MaxCheckpoints = 2
  MaxEdits = 1
  MaxCalls = 5
  f1 = f1
  g1 = g1
  o1 = o1
  t1 = t1
  x = x
  y = y
  p = p
  q = q
SPECIFICATION Spec
SYMMETRY Symmetry
INVARIANTS
  MemoryTypeOK
  SweptClean
  SupersessionEnds
  SessionRestored
CHECK_DEADLOCK FALSE
