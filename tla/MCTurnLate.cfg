SPECIFICATION Spec
CONSTANTS
  p1 = p1
  p2 = p2
  t1 = t1
  t2 = t2
  NoTurn = NoTurn
  Procs = {p1}
  Providers = {p1}
  CrashProne = {p1}
  Turns = {t1}
  Answers <- AllAnswers
  Notes = {}
  SupportsCancellation = TRUE
  MaxEvents = 12
PROPERTIES
  NoLateProjection
CHECK_DEADLOCK FALSE
