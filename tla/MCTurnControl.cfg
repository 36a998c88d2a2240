SPECIFICATION Spec
CONSTANTS
  p1 = p1
  p2 = p2
  t1 = t1
  t2 = t2
  NoTurn = NoTurn
  Procs = {p1, p2}
  Providers = {p1}
  CrashProne = {p1}
  Turns = {t1, t2}
  Answers <- FewAnswers
  Notes <- Steer
  SupportsCancellation = TRUE
  MaxEvents = 3
INVARIANTS
  TypeOK
  JournalNumbered
  OutcomeGrounded
  ReplayAgrees
PROPERTIES
  ImplementsLifecycle
  SuppressedInFlight
CHECK_DEADLOCK FALSE
