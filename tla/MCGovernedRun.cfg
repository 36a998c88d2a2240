SPECIFICATION Spec
CONSTANTS
  r1 = r1
  r2 = r2
  c1 = c1
  c2 = c2
  NoRun = NoRun
  Nobody = Nobody
  User = User
  Runs = {r1}
  Calls = {c1, c2}
  Paths = {"a"}
  WritablePaths = {"a"}
  Requests <- MCRequests
  Circumstances0 <- MCCircumstances
  MaxEdits = 1
  MaxSteps = 2
  MayCancel = TRUE
INVARIANTS
  TypeOK
  ToldTruth
  ReadOnlyHonest
  WorkerContained
PROPERTIES
  ImplementsEffects
  CompletedByAgent
  RunReplies
CHECK_DEADLOCK FALSE
