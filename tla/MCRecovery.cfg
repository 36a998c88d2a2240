SPECIFICATION Spec
CONSTANTS
  r1 = r1
  r2 = r2
  r3 = r3
  Runners = {r1, r2, r3}
  CrashProne = {r1, r2}
  Cancellable = {r1}
  Policy <- ThreePolicies
  Raised = {"timeout", "permission_denial"}
INVARIANTS
  AttemptsAccounted
  EndsRecorded
PROPERTIES
  TerminalFinal
  CancelStops
  CompletedOnce
CHECK_DEADLOCK FALSE
