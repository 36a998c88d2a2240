SPECIFICATION Spec
CONSTANTS
  p1 = p1
  p2 = p2
  p3 = p3
  Procs = {p1, p2}
  CrashProne = {p1}
  Paths = {1, 2}
  Dirty = {2}
  MaxEdits = 2
  Policy <- MixedPolicy
INVARIANTS
  TypeOK
  ValidatedByEvidence
  GitPassReconciled
  NoOrphanedRun
  ProvisionalOwned
PROPERTIES
  ContractFixed
CHECK_DEADLOCK FALSE
