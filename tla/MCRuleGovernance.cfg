SPECIFICATION Spec
CONSTANTS
  Files <- MCFiles
  Scripts = {"a.js"}
  Archives = {"pack.zip"}
  ManifestKinds <- MCManifestKinds
  DebugKinds = {"identifier"}
  Locked = "locked"
  Huge = "huge"
  Link = "link"
  Sealed = "sealed"
  Writings <- MCWritings
  MaxEdits = 1
  Order <- MCOrder
  Calls <- MCCalls
  Named <- MCNamed
  Binary = {"binary"}
  Registry <- MCRegistry
  MaxScanned = 2
  MaxFiles = 1
  MaxFindings = 2
  Requests <- MCRequests
  MaxAudits = 2
  Callers = {c1, c2}
  Evidence <- MCEvidence
  Texts = {"strict"}
  FirstProfiles <- MCFirstProfiles
  UserProfiles <- MCUserProfiles
  MaxProposals = 2
  MaxWrites = 2
  MaxDrafts = 1
  Starts <- MCStarts
SYMMETRY MCSymmetry
INVARIANTS
  RuleTypeOK
  SummaryCovers
  ApprovedExactly
  StoodAfterApproval
  AppliedStays
CHECK_DEADLOCK FALSE
