SPECIFICATION SliceSpec
CONSTANTS
  Traces = {t1}
  Nobody = nobody
  Unknown = unknown
  Roots <- MCRoots
  Order <- MCOrder
  Scripts <- MCScripts
  Hidden <- MCHidden
  Kinds <- MCKinds
  Huge = "huge"
  Locked = "locked"
  Editions = {0}
  Writings <- MCWritings
  FirstDisks <- MCFirstDisks
  MaxEdits = 2
  Checkpoint = 2
  Calls <- MCCalls
  Named <- MCNamed
  Binary = {"binary"}
  Registry <- MCRegistry
  MaxScanned = 3
  MaxFiles = 2
  MaxFindings = 3
  About <- MCAbout
INVARIANTS
  TypeOK
  SliceExact
  ContradictionWithholds
CHECK_DEADLOCK FALSE
