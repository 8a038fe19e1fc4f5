SPECIFICATION FairSpec
CONSTANTS
  NumCtx = 2
  NumEntries = 3
  NumSlots = 2
  NumFlows = 5
  LockCap = 1
INVARIANTS LatestFound OwnState
PROPERTY WorkDone
