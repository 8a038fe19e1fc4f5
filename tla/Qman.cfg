SPECIFICATION FairSpec
CONSTANTS
  Flows = {1}
  SlotCtx = {4}
  TcpMss = 2
  LocalCap = 1
  LocalMax = 8
  NumSlots = 2
  TsUnit = 2
  Rates = {0, 1}
  FifoBatch = 2
  MaxInflight = 8
  MaxBytes = 5
  MaxForce = 1
INVARIANTS  BytesCovered
 
CHECK_DEADLOCK FALSE
