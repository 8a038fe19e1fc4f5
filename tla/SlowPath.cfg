SPECIFICATION FairSpec
CONSTANTS
  c1 = c1
  c2 = c2
  NULL = NULL
  Conns = {c1, c2}
  TxqLen = 3
  RxqLen = 3
  RexmitInts = 2
  Loads <- McLoads
INVARIANTS RingsInOrder
PROPERTY LossRecovered
