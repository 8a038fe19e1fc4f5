SPECIFICATION FairSpec
CONSTANTS
  Ctx = {1, 2, 3, 4, 5, 6, 7, 8}
  RingOf <- MCRingOf
  Apps = {1}
  RxqLen = 4
  TxqLen = 3
  ProbeMax = 1
  ArxDescs = 2
  AtxDescs = 2
  DescBatch = 1
  DescLow = 0
  ArxThreads = 2
  Traffic <- MCTraffic
  MaxCmds = 4
INVARIANTS PayloadFirst AtMostOnce QueuesConserved
 
