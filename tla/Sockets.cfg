SPECIFICATION FairSpec
CONSTANTS
  c1 = c1
  c2 = c2
  Conns = {c1, c2}
  NULL = NULL
  RxLen = 4
  TxLen = 2
  TxqLen = 3
  ProbeMax = 1
  SpinLen = 2
  EvMax = 5
  Patient = TRUE
  Lengths = {1, 2}
  Budgets <- MCBudgets
INVARIANTS  BytesAccounted ReceivedInPlace  
PROPERTY BumpsReachNic
CHECK_DEADLOCK FALSE
