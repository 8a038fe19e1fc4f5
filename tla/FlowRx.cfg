SPECIFICATION FairSpec
CONSTANTS
  WordMod = 64
  TcpMss = 2
  RxLen = 8
  TxLen = 4
  Isn = 5
  PeerIsn = 58
  AppBytes = 0
  PeerBytes = 11
  MaxSeg = 4
  Windows = {4}
INVARIANTS RxAccounting OooIntact
PROPERTIES ImplementsByteStream StreamCompletes
CHECK_DEADLOCK FALSE
