SPECIFICATION Spec
CONSTANTS
  WordMod = 32
  TcpMss = 2
  RxLen = 2
  TxLen = 4
  Isn = 29
  PeerIsn = 5
  AppBytes = 6
  PeerBytes = 1
  MaxSeg = 1
  Windows = {0, 3}
INVARIANTS TxAccounting TxAligned AckSound
PROPERTY ImplementsByteStream
CHECK_DEADLOCK FALSE
