SPECIFICATION FairSpec
CONSTANTS
  c1 = c1
  c2 = c2
  c3 = c3
  p1 = p1
  p2 = p2
  Conns <- MCConns
  Peers <- MCPeers
  TsPeers <- MCTsPeers
  EphPorts <- MCEphPorts
  ListenPort = 1
  FlowIds = {1, 2}
  ArpTries = 1
  BacklogLen = 2
  SpoutLen = 2
  Retries = 1
  SptxFills = TRUE
  MaxPackets = 3
INVARIANTS  WakersMatchState  NoAbort
 
CHECK_DEADLOCK FALSE
