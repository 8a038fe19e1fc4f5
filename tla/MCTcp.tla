------------------------------- MODULE MCTcp --------------------------------
EXTENDS Tcp

CONSTANTS c1, c2, c3, p1, p2

MCConns == {c1, c2}
MCConns3 == {c1, c2, c3}
MCPeers == {p1, p2}
MCTsPeers == {p1}
MCEphPorts == {2, 3}
=============================================================================
