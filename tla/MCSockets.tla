----------------------------- MODULE MCSockets ------------------------------
(* A peer that sends more than the receive buffer holds, an application    *)
(* that sends more than the transmit buffer holds, and two connections     *)
(* that share the bump list and the queues.                                *)
EXTENDS Sockets

CONSTANTS c1, c2

Budget(how, app, peer) == [how |-> how, app |-> app, peer |-> peer]

Unused == Budget("no", 0, 0)

MCBudgets ==
  {[c \in Conns |-> IF c = c1 THEN Budget("connect", 0, 5) ELSE Unused],
   [c \in Conns |-> IF c = c1 THEN Budget("accept", 3, 1) ELSE Unused],
   [c \in Conns |-> IF c = c1 THEN Budget("connect", 1, 0) ELSE Budget("accept", 0, 0)]}
=============================================================================
