----------------------------- MODULE ByteStream ------------------------------
(***************************************************************************)
(* What an offloaded connection promises its application: two reliable,    *)
(* ordered streams over bounded buffers.  No packets, sequence numbers or  *)
(* retransmissions; FlowProto implements this specification with them.     *)
(***************************************************************************)
EXTENDS Integers, Sequences

CONSTANTS AppBytes,    \* bytes the application writes
          PeerBytes,   \* bytes the peer writes before its end of stream
          RxLen, TxLen \* buffer lengths

VARIABLES
  written,   \* bytes the application has written
  peerAck,   \* bytes of them the peer has received and acknowledged
  acked,     \* bytes of them whose room the application has back
  inbox,     \* bytes the application may read, in order
  read,      \* bytes it has read
  eof        \* it knows that the peer's stream has ended

vars == <<written, peerAck, acked, inbox, read, eof>>

Init ==
  /\ written = 0 /\ peerAck = 0 /\ acked = 0
  /\ inbox = <<>> /\ read = 0 /\ eof = FALSE

(* Byte b of the peer's stream is the value b.                             *)
PeerStream(from, n) == [i \in 1..n |-> from + i - 1]

(* The application writes into free room and reads from the front.         *)
Use(n, k) ==
  /\ written' = written + n /\ written' <= AppBytes /\ written' - acked <= TxLen
  /\ k <= Len(inbox)
  /\ inbox' = SubSeq(inbox, k + 1, Len(inbox)) /\ read' = read + k
  /\ UNCHANGED <<peerAck, acked, eof>>

(* News from the network: the peer acknowledges bytes that were written,   *)
(* their room comes back, and the next n bytes of the peer's stream        *)
(* arrive, the end of the stream after the last one and never again.       *)
Hear(n, end) ==
  /\ peerAck' >= peerAck /\ peerAck' <= written
  /\ acked' >= acked /\ acked' <= peerAck'
  /\ n + Len(inbox) <= RxLen
  /\ inbox' = inbox \o PeerStream(read + Len(inbox), n)
  /\ eof => n = 0
  /\ end => read + Len(inbox) + n = PeerBytes
  /\ eof' = (eof \/ end)
  /\ UNCHANGED <<written, read>>

Next ==
  \/ \E n \in 0..TxLen, k \in 0..RxLen : Use(n, k)
  \/ \E n \in 0..RxLen, end \in BOOLEAN : Hear(n, end)

Spec == Init /\ [][Next]_vars
=============================================================================
