----------------------------- MODULE FlowProto -----------------------------
(***************************************************************************)
(* One established connection: the protocol stage of Flows between its     *)
(* application and its peer.                                               *)
(*                                                                         *)
(* The application writes a stream of AppBytes bytes through its transmit  *)
(* buffer and reads the peer's stream of PeerBytes bytes and a FIN from    *)
(* its receive buffer.  It learns only what descriptors with DMA_ACDESC    *)
(* tell it, and hands back only room it was given.  The network loses,     *)
(* duplicates and reorders: any segment of the peer's stream, and any      *)
(* acknowledgement the peer may have sent, can arrive at any time, with    *)
(* any window the peer may have announced.                                 *)
(*                                                                         *)
(* Streams are numbered from 0; byte b of the peer's stream is the value b *)
(* in the receive buffer.                                                  *)
(***************************************************************************)
EXTENDS Flows

CONSTANTS Isn, PeerIsn,   \* sequence number of byte 0 of each stream
          AppBytes,       \* bytes the application writes
          PeerBytes,      \* bytes the peer writes before its FIN
          MaxSeg,         \* largest segment the peer sends
          Windows         \* windows the peer announces

(* No byte of a stream can be mistaken for another one: duplicates older   *)
(* than a sequence-number cycle are ruled out.                             *)
ASSUME FlowProtoAssumption ==
  /\ Isn \in Word /\ PeerIsn \in Word
  /\ AppBytes \in Nat /\ PeerBytes \in Nat /\ MaxSeg \in Nat
  /\ AppBytes + TxLen < WordMod /\ PeerBytes + MaxSeg + RxLen + 1 < WordMod
  /\ Windows \subseteq Word

VARIABLES
  fs,         \* struct flowst_tcp_t
  written,    \* bytes the application put into the transmit buffer
  acked,      \* bytes of them it was told are acknowledged
  sndMax,     \* bytes of them that were ever sent
  peerAck,    \* largest acknowledgement the peer sent
  delivered,  \* bytes of the peer's stream the application was told of
  read,       \* bytes of them it has read and freed
  eof,        \* it was told of the peer's FIN
  rxbuf       \* the receive buffer: stream byte at each position

vars == <<fs, written, acked, sndMax, peerAck, delivered, read, eof, rxbuf>>
txVars == <<written, acked, sndMax, peerAck>>

Empty == -1

TypeOK ==
  /\ fs \in FlowState
  /\ written \in 0..AppBytes /\ acked \in 0..AppBytes
  /\ sndMax \in 0..AppBytes /\ peerAck \in 0..AppBytes
  /\ delivered \in Nat /\ read \in Nat /\ eof \in BOOLEAN
  /\ rxbuf \in [0..(RxLen - 1) -> Nat \cup {Empty}]

Init ==
  /\ fs = NewFlow(Isn, PeerIsn)
  /\ written = 0 /\ acked = 0 /\ sndMax = 0 /\ peerAck = 0
  /\ delivered = 0 /\ read = 0 /\ eof = FALSE
  /\ rxbuf = [p \in 0..(RxLen - 1) |-> Empty]

-----------------------------------------------------------------------------
(* The host side of a result: payload lands in the receive buffer (the     *)
(* position is masked with the buffer length), a descriptor reaches the    *)
(* application.                                                            *)
PlacePayload(res, from) ==
  rxbuf' = IF "DMA_PAYLOAD" \in res.flags
           THEN [p \in 0..(RxLen - 1) |->
                  LET i == (p - res.dma.pos) % RxLen
                  IN  IF i < res.dma.len THEN from + res.dma.off + i ELSE rxbuf[p]]
           ELSE rxbuf

Notify(res) ==
  IF "DMA_ACDESC" \in res.flags
  THEN /\ acked' = acked + res.tx_bump
       /\ delivered' = delivered + res.rx_bump
       /\ eof' = (eof \/ "FIN" \in res.flags)
  ELSE UNCHANGED <<acked, delivered, eof>>

(* A packet from the peer: plen bytes of its stream at offset from.        *)
Packet(from, plen, fin, ack, win) ==
  [seq |-> Add(PeerIsn, from), plen |-> plen, fin |-> fin,
   ack |-> Add(Isn, ack), win |-> win]

Receive(from, plen, fin, ack, win) ==
  \E r \in {FlowsRx(fs, Packet(from, plen, fin, ack, win))} :
      /\ fs' = r.fs
      /\ PlacePayload(r.res, from)
      /\ Notify(r.res)
      /\ peerAck' = IF peerAck < ack THEN ack ELSE peerAck
      /\ UNCHANGED <<written, sndMax, read>>

RecvSeg ==
  \E from \in 0..(PeerBytes - 1), plen \in 1..MaxSeg, fin \in BOOLEAN,
     ack \in 0..sndMax, win \in Windows :
       /\ from + plen <= PeerBytes
       /\ fin => from + plen = PeerBytes
       /\ Receive(from, plen, fin, ack, win)

RecvAck ==
  \E from \in 0..(PeerBytes + 1), fin \in BOOLEAN,
     ack \in 0..sndMax, win \in Windows :
       /\ fin => from = PeerBytes
       /\ Receive(from, 0, fin, ack, win)

(* The scheduler gives the flow a transmit opportunity, or post-processing *)
(* forces a window update.                                                 *)
Transmit(force) ==
  LET r    == FlowsTx(fs, force)
      last == acked + r.fs.tx_sent
  IN  /\ "TX" \in r.res.flags
      /\ fs' = r.fs
      /\ sndMax' = IF sndMax < last THEN last ELSE sndMax
      /\ UNCHANGED <<written, acked, peerAck, delivered, read, eof, rxbuf>>

Retransmit ==
  /\ fs' = FlowsRetx(fs).fs
  /\ UNCHANGED <<txVars, delivered, read, eof, rxbuf>>

(* The application: libTAS never passes FLTXDONE down (conns_bump).        *)
AppBump(rx_bump, tx_bump) ==
  /\ rx_bump + tx_bump > 0
  /\ fs' = FlowsAc(fs, rx_bump, tx_bump, FALSE).fs
  /\ written' = written + tx_bump
  /\ read' = read + rx_bump
  /\ UNCHANGED <<acked, sndMax, peerAck, delivered, eof, rxbuf>>

App ==
  \E rx_bump \in 0..(delivered - read), tx_bump \in 0..(TxLen - (written - acked)) :
    written + tx_bump <= AppBytes /\ AppBump(rx_bump, tx_bump)

Next ==
  \/ RecvSeg \/ RecvAck \/ Retransmit \/ App
  \/ \E force \in BOOLEAN : Transmit(force)

Spec == Init /\ [][Next]_vars

-----------------------------------------------------------------------------
(* Transmit accounting.  Every byte of the transmit buffer is accounted    *)
(* for exactly once: what the application wrote and was not told is        *)
(* acknowledged is either waiting in tx_avail or in flight in tx_sent,     *)
(* whatever acknowledgements, duplicates and retransmissions came between. *)
TxAccounting == fs.tx_avail + fs.tx_sent = written - acked

(* The byte flows_tx sends next is the one its sequence number says: both  *)
(* tx_next_seq and tx_next_pos point at byte acked + tx_sent of the stream *)
(* across go-back-N resets and acknowledgements of bytes that count as     *)
(* unsent again (ALLOW_FUTURE_ACKS).                                       *)
TxAligned ==
  /\ fs.tx_next_seq = Add(Isn, acked + fs.tx_sent)
  /\ fs.tx_next_pos = (acked + fs.tx_sent) % WordMod

(* The application reuses room in its transmit buffer only for bytes the   *)
(* peer really acknowledged: an old or duplicate acknowledgement is never  *)
(* taken for a new one by tcp_valid_rxack.                                 *)
AckSound == acked <= peerAck

(* Receive accounting.  The window flows_* announce (rx_avail) is exactly  *)
(* the part of the receive buffer the application was not given or has     *)
(* handed back.                                                            *)
RxAccounting == fs.rx_avail = RxLen - (delivered - read)

(* The out-of-order interval lies in the announced window beyond           *)
(* rx_next_seq and its bytes are in the buffer, so that joining it hands   *)
(* the application bytes that did arrive.                                  *)
OooIntact ==
  LET gap == Sub(fs.rx_ooo_start, fs.rx_next_seq)
  IN  fs.rx_ooo_len # 0 =>
        /\ gap > 0 /\ gap + fs.rx_ooo_len <= fs.rx_avail
        /\ \A b \in 0..(PeerBytes - 1) :
             delivered + gap <= b /\ b < delivered + gap + fs.rx_ooo_len =>
               rxbuf[b % RxLen] = b

(* The application's unread bytes, where its receive buffer has them.      *)
Inbox == [i \in 1..(delivered - read) |-> rxbuf[(read + i - 1) % RxLen]]

Stream == INSTANCE ByteStream WITH inbox <- Inbox

(* The protocol stage implements the abstract connection.  Whatever is     *)
(* lost, duplicated, reordered, trimmed, stored out of order or            *)
(* retransmitted, the application is handed exactly the peer's bytes, in   *)
(* order, from its receive buffer, the end of the stream once and after    *)
(* all of them, and gets room back only for bytes the peer acknowledged.   *)
ImplementsByteStream == Stream!Spec

(* The peer's right window edge: no byte is sent beyond the largest        *)
(* acknowledgement plus the largest window the peer ever announced.        *)
WithinPeerWindow ==
  \E w \in Windows \cup {RxLen} : sndMax - peerAck <= w

-----------------------------------------------------------------------------
(* Progress of the receive side.  The peer retransmits its first           *)
(* unacknowledged bytes while the announced window is open, and its FIN;   *)
(* the application keeps reading; packets of old transmissions arrive in   *)
(* any order but not for ever.                                             *)
PeerRetransmits ==
  \E win \in Windows :
    \/ /\ delivered < PeerBytes /\ fs.rx_avail > 0
       /\ Receive(delivered, 1, FALSE, 0, win)
    \/ /\ delivered = PeerBytes /\ ~eof
       /\ Receive(delivered, 0, TRUE, 0, win)

(* Whether PeerRetransmits can take a step that changes the state; what    *)
(* weak fairness asks, without ENABLED, which is slow to evaluate here.    *)
CanRetransmit ==
  \E win \in Windows :
    \/ /\ delivered < PeerBytes /\ fs.rx_avail > 0
       /\ FlowsRx(fs, Packet(delivered, 1, FALSE, 0, win)).fs # fs
    \/ /\ delivered = PeerBytes /\ ~eof
       /\ FlowsRx(fs, Packet(delivered, 0, TRUE, 0, win)).fs # fs

PeerFairness == []<>~CanRetransmit \/ []<><<PeerRetransmits>>_vars

AppReads == delivered > read /\ AppBump(delivered - read, 0)

OldPacketsDie == <>[][PeerRetransmits \/ App]_vars

FairSpec ==
  Spec /\ PeerFairness /\ WF_vars(AppReads) /\ OldPacketsDie

(* The application eventually gets the whole stream and its end: no        *)
(* combination of reordered segments leaves an out-of-order interval that  *)
(* blocks the FIN or a window that stays closed.                           *)
StreamCompletes == <>(delivered = PeerBytes /\ read = PeerBytes /\ eof)
=============================================================================
