------------------------------- MODULE Flows -------------------------------
(***************************************************************************)
(* The protocol stage of the data path (firmware/flows.c): what one work   *)
(* item does to the TCP state of one connection (struct flowst_tcp_t).     *)
(* The stage runs a handler to completion on the state, so a handler is an *)
(* operator that takes the state and the work and gives                    *)
(*     [fs |-> the new state, res |-> the work_result for post-processing] *)
(*                                                                         *)
(* Fields are unsigned 32-bit words; here they are words modulo WordMod    *)
(* and every sum and difference wraps.  The model is of the build that     *)
(* firmware/config.h selects: ALLOW_FUTURE_ACKS, ALLOW_OOO_RECV and        *)
(* FORCE_SEND_WINUPDATE on, SKIP_ACK off.  Timestamps and the ECN bits are *)
(* copied between packets and do not influence the state; they are left    *)
(* out.                                                                    *)
(***************************************************************************)
EXTENDS Integers

CONSTANTS WordMod,    \* 2^32
          TcpMss,     \* TCP_MSS
          RxLen,      \* length of the receive buffer (rx_len)
          TxLen       \* length of the transmit buffer (tx_len)

(* The buffers are much smaller than the sequence space, and their lengths *)
(* divide it: positions are masked with len - 1 (prepare_dma_cmd).         *)
ASSUME FlowsAssumption ==
  /\ WordMod \in Nat /\ TcpMss \in Nat \ {0}
  /\ RxLen \in Nat \ {0} /\ TxLen \in Nat \ {0}
  /\ 4 * RxLen < WordMod /\ 4 * TxLen < WordMod
  /\ WordMod % RxLen = 0 /\ WordMod % TxLen = 0

Word == 0..(WordMod - 1)

Add(a, b) == (a + b) % WordMod
Sub(a, b) == (a - b) % WordMod
Least(a, b) == IF a <= b THEN a ELSE b

FlowState ==
  [tx_avail : Word, tx_remote_avail : Word, tx_sent : Word,
   tx_next_seq : Word, tx_next_pos : Word, dupack_cnt : 0..2,
   txfin : BOOLEAN, rxfin : BOOLEAN,
   rx_avail : Word, rx_next_seq : Word, rx_next_pos : Word,
   rx_ooo_len : Word, rx_ooo_start : Word]

(* The state nicif_connection_add writes.  The remote window is not known  *)
(* yet and is taken to be as large as our own receive buffer.              *)
NewFlow(local_seq, remote_seq) ==
  [tx_avail |-> 0, tx_remote_avail |-> RxLen, tx_sent |-> 0,
   tx_next_seq |-> local_seq, tx_next_pos |-> 0, dupack_cnt |-> 0,
   txfin |-> FALSE, rxfin |-> FALSE,
   rx_avail |-> RxLen, rx_next_seq |-> remote_seq, rx_next_pos |-> 0,
   rx_ooo_len |-> 0, rx_ooo_start |-> 0]

-----------------------------------------------------------------------------
(* Results.  flags holds the WORK_RESULT_ flags; dma is where payload goes *)
(* to or comes from, when DMA_PAYLOAD is set.                              *)

NoDma == [pos |-> 0, off |-> 0, len |-> 0]

(* tcp_txavail: bytes that can be sent if bump more are in the buffer.     *)
TxAvail(fs, bump) ==
  Least(Add(bump, fs.tx_avail), Sub(fs.tx_remote_avail, fs.tx_sent))

(* The common end of a handler: the queue manager is told of an increase   *)
(* of what can be sent, and the header fields are copied from the state.   *)
Finalize(old, fs, flags, rx_bump, tx_bump, dma) ==
  LET before == TxAvail(old, 0)
      after  == TxAvail(fs, 0)
  IN  [fs  |-> fs,
       res |-> [flags   |-> flags \cup (IF before < after THEN {"QM"} ELSE {}),
                qm_bump |-> IF before < after THEN after - before ELSE 0,
                rx_bump |-> rx_bump, tx_bump |-> tx_bump, dma |-> dma,
                seq |-> fs.tx_next_seq, ack |-> fs.rx_next_seq,
                win |-> fs.rx_avail]]

-----------------------------------------------------------------------------
(* Transmission, application bumps, retransmission.                        *)

(* flows_tx.  The sequence number and position of the segment are those    *)
(* before the step.                                                        *)
FlowsTx(fs, force) ==
  LET avail   == TxAvail(fs, 0)
      payload == Least(avail, TcpMss)
      fin     == fs.txfin /\ fs.tx_avail = 0
  IN  IF avail = 0 /\ ~force
      THEN Finalize(fs, fs, {}, 0, 0, NoDma)
      ELSE [fs  |-> [fs EXCEPT !.tx_next_seq = Add(@, payload),
                               !.tx_next_pos = Add(@, payload),
                               !.tx_sent     = Add(@, payload),
                               !.tx_avail    = Sub(@, payload)],
            res |-> [flags   |-> {"TX", "DMA_PAYLOAD"} \cup
                                 (IF fin THEN {"FIN"} ELSE {}),
                     qm_bump |-> 0, rx_bump |-> 0, tx_bump |-> 0,
                     dma |-> [pos |-> fs.tx_next_pos, off |-> 0,
                              len |-> IF fin THEN Sub(payload, 1) ELSE payload],
                     seq |-> fs.tx_next_seq, ack |-> fs.rx_next_seq,
                     win |-> fs.rx_avail]]

(* flows_ac: the application freed rx_bump bytes of its receive buffer and *)
(* filled tx_bump bytes of its transmit buffer.  A window that opens from  *)
(* nothing is announced with a forced segment.                             *)
FlowsAc(fs, rx_bump, tx_bump, fin) ==
  LET new    == [fs EXCEPT !.rx_avail = Add(@, rx_bump),
                           !.tx_avail = Add(@, tx_bump),
                           !.txfin    = @ \/ fin]
      reopen == TxAvail(fs, tx_bump) = 0 /\ fs.rx_avail = 0 /\ new.rx_avail # 0
  IN  Finalize(fs, new, IF reopen THEN {"QM_FORCE"} ELSE {}, 0, 0, NoDma)

(* Mutant: the position in the buffer is not taken back.                   *)
ResetRetransmitKeepPos(fs) ==
  [fs EXCEPT !.dupack_cnt      = 0,
             !.tx_avail        = Add(@, fs.tx_sent),
             !.tx_remote_avail = Add(@, fs.tx_sent),
             !.tx_next_seq     = Sub(@, fs.tx_sent),
             !.tx_sent         = 0]

(* flows_reset_retransmit: go back to the last acknowledged byte.          *)
ResetRetransmit(fs) ==
  [fs EXCEPT !.dupack_cnt      = 0,
             !.tx_avail        = Add(@, fs.tx_sent),
             !.tx_remote_avail = Add(@, fs.tx_sent),
             !.tx_next_seq     = Sub(@, fs.tx_sent),
             !.tx_next_pos     = Sub(@, fs.tx_sent),
             !.tx_sent         = 0]

(* flows_retx: the slow path's retransmission timeout.                     *)
FlowsRetx(fs) == Finalize(fs, ResetRetransmit(fs), {}, 0, 0, NoDma)

-----------------------------------------------------------------------------
(* Acknowledgements.                                                       *)

(* tcp_valid_rxack: how far ack is ahead of the first unacknowledged byte, *)
(* and whether bytes up to there exist.  After a retransmission was set up *)
(* an acknowledgement may be for bytes that count as unsent again.         *)
Hole(fs, ack) == Sub(ack, Sub(fs.tx_next_seq, fs.tx_sent))
AckValid(fs, ack) == Hole(fs, ack) <= Add(fs.tx_sent, fs.tx_avail)
AckBumpUnchecked(fs, ack) == Hole(fs, ack)
AckBump(fs, ack) == IF AckValid(fs, ack) THEN Hole(fs, ack) ELSE 0

(* Mutant: bytes acknowledged ahead of tx_sent stay in tx_avail.           *)
AckBytesKeepAvail(fs, bump) ==
  LET ahead == Sub(bump, fs.tx_sent)
  IN  IF bump < fs.tx_sent
      THEN [fs EXCEPT !.tx_sent = Sub(@, bump), !.dupack_cnt = 0]
      ELSE [fs EXCEPT !.tx_next_seq = Add(@, ahead),
                      !.tx_next_pos = Add(@, ahead),
                      !.tx_sent     = 0, !.dupack_cnt = 0]

(* bump # 0 bytes leave the transmit buffer; those beyond tx_sent are      *)
(* skipped.                                                                *)
AckBytes(fs, bump) ==
  LET ahead == Sub(bump, fs.tx_sent)
  IN  IF bump < fs.tx_sent
      THEN [fs EXCEPT !.tx_sent = Sub(@, bump), !.dupack_cnt = 0]
      ELSE [fs EXCEPT !.tx_next_seq = Add(@, ahead),
                      !.tx_next_pos = Add(@, ahead),
                      !.tx_avail    = Sub(@, ahead),
                      !.tx_sent     = 0, !.dupack_cnt = 0]

AckFlags(fs, bump) ==
  IF bump = 0 THEN {}
  ELSE {"DMA_ACDESC"} \cup (IF fs.tx_sent = 0 THEN {"TXP_ZERO"} ELSE {})

(* tcp_rxseq_inwindow *)
InWindow(fs, seq) == Sub(seq, fs.rx_next_seq) <= fs.rx_avail

TakeFin(fs) == [fs EXCEPT !.rxfin = TRUE, !.rx_next_seq = Add(@, 1)]

(* The third duplicate in a row starts a retransmission.                   *)
ThirdDup(fs) == fs.dupack_cnt >= 2

(* flows_ack: a packet without payload.                                    *)
FlowsAck(fs, pkt) ==
  LET bump  == AckBump(fs, pkt.ack)
      dup   == AckValid(fs, pkt.ack) /\ bump = 0
      acked == IF bump # 0 THEN AckBytes(fs, bump) ELSE
               IF dup THEN [fs EXCEPT !.dupack_cnt = @ + 1] ELSE fs
      flags == AckFlags(acked, bump)
      fresh == [acked EXCEPT !.tx_remote_avail = pkt.win]
      fin   == pkt.fin /\ ~fs.rxfin /\ fs.rx_ooo_len = 0
  IN  CASE ~InWindow(fs, pkt.seq) ->
             Finalize(fs, fs, {"TX"}, 0, 0, NoDma)
        [] InWindow(fs, pkt.seq) /\ dup /\ ThirdDup(fs) ->
             Finalize(fs, ResetRetransmit(fs), {"RETX"}, 0, 0, NoDma)
        [] InWindow(fs, pkt.seq) /\ ~(dup /\ ThirdDup(fs))
           /\ pkt.seq # fs.rx_next_seq ->
             Finalize(fs, acked, flags \cup {"TX"}, 0, bump, NoDma)
        [] OTHER ->
             IF fin
             THEN Finalize(fs, TakeFin(fresh),
                           flags \cup {"FIN", "TX", "DMA_ACDESC"}, 0, bump, NoDma)
             ELSE Finalize(fs, fresh, flags, 0, bump, NoDma)

-----------------------------------------------------------------------------
(* Payload.                                                                *)

(* Mutant: one byte too many is taken of data ahead of rx_next_seq.        *)
TrimLong(fs, seq, len) ==
  LET old   == Sub(fs.rx_next_seq, seq)
      ahead == Sub(seq, fs.rx_next_seq)
      avail == fs.rx_avail
  IN  IF old <= len
      THEN [drop |-> FALSE, front |-> old,
            back |-> IF len - old <= avail THEN 0 ELSE len - old - avail]
      ELSE [drop |-> ahead > avail, front |-> 0,
            back |-> IF avail - ahead + 1 >= len THEN 0
                     ELSE len - (avail - ahead + 1)]

(* tcp_trim_rxbuf: what to cut from the front and the end of len bytes at  *)
(* seq so that they fit the free part of the receive buffer.               *)
Trim(fs, seq, len) ==
  LET old   == Sub(fs.rx_next_seq, seq)
      ahead == Sub(seq, fs.rx_next_seq)
      avail == fs.rx_avail
  IN  IF old <= len
      THEN [drop |-> FALSE, front |-> old,
            back |-> IF len - old <= avail THEN 0 ELSE len - old - avail]
      ELSE [drop |-> ahead >= avail, front |-> 0,
            back |-> IF avail - ahead >= len THEN 0 ELSE len - (avail - ahead)]

(* The out-of-order interval takes len bytes at seq: when it is empty, or  *)
(* when they touch its start or its end.                                   *)
OooFront(fs, seq, len) ==
  fs.rx_ooo_len = 0 \/ Add(seq, len) = fs.rx_ooo_start
OooBack(fs, seq) == Add(fs.rx_ooo_start, fs.rx_ooo_len) = seq

StoreOoo(fs, seq, len) ==
  IF OooFront(fs, seq, len)
  THEN [fs EXCEPT !.rx_ooo_len = Add(@, len), !.rx_ooo_start = seq]
  ELSE IF OooBack(fs, seq)
  THEN [fs EXCEPT !.rx_ooo_len = Add(@, len)]
  ELSE fs

(* len bytes in order.                                                     *)
Advance(fs, len) ==
  [fs EXCEPT !.rx_avail    = Sub(@, len),
             !.rx_next_seq = Add(@, len),
             !.rx_next_pos = Add(@, len)]

(* Mutants: the interval is left as it was; a superfluous one is kept.     *)
TrimOooNever(fs) == fs
TrimOooKeepsOld(fs) ==
  LET t == Trim(fs, fs.rx_ooo_start, fs.rx_ooo_len)
  IN  IF fs.rx_ooo_len = 0 \/ t.drop THEN fs
      ELSE [fs EXCEPT !.rx_ooo_start = Add(@, t.front),
                      !.rx_ooo_len   = Sub(Sub(@, t.front), t.back)]

(* What is left of the out-of-order interval after rx_next_seq moved.      *)
TrimOoo(fs) ==
  LET t == Trim(fs, fs.rx_ooo_start, fs.rx_ooo_len)
  IN  IF fs.rx_ooo_len = 0 THEN fs
      ELSE IF t.drop THEN [fs EXCEPT !.rx_ooo_len = 0]
      ELSE [fs EXCEPT !.rx_ooo_start = Add(@, t.front),
                      !.rx_ooo_len   = Sub(Sub(@, t.front), t.back)]

(* How many bytes of it are now in order.                                  *)
Joins(fs) ==
  IF fs.rx_ooo_len > 0 /\ fs.rx_ooo_start = fs.rx_next_seq
  THEN fs.rx_ooo_len ELSE 0

JoinOooKeepsAvail(fs) ==
  IF Joins(fs) = 0 THEN fs
  ELSE [Advance(fs, Joins(fs)) EXCEPT !.rx_ooo_len = 0, !.rx_avail = fs.rx_avail]

JoinOoo(fs) ==
  IF Joins(fs) = 0 THEN fs
  ELSE [Advance(fs, Joins(fs)) EXCEPT !.rx_ooo_len = 0]

(* The FIN of a segment counts once all bytes before it are in order.      *)
FinInOrder(fs, pkt) ==
  fs.rx_next_seq = Add(pkt.seq, pkt.plen) /\ fs.rx_ooo_len = 0

(* The two outcomes of flows_seg for a segment that was not dropped: acked *)
(* is the state after the acknowledgement it carries; len bytes from       *)
(* offset front of the payload are new and fit.                            *)
SegOutOfOrder(fs, acked, flags, bump, seq, front, len) ==
  IF len # 0 /\ (OooFront(fs, seq, len) \/ OooBack(fs, seq))
  THEN Finalize(fs, StoreOoo(acked, seq, len), flags \cup {"DMA_PAYLOAD"}, 0, bump,
                [pos |-> Add(fs.rx_next_pos, Sub(seq, fs.rx_next_seq)),
                 off |-> front, len |-> len])
  ELSE Finalize(fs, acked, flags, 0, bump, NoDma)

SegInOrder(fs, acked, flags, bump, pkt, front, len) ==
  LET fresh   == [acked EXCEPT !.tx_remote_avail = pkt.win]
      trimmed == TrimOoo(Advance(fresh, len))
      joined  == IF len = 0 THEN fresh ELSE JoinOoo(trimmed)
      rx_bump == IF len = 0 THEN 0 ELSE len + Joins(trimmed)
      moved   == IF len = 0 THEN flags ELSE flags \cup {"DMA_PAYLOAD", "DMA_ACDESC"}
      dma     == IF len = 0 THEN NoDma
                 ELSE [pos |-> fs.rx_next_pos, off |-> front, len |-> len]
      fin     == pkt.fin /\ ~fs.rxfin /\ FinInOrder(joined, pkt)
  IN  CASE fs.rxfin /\ len # 0 ->
             Finalize(fs, fresh, flags, 0, bump, NoDma)
        [] ~(fs.rxfin /\ len # 0) /\ fin ->
             Finalize(fs, TakeFin(joined), moved \cup {"FIN", "DMA_ACDESC"},
                      rx_bump, bump, dma)
        [] OTHER ->
             Finalize(fs, joined, moved, rx_bump, bump, dma)

(* flows_seg: a packet with payload.  It is always answered.               *)
FlowsSeg(fs, pkt) ==
  LET t     == Trim(fs, pkt.seq, pkt.plen)
      bump  == AckBump(fs, pkt.ack)
      acked == IF bump # 0 THEN AckBytes(fs, bump) ELSE fs
      flags == {"TX"} \cup AckFlags(acked, bump)
      len   == pkt.plen - (t.front + t.back)
      seq   == Add(pkt.seq, t.front)
  IN  CASE t.drop ->
             Finalize(fs, fs, {"TX"}, 0, 0, NoDma)
        [] ~t.drop /\ seq # fs.rx_next_seq ->
             SegOutOfOrder(fs, acked, flags, bump, seq, t.front, len)
        [] OTHER ->
             SegInOrder(fs, acked, flags, bump, pkt, t.front, len)

(* An RX work item: the pre-processor's summary decides the handler.       *)
FlowsRx(fs, pkt) ==
  IF pkt.plen = 0 THEN FlowsAck(fs, pkt) ELSE FlowsSeg(fs, pkt)
=============================================================================
