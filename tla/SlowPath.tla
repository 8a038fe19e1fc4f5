------------------------------ MODULE SlowPath ------------------------------
(***************************************************************************)
(* The two rings between the slow path (user/nicif.c) and the NIC          *)
(* (firmware/slowpath_if.c), and the recovery from loss that runs over     *)
(* them: cc_poll (user/cc.c) finds a flow that has sent and hears nothing, *)
(* and queues a command to retransmit it.                                  *)
(*                                                                         *)
(* The slow path is one thread that runs the phases of its main loop       *)
(* (user/slowpath.c); on the NIC one context serves each ring.  A DMA is   *)
(* one step, and so is a write to NIC memory.  Commands and packets are    *)
(* numbered, and a buffer holds the number of what was put there.          *)
(***************************************************************************)
EXTENDS Integers, Sequences, Functions

CONSTANTS
  Conns,       \* connections, each with a flow of its own
  NULL,        \* no connection
  TxqLen, RxqLen,   \* nic_tx_len, nic_rx_len
  RexmitInts,  \* cc_rexmit_ints
  Loads        \* what may happen in a run: see Init

ASSUME SlowPathAssumption ==
  /\ NULL \notin Conns
  /\ \A n \in {TxqLen, RxqLen, RexmitInts} : n \in Nat /\ n > 1

VARIABLES
  phase,      \* of the main loop
  txq, txbuf, \* transmit descriptors and their buffers
  txq_tail,   \* the slow path's tail
  tx_tail,    \* fp_state.spctx.tx_tail: the doorbell
  rxq, rxbuf, \* receive descriptors and their buffers
  rxq_head,   \* the slow path's head
  rx_head,    \* fp_state.spctx.rx_head: the doorbell
  ntx,        \* the NIC's transmit context: head, cached tail, step, command
  nrx,        \* the NIC's receive context: tail, cached head, step
  cc_conns, next_conn,  \* the list and the cursor of cc_poll
  cur,        \* the loop of cc_poll: connection, c_first and n
  conn,       \* struct connection of each
  flow,       \* the flow of each on the NIC, and cc_info
  load,       \* what may still happen
  issued, done, served, \* commands queued, processed; packets processed
  overrun     \* a command took the last free slot of the transmit ring

ccVars == <<cc_conns, next_conn, cur, conn>>
txVars == <<txq, txbuf, txq_tail, issued, overrun>>
rxVars == <<rxq, rxbuf, rxq_head, rx_head, nrx, served>>
vars == <<phase, txVars, tx_tail, rxVars, ntx, done, ccVars, flow, load>>

NoTurn == [c |-> NULL, first |-> NULL, n |-> 0]
INVALID == [type |-> "INVALID"]
Succ(i, len) == IF i + 1 >= len THEN 0 ELSE i + 1
(* Numbers of commands: more than the ring can hold, so they never meet.   *)
Ids == 2 * TxqLen
NextId(i) == (i + 1) % Ids

(* adminq_init, with some connections set up.  A load gives the packets    *)
(* that arrive, the control packets that timers and requests send, the     *)
(* connections that are open, may open, may close, and send, and how many  *)
(* of them one cc_poll looks at (128).                                     *)
Init ==
  /\ load \in Loads
  /\ phase = "nicif"
  /\ txq = [i \in 0..(TxqLen - 1) |-> INVALID] /\ txbuf = [i \in 0..(TxqLen - 1) |-> Ids]
  /\ txq_tail = 0 /\ tx_tail = 0
  /\ rxq = [i \in 0..(RxqLen - 1) |-> 0] /\ rxbuf = [i \in 0..(RxqLen - 1) |-> 0]
  /\ rxq_head = 0 /\ rx_head = 0
  /\ ntx = [head |-> 0, tail |-> 0, pc |-> "poll", idx |-> 0, cmd |-> INVALID]
  /\ nrx = [tail |-> 0, head |-> 0, pc |-> "poll", idx |-> 0, taken |-> 0]
  /\ cc_conns = load.open /\ next_conn = NULL /\ cur = NoTurn
  /\ conn = [c \in Conns |->
               [status |-> IF c \in Range(load.open) THEN "open" ELSE "new", cnt |-> 0]]
  /\ flow = [c \in Conns |-> [txp |-> FALSE, acked |-> FALSE, retx |-> FALSE]]
  /\ issued = 0 /\ done = 0 /\ served = 0
  /\ overrun = FALSE

-----------------------------------------------------------------------------
(* The slow path: the transmit ring.  Every command is written to its slot *)
(* first and then announced, before the thread does anything else.         *)

Idle(p) == phase = p /\ tx_tail = txq_tail

(* sptx_try_alloc: the slot at the tail is free when its type is INVALID.  *)
Full == txq[txq_tail] # INVALID

(* A command is allocated and written, a packet into the slot's buffer.    *)
Put(type, c) ==
  /\ txq' = [txq EXCEPT ![txq_tail] = [type |-> type, id |-> issued, conn |-> c]]
  /\ txbuf' = IF type = "PACKET" THEN [txbuf EXCEPT ![txq_tail] = issued] ELSE txbuf
  /\ txq_tail' = Succ(txq_tail, TxqLen)
  /\ issued' = NextId(issued)
  /\ overrun' = (overrun \/ txq_tail' = ntx.head)

TryPut(type, c) == IF Full THEN UNCHANGED txVars ELSE Put(type, c)

(* The doorbell to the consumer.                                           *)
Doorbell ==
  /\ tx_tail # txq_tail /\ tx_tail' = txq_tail
  /\ UNCHANGED <<phase, txVars, rxVars, ntx, done, ccVars, flow, load>>

-----------------------------------------------------------------------------
(* The slow path: nicif_poll.                                              *)

(* rxq_poll and process_packet; an answer that finds no slot is dropped.   *)
process_packet ==
  /\ Idle("nicif") /\ rxq[rxq_head] # 0
  /\ phase' = "release" /\ served' = served + 1
  /\ (UNCHANGED txVars \/ TryPut("PACKET", NULL))
  /\ UNCHANGED <<rxq, rxbuf, rxq_head, rx_head, nrx, tx_tail, ntx, done, ccVars, flow, load>>

(* The rest of rxq_poll: the descriptor is invalidated ...                 *)
rxq_invalidate ==
  /\ Idle("release") /\ phase' = "rx_bell"
  /\ rxq' = [rxq EXCEPT ![rxq_head] = 0]
  /\ rxq_head' = Succ(rxq_head, RxqLen)
  /\ UNCHANGED <<txVars, tx_tail, rxbuf, rx_head, nrx, served, ntx, done, ccVars, flow, load>>

(* ... and the NIC told.                                                   *)
rxq_release ==
  /\ Idle("rx_bell") /\ phase' = "nicif" /\ rx_head' = rxq_head
  /\ UNCHANGED <<txVars, tx_tail, rxq, rxbuf, rxq_head, nrx, served, ntx, done, ccVars, flow, load>>

(* After 512 looks at the ring, of which any number found a packet: on to  *)
(* cc_poll, which starts at the cursor or the first connection, if there   *)
(* is one.                                                                 *)
cc_poll_start ==
  LET first == IF next_conn # NULL THEN next_conn
               ELSE IF cc_conns # <<>> THEN Head(cc_conns) ELSE NULL IN
  /\ Idle("nicif") /\ phase' = IF first = NULL THEN "app" ELSE "cc"
  /\ cur' = [c |-> first, first |-> first, n |-> 0]
  /\ UNCHANGED <<txVars, tx_tail, rxVars, ntx, done, cc_conns, next_conn, conn, flow, load>>

-----------------------------------------------------------------------------
(* The slow path: cc_poll.                                                 *)

(* c->cc_next, and the first connection after the last.                    *)
Place(c) == CHOOSE i \in DOMAIN cc_conns : cc_conns[i] = c
CcNext(c) == IF Place(c) = Len(cc_conns) THEN NULL ELSE cc_conns[Place(c) + 1]
Around(c) == IF CcNext(c) = NULL THEN Head(cc_conns) ELSE CcNext(c)

(* issue_retransmits: cnt_tx_pending stays at RexmitInts - 1 once it is    *)
(* there, and aged says that 2 RTTs have passed since ts_tx_pending.       *)
issue_retransmits(c, aged) ==
  LET cnt == conn[c].cnt
      more == IF cnt + 1 < RexmitInts THEN cnt + 1 ELSE cnt
      stalled == flow[c].txp /\ ~flow[c].acked
      retry == stalled /\ cnt > 0 /\ cnt + 1 >= RexmitInts /\ aged IN
  /\ IF retry THEN TryPut("CONN_RETX", c) ELSE UNCHANGED txVars
  /\ conn' = [conn EXCEPT ![c].cnt = IF ~stalled \/ (retry /\ ~Full) THEN 0 ELSE more]

(* Mutant: every call starts at the same connection.                       *)
cc_poll_end_stuck == next_conn' = cur.first

(* cc_poll leaves the cursor behind the last connection it looked at.      *)
cc_poll_end == next_conn' = Around(cur.c)

(* The loop goes on to the next connection, or cc_poll is over.            *)
cc_poll_next ==
  /\ IF cur.n + 1 < load.cap /\ Around(cur.c) # cur.first
     THEN cur' = [cur EXCEPT !.c = Around(cur.c), !.n = @ + 1] /\ UNCHANGED <<phase, next_conn>>
     ELSE cur' = NoTurn /\ phase' = "app" /\ cc_poll_end
  /\ UNCHANGED <<tx_tail, rxVars, ntx, done, cc_conns, load>>

(* A turn of the loop of cc_poll: the control interval of the connection   *)
(* is over ...                                                             *)
cc_poll_conn(c, aged) ==
  /\ Idle("cc") /\ cur.c = c /\ conn[c].status = "open"
  /\ issue_retransmits(c, aged)
  /\ flow' = [flow EXCEPT ![c].acked = FALSE]
  /\ cc_poll_next

(* ... or it is not, or the connection is not open.                        *)
cc_poll_skip ==
  /\ Idle("cc") /\ cc_poll_next /\ UNCHANGED <<txVars, conn, flow>>

-----------------------------------------------------------------------------
(* The slow path: the rest of the main loop, as far as it touches the ring *)
(* or the connections.                                                     *)

(* A control packet: a request of an application, a timer, or the reset    *)
(* that tcp_close sends when a direction is still open.                    *)
send_control_raw ==
  /\ \/ Idle("app") /\ load.ctl > 0 /\ load' = [load EXCEPT !.ctl = @ - 1]
     \/ Idle("reset") /\ UNCHANGED load
  /\ phase' = "app" /\ TryPut("PACKET", NULL)
  /\ UNCHANGED <<tx_tail, rxVars, ntx, done, ccVars, flow>>

(* cc_conn_init, then nicif_connection_add with its FLOWHT_ADD.  What a    *)
(* full ring does here is part of Tcp.                                     *)
cc_conn_init(c) ==
  /\ Idle("app") /\ conn[c].status = "new" /\ c \in load.opens /\ ~Full
  /\ cc_conns' = <<c>> \o cc_conns
  /\ conn' = [conn EXCEPT ![c].status = "open"]
  /\ Put("FLOWHT_ADD", c)
  /\ UNCHANGED <<phase, tx_tail, rxVars, ntx, done, next_conn, cur, flow, load>>

(* tcp_close: nicif_connection_disable with its CONN_CLOSE, without which  *)
(* it gives up, a reset or none, and cc_conn_remove.                       *)
cc_conn_remove(c) ==
  /\ Idle("app") /\ conn[c].status = "open" /\ c \in load.closes /\ ~Full
  /\ next_conn' = IF next_conn = c THEN CcNext(c) ELSE next_conn
  /\ cc_conns' = SelectSeq(cc_conns, LAMBDA d : d # c)
  /\ conn' = [conn EXCEPT ![c].status = "closed"]
  /\ phase' \in {"app", "reset"} /\ Put("CONN_CLOSE", c)
  /\ UNCHANGED <<tx_tail, rxVars, ntx, done, cur, flow, load>>

Loop ==
  /\ Idle("app") /\ phase' = "nicif"
  /\ UNCHANGED <<txVars, tx_tail, rxVars, ntx, done, ccVars, flow, load>>

-----------------------------------------------------------------------------
(* The NIC: poll_tx_slowpath, on a context of its own.                     *)

NtxStep == UNCHANGED <<phase, txbuf, txq_tail, issued, overrun, tx_tail, rxVars, ccVars, load>>

(* The ring looks empty: read the tail.                                    *)
tx_refresh ==
  /\ ntx.pc = "poll" /\ ntx.head = ntx.tail /\ ntx.tail # tx_tail
  /\ ntx' = [ntx EXCEPT !.tail = tx_tail]
  /\ UNCHANGED <<txq, done, flow>> /\ NtxStep

(* Take the slot at the head and fetch its descriptor ...                  *)
tx_take ==
  /\ ntx.pc = "poll" /\ ntx.head # ntx.tail
  /\ ntx' = [ntx EXCEPT !.pc = "null", !.idx = ntx.head, !.cmd = txq[ntx.head],
                        !.head = Succ(@, TxqLen)]
  /\ UNCHANGED <<txq, done, flow>> /\ NtxStep

(* Mutant: the null descriptor goes to the slot after it.                  *)
tx_null_next ==
  /\ ntx.pc = "null" /\ ntx' = [ntx EXCEPT !.pc = "process"]
  /\ txq' = [txq EXCEPT ![ntx.head] = INVALID]
  /\ UNCHANGED <<done, flow>> /\ NtxStep

(* ... write the null descriptor ...                                       *)
tx_null ==
  /\ ntx.pc = "null" /\ ntx' = [ntx EXCEPT !.pc = "process"]
  /\ txq' = [txq EXCEPT ![ntx.idx] = INVALID]
  /\ UNCHANGED <<done, flow>> /\ NtxStep

(* ... and process the command: a packet is fetched from the buffer of the *)
(* slot and sent, a retransmission goes to the ring of the flow's group.   *)
(* The other types change nothing here.  Bound: a flow has at most one     *)
(* retransmission in that ring, and the next one waits.                    *)
process_sptx_descriptor ==
  /\ ntx.pc = "process" /\ ntx' = [ntx EXCEPT !.pc = "poll", !.cmd = INVALID]
  /\ ntx.cmd.type = "CONN_RETX" => ~flow[ntx.cmd.conn].retx
  /\ done' = IF ntx.cmd = INVALID THEN done ELSE NextId(done)
  /\ flow' = IF ntx.cmd.type = "CONN_RETX"
             THEN [flow EXCEPT ![ntx.cmd.conn].retx = TRUE] ELSE flow
  /\ UNCHANGED txq /\ NtxStep

-----------------------------------------------------------------------------
(* The NIC: poll_rx_slowpath, on a context of its own.                     *)

NrxStep == UNCHANGED <<phase, txVars, tx_tail, rxq_head, rx_head, served, ntx, done, ccVars, flow, load>>

(* One slot stays free, by the head that was read last.                    *)
Room == Succ(nrx.tail, RxqLen) # nrx.head

(* A packet waits in flow_ring_sp and finds the ring full: read the head.  *)
rx_refresh ==
  /\ nrx.pc = "poll" /\ nrx.taken < load.rx /\ ~Room /\ nrx.head # rx_head
  /\ nrx' = [nrx EXCEPT !.head = rx_head]
  /\ UNCHANGED <<rxq, rxbuf>> /\ NrxStep

(* The packet goes to the buffer of the slot at the tail ...               *)
rx_payload ==
  /\ nrx.pc = "poll" /\ nrx.taken < load.rx /\ Room
  /\ nrx' = [nrx EXCEPT !.pc = "desc", !.idx = nrx.tail, !.taken = @ + 1,
                        !.tail = Succ(@, RxqLen)]
  /\ rxbuf' = [rxbuf EXCEPT ![nrx.tail] = nrx.taken + 1]
  /\ UNCHANGED rxq /\ NrxStep

(* ... and then its descriptor to the slot.                                *)
rx_desc ==
  /\ nrx.pc = "desc" /\ nrx' = [nrx EXCEPT !.pc = "poll"]
  /\ rxq' = [rxq EXCEPT ![nrx.idx] = nrx.taken]
  /\ UNCHANGED rxbuf /\ NrxStep

-----------------------------------------------------------------------------
(* The NIC's flows, as far as cc_poll sees them in cc_info: txp says that  *)
(* bytes are under way, acked that cnt_rx_ack_bytes has grown since the    *)
(* last look.  Segments are sent and acknowledged, or not, at any time.    *)
(* Bound: not after an overrun, which ends what is promised of the flows.  *)

FlowStep == UNCHANGED <<phase, txVars, tx_tail, rxVars, ntx, done, ccVars, load>>

(* postprocess_tx: a segment was sent.                                     *)
postprocess_tx(c) ==
  /\ conn[c].status = "open" /\ c \in load.busy /\ ~overrun /\ ~flow[c].txp
  /\ flow' = [flow EXCEPT ![c].txp = TRUE] /\ FlowStep

(* collect_cc_stats: bytes were acknowledged, or nothing is under way any  *)
(* more: all was acknowledged, or duplicates made the NIC retransmit.      *)
(* Results of several contexts come in any order.                          *)
collect_cc_stats(c, acked, zero) ==
  /\ c \in load.busy /\ ~overrun /\ (acked \/ zero)
  /\ flow' = [flow EXCEPT ![c].acked = @ \/ acked, ![c].txp = @ /\ ~zero] /\ FlowStep

(* flows_retx and postprocess_retx: nothing is under way any more.         *)
postprocess_retx(c) ==
  /\ flow[c].retx
  /\ flow' = [flow EXCEPT ![c].retx = FALSE, ![c].txp = FALSE] /\ FlowStep

-----------------------------------------------------------------------------
Host ==
  \/ Doorbell \/ process_packet \/ rxq_invalidate \/ rxq_release
  \/ cc_poll_start \/ cc_poll_skip \/ send_control_raw \/ Loop
  \/ \E c \in Conns : \/ cc_conn_init(c) \/ cc_conn_remove(c)
                      \/ \E aged \in BOOLEAN : cc_poll_conn(c, aged)
NicTx == tx_refresh \/ tx_take \/ tx_null \/ process_sptx_descriptor
NicRx == rx_refresh \/ rx_payload \/ rx_desc
Next ==
  \/ Host \/ NicTx \/ NicRx
  \/ \E c \in Conns :
       \/ postprocess_tx(c) \/ postprocess_retx(c)
       \/ \E acked, zero \in BOOLEAN : collect_cc_stats(c, acked, zero)
Spec == Init /\ [][Next]_vars

(* The main loop and the contexts never stop, nicif_poll looks at the ring *)
(* every time, and time passes: a connection that cc_poll comes to again   *)
(* and again is due at times, with 2 RTTs behind it if it waits.           *)
FairSpec ==
  /\ Spec /\ WF_vars(Host) /\ WF_vars(NicTx) /\ WF_vars(NicRx) /\ SF_vars(process_packet)
  /\ \A c \in Conns : WF_vars(postprocess_retx(c)) /\ SF_vars(cc_poll_conn(c, TRUE))

-----------------------------------------------------------------------------
InHand == ntx.pc # "poll"
Intact(cmd, i, id) ==
  cmd # INVALID /\ cmd.id = id /\ (cmd.type = "PACKET" => txbuf[i] = id)

(* The NIC gets every command of the slow path exactly once, in order, and *)
(* a packet with the bytes written for it: the slots from its head to the  *)
(* tail of sptx_try_alloc hold the commands queued and not yet taken, with *)
(* their buffers, and the buffer of the one in hand is left alone until it *)
(* is sent.  Except once a command has taken the last free slot, which     *)
(* makes the full ring look empty (head = tail) to poll_tx_slowpath.       *)
TxInOrder ==
  LET waiting == (txq_tail - ntx.head) % TxqLen
      first == IF InHand THEN NextId(done) ELSE done IN
  overrun \/
  /\ InHand => Intact(ntx.cmd, ntx.idx, done)
  /\ \A k \in 0..(waiting - 1) :
       LET i == (ntx.head + k) % TxqLen IN Intact(txq[i], i, (first + k) % Ids)
  /\ issued = (first + waiting) % Ids

(* The slow path gets every packet of flow_ring_sp exactly once, in order  *)
(* and whole: a descriptor is visible only over the packet it describes,   *)
(* no slot is written while rxq_poll may still read it, and no invalid     *)
(* descriptor hides a packet, however the two sides lag behind each other. *)
RxInOrder ==
  LET first == IF phase = "release" THEN served ELSE served + 1
      waiting == (nrx.tail - rxq_head) % RxqLen IN
  /\ nrx.taken = first + waiting - 1
  /\ \A k \in 0..(RxqLen - 1) :
       LET i == (rxq_head + k) % RxqLen
           landed == k < waiting /\ ~(nrx.pc = "desc" /\ i = nrx.idx) IN
       /\ k < waiting => rxbuf[i] = first + k
       /\ rxq[i] = IF landed THEN first + k ELSE 0

(* Each ring between slow path and NIC delivers everything once, in order  *)
(* and whole (sptx_try_alloc and poll_tx_slowpath; poll_rx_slowpath and    *)
(* rxq_poll), though both sides work with stale copies of the other's      *)
(* position.                                                               *)
RingsInOrder == TxInOrder /\ RxInOrder

(* Loss is recovered and no packet is left behind.  A connection with      *)
(* bytes under way that hears nothing is retransmitted: cc_poll comes      *)
(* round to it however many others there are and however they come and go, *)
(* counts the silent intervals and tries again after a full ring, and its  *)
(* command gets through.  Every packet for the slow path is processed.     *)
(* Except for retransmissions once the transmit ring was overrun.          *)
LossRecovered ==
  /\ \A c \in Conns :
       conn[c].status = "open" /\ flow[c].txp ~>
         ~flow[c].txp \/ flow[c].acked \/ conn[c].status = "closed" \/ overrun
  /\ <>(served = load.rx)
=============================================================================
