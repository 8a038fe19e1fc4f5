------------------------------- MODULE LibTas -------------------------------
(***************************************************************************)
(* libTAS (lib/tas/conn.c, init.c): the connections of one application     *)
(* context, their buffer accounting, and the four queues they share with   *)
(* the slow path (spin, spout) and the NIC (arx, atx).                     *)
(*                                                                         *)
(* Bytes are counted, not represented.  A context belongs to one thread,   *)
(* so a call is one step; flextcp_context_poll is one step per queue entry,*)
(* since NIC and slow path run beside it.  Slow path and NIC are modelled  *)
(* by what libTAS sees of them: the NIC keeps a receive window and a count *)
(* of unacknowledged bytes per flow.  The transmit queue is a bounded      *)
(* sequence; that its slots are nulled in order is HostIf's subject.       *)
(***************************************************************************)
EXTENDS Integers, SequencesExt

CONSTANTS
  Conns,      \* connection objects, each used for one connection
  NULL,       \* the null pointer
  RxLen,      \* bytes of a receive buffer
  TxLen,      \* bytes of a transmit buffer
  TxqLen,     \* slots of the transmit queue
  ProbeMax,   \* slots txq_probe looks at in one call (2 * n)
  SpinLen,    \* entries of the spin and the spout queue
  EvMax,      \* events one poll can return (num)
  Budgets     \* bounds on a behaviour: for each connection the bytes the peer
              \* and the application send, and how it comes about, or "no"

(* A call looks at a small part of the queue (32 slots of thousands): one  *)
(* that went around would count the slot that tells full from empty.       *)
ASSUME ProbeMaxAssumption == ProbeMax > 0 /\ TxqLen \div 2 + ProbeMax < TxqLen

VARIABLES
  conn,       \* struct flextcp_connection
  bump,       \* bump_pending_first and bump_pending_last of the context
  spin,       \* requests to the slow path
  spout,      \* its answers
  arx,        \* notifications of the NIC
  atx,        \* bumps in the transmit queue the doorbell covers
  fresh,      \* bumps written since the doorbell was rung
  txqAvail,   \* txq_avail
  phase,      \* where flextcp_context_poll is, or "idle"
  evs,        \* events it has collected and nobody has handled yet
  sp,         \* slow path: what it is doing for a connection
  nic,        \* NIC: flow state of a connection
  left,       \* what is left of the budget
  aborted     \* the assertion that failed, or "ok"

ctxVars == <<conn, bump, fresh, txqAvail, phase, evs>>
queueVars == <<spin, spout, arx, atx>>
envVars == <<sp, nic, left>>
libVars == <<ctxVars, queueVars, envVars, aborted>>

NewConn(status) ==
  [status |-> status, rxb_head |-> 0, rxb_used |-> 0, rxb_bump |-> 0,
   txb_len |-> 0, txb_sent |-> 0, txb_bump |-> 0, flags |-> {},
   rx_closed |-> FALSE, bump_pending |-> FALSE, bump_next |-> NULL]

LibInit ==
  /\ conn = [c \in Conns |-> NewConn("CLOSED")]
  /\ bump = [first |-> NULL, last |-> NULL]
  /\ spin = <<>> /\ spout = <<>> /\ arx = <<>> /\ atx = <<>> /\ fresh = <<>>
  /\ txqAvail = TxqLen - 1
  /\ phase = "idle" /\ evs = <<>>
  /\ sp = [c \in Conns |-> "none"]
  /\ left \in Budgets
  /\ nic = [c \in Conns |-> [on |-> FALSE, rx |-> 0, tx |-> 0, fin |-> FALSE]]
  /\ aborted = "ok"

-----------------------------------------------------------------------------
(* conn.c.  Bytes of the transmit buffer that can be allocated.  Between   *)
(* calls txb_allocated is 0: whoever allocates sends in the same call.     *)
conn_tx_allocbytes(k) == k.txb_len - k.txb_sent

(* conn_mark_bump: the connection goes to the end of the bump list.  cs is *)
(* conn after the other changes of the step.                               *)
MarkedConns(cs, c) ==
  IF cs[c].bump_pending THEN cs
  ELSE LET one == [cs EXCEPT ![c].bump_pending = TRUE, ![c].bump_next = NULL]
       IN  IF bump.last = NULL THEN one ELSE [one EXCEPT ![bump.last].bump_next = c]

(* Mutant: a marked connection is appended again.                          *)
MarkedBumpAgain(cs, c) == [first |-> IF bump.last = NULL THEN c ELSE bump.first, last |-> c]

MarkedBump(cs, c) ==
  IF cs[c].bump_pending THEN bump
  ELSE [first |-> IF bump.last = NULL THEN c ELSE bump.first, last |-> c]

(* flextcp_connection_open, flextcp_listen_accept: without queue space the *)
(* object is only cleared.                                                 *)
Request(c, kind) ==
  IF Len(spin) < SpinLen
  THEN /\ conn' = [conn EXCEPT ![c] =
                     NewConn(IF kind = "OPEN" THEN "OPEN_REQUESTED" ELSE "ACCEPT_REQUESTED")]
       /\ spin' = Append(spin, [type |-> kind, conn |-> c])
  ELSE /\ conn' = [conn EXCEPT ![c] = NewConn("CLOSED")]
       /\ UNCHANGED spin

(* flextcp_connection_rx_done.                                             *)
ReadConn(k, len) == [k EXCEPT !.rxb_used = @ - len, !.rxb_bump = @ + len]

RxDone(c, len) ==
  LET cs == [conn EXCEPT ![c] = ReadConn(@, len)]
  IN  IF cs[c].rxb_bump > RxLen \div 4
      THEN conn' = MarkedConns(cs, c) /\ bump' = MarkedBump(cs, c)
      ELSE conn' = cs /\ UNCHANGED bump

(* flextcp_connection_tx_alloc2 and flextcp_connection_tx_send.            *)
TxSend(c, len) ==
  LET cs == [conn EXCEPT ![c].txb_sent = @ + len, ![c].txb_bump = @ + len]
  IN  conn' = MarkedConns(cs, c) /\ bump' = MarkedBump(cs, c)

(* flextcp_conn_pushtxeos, when there is room: the end of the stream takes *)
(* a byte of the transmit buffer.                                          *)
PushTxEos(k) ==
  [k EXCEPT !.txb_sent = @ + 1, !.txb_bump = @ + 1, !.flags = @ \cup {"TXEOS_ALLOC"}]

(* flextcp_connection_tx_close: without room the push is postponed.        *)
TxClose(c) ==
  LET k  == [conn[c] EXCEPT !.flags = @ \cup {"TXEOS"}]
      cs == [conn EXCEPT ![c] = PushTxEos(k)]
  IN  IF conn_tx_allocbytes(k) = 0
      THEN conn' = [conn EXCEPT ![c] = k] /\ UNCHANGED bump
      ELSE conn' = MarkedConns(cs, c) /\ bump' = MarkedBump(cs, c)

(* The connections the bump list reaches from bump_pending_first.          *)
BumpPath(n) ==
  LET at[i \in 1..n] ==
        IF i = 1 THEN bump.first
        ELSE IF at[i - 1] = NULL THEN NULL ELSE conn[at[i - 1]].bump_next
  IN  at[n]

OnBumpList(c) == \E i \in 1..Cardinality(Conns) : BumpPath(i) = c

(* flextcp_connection_close: the connection leaves the bump list, then the *)
(* slow path is asked.  Removing the first entry leaves last alone.        *)
Unlinked(c) ==
  LET p == CHOOSE d \in Conns : OnBumpList(d) /\ conn[d].bump_next = c
  IN  IF bump.first = c THEN [conn EXCEPT ![c].bump_pending = FALSE]
      ELSE [conn EXCEPT ![c].bump_pending = FALSE, ![p].bump_next = conn[c].bump_next]

UnlinkedBump(c) ==
  LET p == CHOOSE d \in Conns : OnBumpList(d) /\ conn[d].bump_next = c
  IN  IF bump.first = c THEN [bump EXCEPT !.first = conn[c].bump_next]
      ELSE IF conn[c].bump_next = NULL THEN [bump EXCEPT !.last = p] ELSE bump

ConnClose(c) ==
  LET cs == IF conn[c].bump_pending THEN Unlinked(c) ELSE conn
  IN  IF conn[c].bump_pending /\ ~OnBumpList(c)
      THEN aborted' = "connection_close" /\ UNCHANGED <<conn, bump, spin>>
      ELSE /\ bump' = IF conn[c].bump_pending THEN UnlinkedBump(c) ELSE bump
           /\ IF Len(spin) < SpinLen
              THEN /\ conn' = [cs EXCEPT ![c].status = "CLOSE_REQUESTED"]
                   /\ spin' = Append(spin, [type |-> "CLOSE", conn |-> c])
              ELSE conn' = cs /\ UNCHANGED spin
           /\ UNCHANGED aborted

-----------------------------------------------------------------------------
(* init.c.  Events, with a place in the receive buffer for RECEIVED.       *)
Ev(type, c) == [type |-> type, conn |-> c, pos |-> 0, len |-> 0]

Received(c, pos, len) == [type |-> "RECEIVED", conn |-> c, pos |-> pos, len |-> len]

(* The phase after a poll, with events es to handle.                       *)
Handling(es) == IF es = <<>> THEN "idle" ELSE "handle"

(* event_arx_connupdate: the events and the connection after the update e. *)
Requested(k) == k.status \in {"OPEN_REQUESTED", "ACCEPT_REQUESTED"}

RxEvents(c, rx) ==
  LET h == conn[c].rxb_head
  IN  CASE rx = 0 -> <<>>
        [] rx > 0 /\ h + rx > RxLen ->
             <<Received(c, h, RxLen - h), Received(c, 0, h + rx - RxLen)>>
        [] OTHER -> <<Received(c, h, rx)>>

(* The transmit buffer was depleted, and the last byte sent is the end of  *)
(* the stream.                                                             *)
TxAvailEv(k, e) == e.tx > 0 /\ conn_tx_allocbytes(k) = 0

EosAcked(k, e) == "TXEOS_ALLOC" \in k.flags /\ k.txb_sent = e.tx

UpdateEvents(c, e) ==
  LET k == conn[c]
  IN  RxEvents(c, e.rx)
      \o (IF TxAvailEv(k, e) THEN <<Ev("SENDBUF", c)>> ELSE <<>>)
      \o (IF e.tx > 0 /\ EosAcked(k, e) THEN <<Ev("TXCLOSED", c)>> ELSE <<>>)
      \o (IF e.eos THEN <<Ev("RXCLOSED", c)>> ELSE <<>>)

EvsNeeded(c, e) ==
  Len(UpdateEvents(c, e)) + (IF e.tx = 0 /\ EosAcked(conn[c], e) THEN 1 ELSE 0)

(* The end of the stream could not be pushed before and is now.            *)
PushesNow(k, e) == e.tx > 0 /\ "TXEOS" \in k.flags /\ "TXEOS_ALLOC" \notin k.flags

UpdatedConn(k, e) ==
  LET head == k.rxb_head + e.rx
      rxk  == [k EXCEPT !.rxb_head = IF head >= RxLen THEN head - RxLen ELSE head,
                        !.rxb_used = @ + e.rx, !.txb_sent = @ - e.tx,
                        !.rx_closed = @ \/ e.eos]
  IN  IF PushesNow(k, e) THEN PushTxEos(rxk)
      ELSE IF e.tx > 0 /\ EosAcked(k, e) THEN [rxk EXCEPT !.flags = @ \cup {"TXEOS_ACK"}]
      ELSE rxk

UpdateAborts(k, e) ==
  \/ Requested(k) /\ e.tx # 0
  \/ k.status = "FREED"
  \/ k.status = "OPEN" /\ e.tx > 0 /\ "TXEOS_ACK" \in k.flags

(* An update before the slow path's confirmation is only counted.          *)
EarlyConn(k, e) ==
  [k EXCEPT !.rx_closed = e.eos, !.rxb_head = @ + e.rx, !.rxb_used = @ + e.rx]

(* fastpath_poll: one notification.                                        *)
FastpathEvent ==
  LET e  == Head(arx)
      c  == e.conn
      k  == conn[c]
      cs == [conn EXCEPT ![c] = UpdatedConn(k, e)]
  IN  /\ phase = "fastpath" /\ arx # <<>> /\ Len(evs) < EvMax
      /\ IF UpdateAborts(k, e)
         THEN aborted' = "event_arx_connupdate" /\ UNCHANGED <<ctxVars, arx>>
         ELSE /\ UNCHANGED aborted
              /\ IF k.status # "OPEN"
                 THEN /\ conn' = IF Requested(k) THEN [conn EXCEPT ![c] = EarlyConn(k, e)]
                                 ELSE conn
                      /\ arx' = Tail(arx)
                      /\ UNCHANGED <<bump, evs, phase>>
                 ELSE IF EvsNeeded(c, e) > EvMax - Len(evs)
                 THEN phase' = "probe" /\ UNCHANGED <<conn, bump, evs, arx>>
                 ELSE /\ evs' = evs \o UpdateEvents(c, e)
                      /\ arx' = Tail(arx)
                      /\ conn' = IF PushesNow(k, e) THEN MarkedConns(cs, c) ELSE cs
                      /\ bump' = IF PushesNow(k, e) THEN MarkedBump(cs, c) ELSE bump
                      /\ UNCHANGED phase
              /\ UNCHANGED <<fresh, txqAvail>>
      /\ UNCHANGED <<spin, spout, atx, envVars>>

FastpathEnd ==
  /\ phase = "fastpath" /\ (arx = <<>> \/ Len(evs) = EvMax)
  /\ phase' = "probe"
  /\ UNCHANGED <<conn, bump, fresh, txqAvail, evs, queueVars, envVars, aborted>>

(* event_kappin_conn_opened, event_kappin_accept_conn: what was received   *)
(* before is injected.                                                     *)
OpenedEvents(c, e) ==
  LET k == conn[c]
  IN  IF ~e.ok THEN <<Ev("FAILED", c)>>
      ELSE <<Ev(e.type, c)>>
           \o (IF k.rxb_used > 0 THEN <<Received(c, 0, k.rxb_used)>> ELSE <<>>)
           \o (IF k.rx_closed THEN <<Ev("RXCLOSED", c)>> ELSE <<>>)

OpenedConn(k, e) ==
  IF e.ok THEN [k EXCEPT !.status = "OPEN", !.txb_len = TxLen]
  ELSE [k EXCEPT !.status = "CLOSED"]

(* sp_poll: one answer of the slow path.  If its events do not fit the     *)
(* whole poll ends.                                                        *)
SpEvent ==
  LET e == Head(spout)
      c == e.conn
      es == IF e.type = "CLOSE" THEN <<Ev("CLOSE", c)>> ELSE OpenedEvents(c, e)
  IN  /\ phase = "sp" /\ spout # <<>> /\ Len(evs) < EvMax
      /\ IF Len(es) > EvMax - Len(evs)
         THEN phase' = Handling(evs) /\ UNCHANGED <<conn, evs, spout>>
         ELSE /\ evs' = evs \o es
              /\ conn' = [conn EXCEPT ![c] =
                   IF e.type = "CLOSE" THEN [@ EXCEPT !.status = "CLOSED"]
                   ELSE OpenedConn(@, e)]
              /\ spout' = Tail(spout)
              /\ UNCHANGED phase
      /\ UNCHANGED <<bump, fresh, txqAvail, spin, arx, atx, envVars, aborted>>

SpEnd ==
  /\ phase = "sp" /\ (spout = <<>> \/ Len(evs) = EvMax)
  /\ phase' = "fastpath"
  /\ UNCHANGED <<conn, bump, fresh, txqAvail, evs, queueVars, envVars, aborted>>

(* txq_probe: nulled slots become available again.                         *)
Nulled == TxqLen - 1 - txqAvail - Len(atx) - Len(fresh)

(* Mutant: the condition is inverted.                                      *)
TxqProbeLate ==
  /\ phase = "probe"
  /\ txqAvail' = IF txqAvail <= TxqLen \div 2 THEN txqAvail
                 ELSE txqAvail + Min({Nulled, ProbeMax})
  /\ phase' = "bump"
  /\ UNCHANGED <<conn, bump, fresh, evs, queueVars, envVars, aborted>>

TxqProbe ==
  /\ phase = "probe"
  /\ txqAvail' = IF txqAvail > TxqLen \div 2 THEN txqAvail
                 ELSE txqAvail + Min({Nulled, ProbeMax})
  /\ phase' = "bump"
  /\ UNCHANGED <<conn, bump, fresh, evs, queueVars, envVars, aborted>>

(* Mutant: conns_bump announces the same bytes again next time.            *)
BumpedConnKeep(k) == [k EXCEPT !.rxb_bump = 0, !.bump_pending = FALSE]

BumpedConn(k) == [k EXCEPT !.rxb_bump = 0, !.txb_bump = 0, !.bump_pending = FALSE]

(* conns_bump: one connection of the list, or the end of it: the doorbell  *)
(* (flextcp_context_tx_done).  No bump carries FLTXDONE.                   *)
ConnBump ==
  LET c == bump.first
  IN  /\ phase = "bump" /\ c # NULL
      /\ IF conn[c].status # "OPEN"
         THEN aborted' = "conns_bump" /\ UNCHANGED <<conn, bump, fresh, txqAvail>>
         ELSE /\ txqAvail > 0
              /\ txqAvail' = txqAvail - 1
              /\ fresh' = Append(fresh, [conn |-> c, rx |-> conn[c].rxb_bump,
                                         tx |-> conn[c].txb_bump])
              /\ conn' = [conn EXCEPT ![c] = BumpedConn(@)]
              /\ bump' = [first |-> conn[c].bump_next,
                          last |-> IF conn[c].bump_next = NULL THEN NULL ELSE bump.last]
              /\ UNCHANGED aborted
      /\ UNCHANGED <<phase, evs, queueVars, envVars>>

BumpEnd ==
  /\ phase = "bump"
  /\ bump.first # NULL => txqAvail = 0 /\ conn[bump.first].status = "OPEN"
  /\ atx' = atx \o fresh /\ fresh' = <<>>
  /\ phase' = Handling(evs)
  /\ UNCHANGED <<conn, bump, txqAvail, evs, spin, spout, arx, envVars, aborted>>

Poll == SpEvent \/ SpEnd \/ FastpathEvent \/ FastpathEnd \/ TxqProbe \/ ConnBump \/ BumpEnd

-----------------------------------------------------------------------------
(* The slow path: appif_ctx_poll takes a request when the answer would     *)
(* have room; the flow is on the NIC before the answer is written; a full  *)
(* spout queue loses the answer.  An open or accept that is not registered *)
(* fails.  A close does not stop the flow: the firmware does not implement *)
(* FLEXTCP_PL_SPTX_CONN_CLOSE.                                             *)
Answer(e) == spout' = IF Len(spout) < SpinLen THEN Append(spout, e) ELSE spout

SpTake ==
  LET r == Head(spin)
  IN  /\ spin # <<>> /\ Len(spout) < SpinLen
      /\ spin' = Tail(spin)
      /\ sp' = [sp EXCEPT ![r.conn] = r.type]
      /\ UNCHANGED <<ctxVars, spout, arx, atx, nic, left, aborted>>

SpRegister(c) ==
  /\ sp[c] \in {"OPEN", "ACCEPT"} /\ ~nic[c].on
  /\ nic' = [nic EXCEPT ![c].on = TRUE, ![c].rx = RxLen]
  /\ UNCHANGED <<ctxVars, queueVars, sp, left, aborted>>

SpAnswer(c) ==
  LET ok == sp[c] = "CLOSE" \/ nic[c].on
  IN  /\ sp[c] # "none"
      /\ Answer([type |-> sp[c], conn |-> c, ok |-> ok])
      /\ sp' = [sp EXCEPT ![c] = "none"]
      /\ UNCHANGED <<ctxVars, spin, arx, atx, nic, left, aborted>>

SlowPath == SpTake \/ \E c \in Conns : SpRegister(c) \/ SpAnswer(c)

(* The NIC takes a bump; it announces received bytes, acknowledged bytes   *)
(* and, once and last, the end of the peer's stream.                       *)
NicTake ==
  LET b == Head(atx)
  IN  /\ atx # <<>>
      /\ atx' = Tail(atx)
      /\ nic' = IF nic[b.conn].on
                THEN [nic EXCEPT ![b.conn].rx = @ + b.rx, ![b.conn].tx = @ + b.tx]
                ELSE nic
      /\ UNCHANGED <<ctxVars, spin, spout, arx, sp, left, aborted>>

NicUpdate(c, rx, tx, eos) ==
  LET f == nic[c]
  IN  /\ f.on /\ rx <= f.rx /\ rx <= left[c].peer /\ tx <= f.tx
      /\ ~f.fin \/ (rx = 0 /\ ~eos)
      /\ rx + tx > 0 \/ eos
      /\ arx' = Append(arx, [conn |-> c, rx |-> rx, tx |-> tx, eos |-> eos])
      /\ nic' = [nic EXCEPT ![c] = [on |-> TRUE, rx |-> f.rx - rx, tx |-> f.tx - tx,
                                    fin |-> f.fin \/ eos]]
      /\ left' = [left EXCEPT ![c].peer = @ - rx]
      /\ UNCHANGED <<ctxVars, spin, spout, atx, sp, aborted>>

Nic ==
  \/ NicTake
  \/ \E c \in Conns, rx \in 0..RxLen, tx \in 0..TxLen, eos \in BOOLEAN :
       NicUpdate(c, rx, tx, eos)
=============================================================================
