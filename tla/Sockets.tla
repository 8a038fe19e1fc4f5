------------------------------ MODULE Sockets -------------------------------
(***************************************************************************)
(* The socket library (lib/sockets) on one libTAS context: connect,        *)
(* accept, send, recv, shutdown and close on non-blocking sockets, and the *)
(* handlers of libTAS's events (flextcp_sockctx_poll).  A blocking call is *)
(* a call repeated with polls between, so it adds no behaviour.            *)
(*                                                                         *)
(* A socket holds the received bytes it has been told of as at most two    *)
(* pieces of the circular receive buffer.  One listener is open.           *)
(***************************************************************************)
EXTENDS LibTas

CONSTANTS
  Patient,    \* whether the application waits before it closes; see MayClose
  Lengths     \* lengths of send and recv calls

VARIABLES
  sock,       \* struct socket of each connection
  accepting,  \* the connection of the pending accept request, or NULL
  lone        \* history: a connection was closed while alone on the bump list

vars == <<libVars, sock, accepting, lone>>

NoPiece == [pos |-> 0, len |-> 0]

Init ==
  /\ LibInit
  /\ sock = [c \in Conns |-> [status |-> "none", rx_1 |-> NoPiece, rx_2 |-> NoPiece,
                              st_flags |-> {}, epollin |-> FALSE]]
  /\ accepting = NULL
  /\ lone = FALSE

PollBegin == phase' = "sp" /\ UNCHANGED <<conn, bump, fresh, txqAvail, evs>>

(* A socket the application has a file descriptor for.                     *)
Usable(c) == phase = "idle" /\ sock[c].status = "connected" /\ c # accepting

-----------------------------------------------------------------------------
(* tas_connect, on a fresh socket or after a failed attempt.               *)
Connect(c) ==
  /\ phase = "idle" /\ sock[c].status \in {"none", "failed"} /\ c # accepting
  /\ left[c].how = "connect"
  /\ Request(c, "OPEN")
  /\ sock' = IF Len(spin) < SpinLen
             THEN [sock EXCEPT ![c].status = "connecting", ![c].rx_1.len = 0,
                               ![c].rx_2.len = 0]
             ELSE sock
  /\ UNCHANGED <<bump, fresh, txqAvail, phase, evs, spout, arx, atx, envVars, aborted,
                 accepting, lone>>

(* tas_accept4: the request, and the call that finds it answered, which    *)
(* asserts that the answer is no failure.  The call frees the wrong socket *)
(* when the spin queue is full and is not made then.                       *)
Accept(c) ==
  /\ phase = "idle" /\ sock[c].status = "none" /\ accepting = NULL
  /\ Len(spin) < SpinLen /\ left[c].how = "accept"
  /\ Request(c, "ACCEPT")
  /\ sock' = [sock EXCEPT ![c].status = "connecting"]
  /\ accepting' = c
  /\ UNCHANGED <<bump, fresh, txqAvail, phase, evs, spout, arx, atx, envVars, aborted,
                 lone>>

AcceptDone ==
  /\ phase = "idle" /\ accepting # NULL /\ sock[accepting].status # "connecting"
  /\ aborted' = IF sock[accepting].status = "connected" THEN "ok" ELSE "tas_accept4"
  /\ accepting' = NULL
  /\ UNCHANGED <<ctxVars, queueVars, envVars, sock, lone>>

(* tas_sendmsg, send_simple: a call that finds no room polls.              *)
Send(c, n) ==
  LET room == conn_tx_allocbytes(conn[c])
  IN  /\ Usable(c) /\ "TXCLOSED" \notin sock[c].st_flags
      /\ n <= left[c].app
      /\ IF room = 0 THEN PollBegin /\ UNCHANGED left
         ELSE /\ TxSend(c, Min({n, room}))
              /\ left' = [left EXCEPT ![c].app = @ - Min({n, room})]
              /\ UNCHANGED <<fresh, txqAvail, phase, evs>>
      /\ UNCHANGED <<queueVars, sp, nic, aborted, sock, accepting, lone>>

(* tas_recvmsg, recv_simple: bytes of the first piece, then of the second. *)
(* A call that finds nothing polls.                                        *)
(* Mutant: the second piece is not made the first.                         *)
TakenDrop(s, n) ==
  IF s.rx_1.len <= n THEN [s EXCEPT !.rx_1 = NoPiece, !.rx_2 = NoPiece]
  ELSE [s EXCEPT !.rx_1 = [pos |-> @.pos + n, len |-> @.len - n]]

Taken(s, n) ==
  IF s.rx_1.len <= n
  THEN LET more == Min({s.rx_2.len, n - s.rx_1.len})
       IN  [s EXCEPT !.rx_1 = [pos |-> s.rx_2.pos + more, len |-> s.rx_2.len - more],
                     !.rx_2 = NoPiece]
  ELSE [s EXCEPT !.rx_1 = [pos |-> @.pos + n, len |-> @.len - n]]

StillReadable(s) == s.rx_1.len > 0 \/ "RXCLOSED" \in s.st_flags

Recv(c, n) ==
  LET s   == sock[c]
      ret == Min({n, s.rx_1.len + s.rx_2.len})
  IN  /\ Usable(c)
      /\ IF s.rx_1.len = 0
         THEN /\ "RXCLOSED" \notin s.st_flags
              /\ sock' = [sock EXCEPT ![c].epollin = FALSE]
              /\ PollBegin
         ELSE /\ sock' = [sock EXCEPT ![c] =
                   [Taken(s, n) EXCEPT !.epollin = @ /\ StillReadable(Taken(s, n))]]
              /\ RxDone(c, ret)
              /\ UNCHANGED <<fresh, txqAvail, phase, evs>>
      /\ UNCHANGED <<queueVars, envVars, aborted, accepting, lone>>

(* tas_shutdown(SHUT_WR).                                                  *)
Shutdown(c) ==
  /\ Usable(c) /\ "TXCLOSED" \notin sock[c].st_flags
  /\ TxClose(c)
  /\ sock' = [sock EXCEPT ![c].st_flags = @ \cup {"TXCLOSED"}]
  /\ UNCHANGED <<fresh, txqAvail, phase, evs, queueVars, envVars, aborted, accepting, lone>>

(* conn_close.  A patient application closes only connected sockets, and   *)
(* only with room in the send buffer for the end of the stream and more.   *)
(* Mutant: the end of the peer's stream is enough to close.                *)
BothClosedRx(s) == "RXCLOSED" \in s.st_flags

BothClosed(s) == {"TXCLOSED_ACK", "RXCLOSED"} \subseteq s.st_flags

Alone(c) == bump.first = c /\ conn[c].bump_pending /\ conn[c].bump_next = NULL

MayClose(c) ==
  IF Patient
  THEN /\ Usable(c)
       /\ IF "TXEOS_ALLOC" \in conn[c].flags THEN conn_tx_allocbytes(conn[c]) >= 1
          ELSE conn_tx_allocbytes(conn[c]) >= 2
  ELSE /\ phase = "idle" /\ sock[c].status \in {"connecting", "connected", "failed"}
       /\ c # accepting

Close(c) ==
  /\ MayClose(c)
  /\ sock' = [sock EXCEPT ![c].status = "closed", ![c].st_flags = @ \cup {"TXCLOSED"}]
  /\ CASE BothClosed(sock[c]) -> ConnClose(c)
       [] "TXCLOSED" \notin sock[c].st_flags -> TxClose(c) /\ UNCHANGED <<spin, aborted>>
       [] OTHER -> UNCHANGED <<conn, bump, spin, aborted>>
  /\ lone' = (lone \/ (BothClosed(sock[c]) /\ Alone(c)))
  /\ UNCHANGED <<fresh, txqAvail, phase, evs, spout, arx, atx, envVars, accepting>>

(* Any call that polls, such as epoll_wait.                                *)
PollCall ==
  /\ phase = "idle"
  /\ PollBegin
  /\ UNCHANGED <<queueVars, envVars, aborted, sock, accepting, lone>>

-----------------------------------------------------------------------------
(* flextcp_sockctx_poll: the events of the poll, one by one.               *)
Fail(who) == aborted' = who /\ UNCHANGED <<sock, conn, bump, spin, lone>>

Only(s2, c) == sock' = [sock EXCEPT ![c] = s2]
               /\ UNCHANGED <<conn, bump, spin, aborted, lone>>

(* ev_conn_open, ev_listen_accept.                                         *)
EvOpen(c, e) ==
  IF sock[c].status # "connecting" THEN Fail("ev_conn_open")
  ELSE Only([sock[c] EXCEPT !.status = IF e.type = "FAILED" THEN "failed" ELSE "connected"], c)

(* ev_conn_received: the bytes extend a piece or become the second one.    *)
Received2(s, e) ==
  CASE s.rx_1.len = 0 ->
         [s EXCEPT !.rx_1 = [pos |-> e.pos, len |-> e.len], !.rx_2.len = 0]
    [] s.rx_1.len # 0 /\ s.rx_2.len = 0 /\ e.pos = s.rx_1.pos + s.rx_1.len ->
         [s EXCEPT !.rx_1.len = @ + e.len]
    [] OTHER ->
         IF s.rx_2.len # 0 /\ e.pos = s.rx_2.pos + s.rx_2.len
         THEN [s EXCEPT !.rx_2.len = @ + e.len]
         ELSE [s EXCEPT !.rx_2 = [pos |-> e.pos, len |-> e.len]]

(* Mutant: data for a socket the application has closed is not expected.   *)
EvReceivedOpen(c, e) ==
  IF sock[c].status = "connected" THEN Only([Received2(sock[c], e) EXCEPT !.epollin = TRUE], c)
  ELSE Fail("ev_conn_received")

EvReceived(c, e) ==
  LET s == sock[c]
      third == s.rx_1.len # 0 /\ s.rx_2.len # 0 /\ e.pos # s.rx_2.pos + s.rx_2.len
  IN  CASE s.status = "closed" -> Only(s, c)
        [] s.status = "connected" /\ ~third ->
             Only([Received2(s, e) EXCEPT !.epollin = TRUE], c)
        [] OTHER -> Fail("ev_conn_received")

(* ev_conn_sendbuf.                                                        *)
EvSendbuf(c) ==
  IF sock[c].status # "connected" THEN Fail("ev_conn_sendbuf") ELSE Only(sock[c], c)

(* ev_conn_rxclosed, ev_conn_txclosed: when the application has closed the *)
(* socket and this was the last direction, flextcp_sockclose_finish.       *)
EvClosed(c, flag) ==
  LET s == [sock[c] EXCEPT !.st_flags = @ \cup {flag},
                           !.epollin = @ \/ flag = "RXCLOSED"]
  IN  CASE s.status \notin {"connected", "closed"} -> Fail("ev_conn_closed")
        [] s.status = "closed" /\ BothClosed(s) ->
             /\ sock' = [sock EXCEPT ![c] = s]
             /\ ConnClose(c)
             /\ lone' = (lone \/ Alone(c))
        [] OTHER -> Only(s, c)

(* ev_conn_closed: the socket is freed.                                    *)
EvFree(c) ==
  IF sock[c].status # "closed" THEN Fail("ev_conn_closed")
  ELSE /\ sock' = [sock EXCEPT ![c].status = "freed"]
       /\ conn' = [conn EXCEPT ![c].status = "FREED"]
       /\ UNCHANGED <<bump, spin, aborted, lone>>

HandleEvent ==
  /\ phase = "handle"
  /\ LET e == Head(evs)
         c == e.conn
     IN  CASE e.type \in {"OPEN", "ACCEPT", "FAILED"} -> EvOpen(c, e)
           [] e.type = "RECEIVED" -> EvReceived(c, e)
           [] e.type = "SENDBUF" -> EvSendbuf(c)
           [] e.type = "TXCLOSED" -> EvClosed(c, "TXCLOSED_ACK")
           [] e.type = "RXCLOSED" -> EvClosed(c, "RXCLOSED")
           [] e.type = "CLOSE" -> EvFree(c)
  /\ evs' = Tail(evs) /\ phase' = Handling(evs')
  /\ UNCHANGED <<fresh, txqAvail, spout, arx, atx, envVars, accepting>>

-----------------------------------------------------------------------------
App ==
  \/ PollCall \/ AcceptDone
  \/ \E c \in Conns :
       \/ Connect(c) \/ Accept(c) \/ Shutdown(c) \/ Close(c)
       \/ \E n \in Lengths : Send(c, n) \/ Recv(c, n)

Running == (Poll /\ UNCHANGED <<sock, accepting, lone>>) \/ HandleEvent

(* NIC and slow path only append to the queues a poll takes from, and take *)
(* from those it appends to, after it has last looked at the former.  What *)
(* they do during a poll could as well come before or after it, but for a  *)
(* request taken between two closes its events lead to.                    *)
Other ==
  /\ (phase = "idle" /\ (SlowPath \/ Nic)) \/ (phase = "handle" /\ SpTake)
  /\ UNCHANGED <<sock, accepting, lone>>

Next == aborted = "ok" /\ (App \/ Running \/ Other)

Spec == Init /\ [][Next]_vars

(* The application polls again and again (it may sleep in epoll_wait, but  *)
(* then an event wakes it), and the NIC takes what the doorbell announces. *)
FairSpec ==
  Spec /\ WF_vars(aborted = "ok" /\ Running) /\ WF_vars(aborted = "ok" /\ PollCall)
       /\ WF_vars(aborted = "ok" /\ NicTake /\ UNCHANGED <<sock, accepting, lone>>)

-----------------------------------------------------------------------------
ConnRecord ==
  [status : {"CLOSED", "OPEN_REQUESTED", "ACCEPT_REQUESTED", "OPEN", "CLOSE_REQUESTED",
             "FREED"},
   rxb_head : 0..RxLen, rxb_used : 0..RxLen, rxb_bump : 0..RxLen, txb_len : {0, TxLen},
   txb_sent : 0..TxLen, txb_bump : 0..TxLen,
   flags : SUBSET {"TXEOS", "TXEOS_ALLOC", "TXEOS_ACK"}, rx_closed : BOOLEAN,
   bump_pending : BOOLEAN, bump_next : Conns \cup {NULL}]

(* Every count stays within its buffer, and the transmit queue's within    *)
(* its length.                                                             *)
TypeOK ==
  /\ conn \in [Conns -> ConnRecord]
  /\ \A c \in Conns : sock[c].rx_1.len + sock[c].rx_2.len <= RxLen
  /\ txqAvail \in 0..(TxqLen - 1) /\ Nulled >= 0
  /\ Len(spin) <= SpinLen /\ Len(spout) <= SpinLen /\ Len(evs) <= EvMax

(* No assertion of libTAS or the socket library fails: no event reaches a  *)
(* socket in a state its handler does not expect, received data is never   *)
(* in three pieces, the end of the stream can be pushed when a byte was    *)
(* acknowledged, only open connections are bumped.  The exception is that  *)
(* tas_accept4 does not expect the slow path to be out of memory.          *)
NoAbort == aborted \in {"ok", "tas_accept4"}

Sum(q, c, field) ==
  FoldSeq(LAMBDA e, n : n + (IF e.conn = c THEN e[field] ELSE 0), 0, q)

(* Every byte sent and not yet acknowledged is counted exactly once: in    *)
(* the pending bump, the transmit queue, the NIC or a notification.        *)
TxAccounting ==
  \A c \in Conns : conn[c].status = "OPEN" /\ nic[c].on =>
    conn[c].txb_sent = conn[c].txb_bump + Sum(fresh, c, "tx") + Sum(atx, c, "tx")
                       + nic[c].tx + Sum(arx, c, "tx")

(* Every byte of the receive buffer is in the NIC's window, announced,     *)
(* unread, or on its way back, also when data arrives before the           *)
(* connection is known to be open.                                         *)
RxAccounting ==
  \A c \in Conns : (conn[c].status = "OPEN" \/ Requested(conn[c])) /\ nic[c].on =>
    conn[c].rxb_used + conn[c].rxb_bump + Sum(fresh, c, "rx") + Sum(atx, c, "rx")
    + nic[c].rx + Sum(arx, c, "rx") = RxLen

(* No byte of the buffers is lost or counted twice, within the types of    *)
(* the counts, whatever is queued, refused or announced late: the transmit *)
(* buffer is never overwritten early and the window never too large.       *)
BytesAccounted == TypeOK /\ TxAccounting /\ RxAccounting

(* epoll reports a socket with data or at the end of the stream.           *)
ReadableSignalled(c) ==
  sock[c].status = "connected"
  /\ (sock[c].rx_1.len > 0 \/ "RXCLOSED" \in sock[c].st_flags) => sock[c].epollin

(* What a socket holds and the events it will be told of are consecutive   *)
(* stretches of the receive buffer that end at rxb_head, and are all the   *)
(* unread bytes: nothing is delivered twice, skipped or out of place, and  *)
(* the socket is readable as long as there is something to read.           *)
Stretches(c) ==
  SelectSeq(<<sock[c].rx_1, sock[c].rx_2>> \o
            SelectSeq(evs, LAMBDA e : e.conn = c /\ e.type = "RECEIVED"),
            LAMBDA x : x.len > 0)

ReceivedInPlace ==
  \A c \in Conns : ReadableSignalled(c) /\
   (conn[c].status = "OPEN" /\ sock[c].status # "closed" =>
    LET st == Stretches(c)
        end(x) == (x.pos + x.len) % RxLen
    IN  /\ FoldSeq(LAMBDA x, n : n + x.len, 0, st) = conn[c].rxb_used
        /\ \A i \in 1..Len(st) :
             end(st[i]) = (IF i = Len(st) THEN conn[c].rxb_head ELSE st[i + 1].pos) % RxLen)

(* The bump list holds exactly the connections marked pending, all open,   *)
(* and a connection that owes the NIC sent bytes or enough read ones is on *)
(* it: conns_bump will find it.                                            *)
BumpQueueIntact ==
  /\ \A c \in Conns : conn[c].bump_pending <=> OnBumpList(c)
  /\ bump.last # NULL => bump.first # NULL /\ conn[bump.last].bump_next = NULL
  /\ \A c \in Conns :
       /\ conn[c].status = "OPEN" /\ sock[c].status # "closed"
       /\ conn[c].txb_bump > 0 \/ conn[c].rxb_bump > RxLen \div 4
       => OnBumpList(c)

(* The same as long as flextcp_connection_close has not been called on a   *)
(* connection alone on the list.                                           *)
BumpQueueUnlessLone == ~lone => BumpQueueIntact

(* A connection is handed back to the slow path only when everything sent  *)
(* has been acknowledged, and then no notification, no event but the       *)
(* answer and no bump refers to it: nothing will find it freed.            *)
ClosedUnreferenced ==
  \A c \in Conns : conn[c].status \in {"CLOSE_REQUESTED", "FREED"} =>
    /\ conn[c].txb_sent = 0
    /\ \A i \in 1..Len(arx) : arx[i].conn # c
    /\ \A i \in 1..Len(evs) : evs[i].conn = c => evs[i].type = "CLOSE"
    /\ ~lone => ~OnBumpList(c) /\ bump.last # c

(* Sent bytes are always announced to the NIC in the end, unless the       *)
(* connection was closed or an assertion failed.                           *)
BumpsReachNic ==
  \A c \in Conns : conn[c].txb_bump > 0 ~>
    (lone \/ conn[c].txb_bump = 0 \/ conn[c].status # "OPEN" \/ aborted # "ok")
=============================================================================
