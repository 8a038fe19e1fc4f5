-------------------------------- MODULE Tcp ---------------------------------
(***************************************************************************)
(* Connection setup and teardown in the slow path: user/tcp.c, the request *)
(* handlers and answers of user/appif_ctx.c, flow registration in          *)
(* user/nicif.c and the firmware's flow table.                             *)
(*                                                                         *)
(* The slow path is one thread whose main loop calls the handlers one by   *)
(* one, so a handler is a step.  A connection struct stands for one        *)
(* request of the application (its opaque value).  Packets the slow path   *)
(* sends may get lost, and what arrives is any packet the peer may send.   *)
(***************************************************************************)
EXTENDS Arp

CONSTANTS
  EphPorts,     \* ephemeral ports
  ListenPort,   \* the port of the one listener
  TsPeers,      \* peers that use the timestamp option
  FlowIds,      \* flow ids of the NIC
  BacklogLen,   \* backlog of the listener
  SpoutLen,     \* entries of the answer queue
  Retries,      \* tcp_handshake_retries
  SptxFills,    \* whether the queue to the NIC may be full
  MaxPackets    \* bound on the packets that arrive

(* A port has one type, so the listener's is not ephemeral, and flow ids   *)
(* are numbered from 1.                                                    *)
ASSUME TcpAssumption ==
  /\ EphPorts \subseteq Nat /\ ListenPort \notin EphPorts
  /\ 0 \notin FlowIds
  /\ ArpTries \in Nat /\ Retries \in Nat /\ MaxPackets \in Nat
  /\ BacklogLen \in Nat /\ SpoutLen \in Nat

VARIABLES
  tc,         \* struct connection
  ht,         \* tcp_hashtable
  ports,      \* ephemeral ports of type PORT_TYPE_CONN
  wait,       \* wait_conns of the listener
  backlog,    \* its backlog: the senders of SYNs
  cc,         \* cc_conns
  appConns,   \* conns of the application
  freeIds,    \* flow_id_freelist
  sptx,       \* FLOWHT_ADD entries the NIC has not taken
  table,      \* the NIC's flow table: flow id of a 4-tuple, or 0
  spout,      \* answers the application has not taken
  app,        \* what the application knows of its request
  answers,    \* history: answers written to an open or accept request
  packets,    \* packets that have arrived
  faults,     \* history: partial failures; see below
  aborted     \* the assertion or abort() reached, or "ok"

vars == <<arpVars, tc, ht, ports, wait, backlog, cc, appConns, freeIds, sptx, table,
          spout, app, answers, packets, faults, aborted>>

NULL == 0
NoConn == [status |-> "none", port |-> 0, peer |-> NULL, timer |-> "off",
           attempts |-> 0, flow |-> 0]
Tuple(c) == <<tc[c].port, tc[c].peer>>

Init ==
  /\ ArpInit
  /\ tc = [c \in Conns |-> NoConn]
  /\ ht = {} /\ ports = {} /\ wait = <<>> /\ backlog = <<>> /\ cc = <<>>
  /\ appConns = <<>> /\ freeIds = FlowIds /\ sptx = <<>>
  /\ table = [t \in ({ListenPort} \cup EphPorts) \X Peers |-> 0]
  /\ spout = <<>> /\ app = [c \in Conns |-> "idle"] /\ answers = [c \in Conns |-> 0]
  /\ packets = 0 /\ faults = {} /\ aborted = "ok"

-----------------------------------------------------------------------------
Running == aborted = "ok"

(* appif_conn_opened, appif_accept_conn, appif_listen_newconn,             *)
(* appif_conn_closed: an answer is dropped when the queue is full.         *)
Room == Len(spout) < SpoutLen

Told(c, type, ok) ==
  /\ spout' = IF Room THEN Append(spout, [conn |-> c, type |-> type, ok |-> ok]) ELSE spout
  /\ answers' = IF Room /\ type = "OPEN" THEN [answers EXCEPT ![c] = @ + 1] ELSE answers

Untold == UNCHANGED <<spout, answers>>

Drop == IF Room THEN {} ELSE {"spout_full"}

(* Mutant: the timer is left on.                                           *)
conn_failed_armed(c, fs) ==
  /\ ht' = ht \ {c}
  /\ aborted' = IF c \in ht THEN "ok" ELSE "conn_unregister"
  /\ tc' = [tc EXCEPT ![c].status = IF Room THEN "freed" ELSE "FAILED"]
  /\ Told(c, "OPEN", FALSE)
  /\ faults' = faults \cup fs \cup {IF Room THEN "dangling" ELSE "spout_full"}

(* conn_failed: the connection leaves the hash table and is freed with the *)
(* answer.  It keeps its port, and its place in the application's list.    *)
conn_failed(c, fs) ==
  /\ ht' = ht \ {c}
  /\ aborted' = IF c \in ht THEN "ok" ELSE "conn_unregister"
  /\ tc' = [tc EXCEPT ![c].timer = "off", ![c].status = IF Room THEN "freed" ELSE "FAILED"]
  /\ Told(c, "OPEN", FALSE)
  /\ faults' = faults \cup fs \cup {IF Room THEN "dangling" ELSE "spout_full"}

(* nicif_connection_add: an id is taken, the state written and the entry   *)
(* of the flow table queued.                                               *)
AddMayFail == freeIds = {} \/ SptxFills

Added(f, tuple) ==
  /\ freeIds' = freeIds \ {f}
  /\ sptx' = Append(sptx, [tuple |-> tuple, flow |-> f])

NotAdded == UNCHANGED <<freeIds, sptx>>

-----------------------------------------------------------------------------
(* Mutant: the timer is not armed.                                         *)
conn_arp_done_unarmed(k) == [k EXCEPT !.status = "SYN_SENT", !.attempts = 0]

(* conn_arp_done: the SYN is sent.                                         *)
conn_arp_done(k) == [k EXCEPT !.status = "SYN_SENT", !.attempts = 0, !.timer = "handshake"]

(* Mutant: a port is taken without a look at its type.                     *)
FreePortsAll == EphPorts

FreePorts == EphPorts \ ports

(* tcp_open, from spin_conn_open: without memory, port or route there is   *)
(* an answer at once.  The lowest unused port stands for the next one, so  *)
(* that ports are used again soon.                                         *)
tcp_open(c, p, port) ==
  LET k == [NoConn EXCEPT !.port = port, !.peer = p, !.status = "ARP_PENDING"]
  IN  /\ tc' = [tc EXCEPT ![c] = IF Resolved(p) THEN conn_arp_done(k) ELSE k]
      /\ arp_request(c, p)
      /\ ht' = ht \cup {c}
      /\ ports' = ports \cup {port}

Open(c, p) ==
  /\ Running /\ app[c] = "idle" /\ Room
  /\ app' = [app EXCEPT ![c] = "opening"]
  /\ \/ /\ FreePorts # {} /\ tcp_open(c, p, Min(FreePorts))
        /\ appConns' = <<c>> \o appConns
        /\ Untold
     \/ Told(c, "OPEN", FALSE) /\ UNCHANGED <<tc, arp, ht, ports, appConns>>
  /\ UNCHANGED <<asyncq, wait, backlog, cc, freeIds, sptx, table, packets, faults, aborted>>

(* Mutant: the connection is not listed.                                   *)
cc_conn_init_skip(c) == UNCHANGED <<cc, aborted>>

(* cc_conn_init: the connection goes to the front of the list.  A second   *)
(* time makes the list circular, where the model stops.                    *)
cc_conn_init(c) ==
  /\ cc' = <<c>> \o cc
  /\ aborted' = IF c \in Range(cc) THEN "cc_conn_init" ELSE "ok"

(* listener_accept: the last accept request meets the oldest SYN.  A SYN   *)
(* that cannot be served is dropped, and the request keeps waiting.  cs is *)
(* tc, w the waiting requests and b the backlog the caller leaves.         *)
listener_accept(cs, w, b, fs) ==
  LET c == Head(w)
      p == Head(b)
      k == [cs[c] EXCEPT !.status = "REG_SYNACK", !.port = ListenPort, !.peer = p]
  IN  /\ backlog' = Tail(b)
      /\ \/ /\ p \in TsPeers
            /\ \E f \in freeIds :
                 /\ tc' = [cs EXCEPT ![c] = [k EXCEPT !.flow = f]]
                 /\ Added(f, <<ListenPort, p>>)
            /\ cc_conn_init(c) /\ wait' = Tail(w) /\ ht' = ht \cup {c}
            /\ asyncq' = Append(asyncq, [conn |-> c, ok |-> TRUE])
            /\ faults' = faults \cup fs
         \/ /\ p \in TsPeers /\ AddMayFail
            /\ tc' = [cs EXCEPT ![c] = k]
            /\ cc_conn_init(c) /\ wait' = w
            /\ faults' = faults \cup fs \cup {"add"}
            /\ NotAdded /\ UNCHANGED <<ht, asyncq>>
         \/ /\ p \notin TsPeers
            /\ tc' = cs /\ wait' = w
            /\ faults' = faults \cup fs
            /\ NotAdded /\ UNCHANGED <<cc, ht, asyncq, aborted>>

(* tcp_accept, from spin_accept_conn.                                      *)
Accept(c) ==
  LET w  == <<c>> \o wait
      cs == [tc EXCEPT ![c] = [NoConn EXCEPT !.status = "SYN_WAIT", !.port = ListenPort]]
  IN  /\ Running /\ app[c] = "idle" /\ Room
      /\ app' = [app EXCEPT ![c] = "opening"]
      /\ \/ /\ IF backlog # <<>> THEN listener_accept(cs, w, backlog, {})
               ELSE /\ wait' = w /\ tc' = cs
                    /\ UNCHANGED <<backlog, cc, ht, asyncq, freeIds, sptx, faults, aborted>>
            /\ Untold
         \/ /\ Told(c, "OPEN", FALSE)
            /\ UNCHANGED <<tc, wait, backlog, cc, ht, asyncq, freeIds, sptx, faults, aborted>>
      /\ UNCHANGED <<arp, ports, appConns, table, packets>>

(* The linked list s without c, the first entry that is c unlinked.        *)
Unlink(s, c) ==
  LET i == CHOOSE i \in 1..Len(s) : s[i] = c /\ \A j \in 1..(i - 1) : s[j] # c
  IN  [j \in 1..(Len(s) - 1) |-> IF j < i THEN s[j] ELSE s[j + 1]]

(* Mutant: congestion control keeps the connection.                        *)
tcp_close_keep(c) ==
  /\ tc' = [tc EXCEPT ![c].status = "CLOSED", ![c].timer = "closed"]
  /\ UNCHANGED <<cc, aborted>>

(* tcp_close: the NIC is told (and ignores it), congestion control forgets *)
(* the connection, and a timer will free it.                               *)
tcp_close(c) ==
  /\ tc' = [tc EXCEPT ![c].status = "CLOSED", ![c].timer = "closed"]
  /\ cc' = IF c \in Range(cc) THEN Unlink(cc, c) ELSE cc
  /\ aborted' = IF c \notin Range(cc) THEN "cc_conn_remove"
                ELSE IF tc[c].timer # "off" THEN "tcp_close" ELSE "ok"

(* A walk of the application's list in search of c: whether it is found.   *)
(* Past an entry that was freed it may go anywhere, and not end.           *)
Walk(c) ==
  IF \E j \in 1..Len(appConns) : /\ tc[appConns[j]].status = "freed"
                                 /\ \A i \in 1..j : appConns[i] # c
  THEN {"yes", "no", "lost"}
  ELSE {IF c \in Range(appConns) THEN "yes" ELSE "no"}

(* spin_conn_close.                                                        *)
Close(c) ==
  /\ Running /\ app[c] = "open" /\ Room
  /\ app' = [app EXCEPT ![c] = "closing"]
  /\ \E found \in Walk(c) :
       \/ found = "lost" /\ aborted' = "spin_conn_close" /\ Untold /\ UNCHANGED <<tc, cc>>
       \/ found = "yes" /\ tc[c].status = "OPEN" /\ tcp_close(c) /\ Untold
       \/ /\ found = "no" \/ (found = "yes" /\ (tc[c].status # "OPEN" \/ SptxFills))
          /\ Told(c, "CLOSE", FALSE) /\ UNCHANGED <<tc, cc, aborted>>
  /\ UNCHANGED <<arpVars, ht, ports, wait, backlog, appConns, freeIds, sptx, table, packets,
                 faults>>

-----------------------------------------------------------------------------
Established(k, f) == [k EXCEPT !.status = "OPEN", !.timer = "off", !.flow = f]

(* conn_syn_sent_packet: a SYN-ACK opens the connection, anything else     *)
(* fails it.                                                               *)
conn_syn_sent_packet(c, flags) ==
  IF flags = "SYNACK" /\ tc[c].peer \in TsPeers
  THEN /\ cc' = <<c>> \o cc
       /\ \/ /\ \E f \in freeIds :
                  /\ tc' = [tc EXCEPT ![c] = Established(@, f)]
                  /\ Added(f, Tuple(c))
             /\ Told(c, "OPEN", TRUE) /\ faults' = faults \cup Drop
             /\ UNCHANGED <<ht, aborted>>
          \/ AddMayFail /\ conn_failed(c, {"add"}) /\ NotAdded
  ELSE conn_failed(c, {}) /\ NotAdded /\ UNCHANGED cc

(* conn_packet.  What only causes an answer or a message on the console is *)
(* no step; so is a repeated SYN, as a peer that used timestamps uses them *)
(* again.                                                                  *)
conn_packet(c, flags) ==
  /\ \/ tc[c].status = "SYN_SENT" /\ conn_syn_sent_packet(c, flags)
     \/ /\ tc[c].status = "OPEN" /\ flags = "RST" /\ tcp_close(c)
        /\ Untold /\ NotAdded /\ UNCHANGED <<ht, faults>>
  /\ UNCHANGED <<asyncq, wait, backlog>>

(* listener_packet: a new SYN goes to the backlog and, if a request waits, *)
(* is accepted.                                                            *)
listener_packet(p, flags) ==
  LET b == Append(backlog, p)
  IN  /\ flags = "SYN" /\ p \notin Range(backlog) /\ Len(backlog) < BacklogLen
      /\ Told(NULL, "NEWCONN", TRUE)
      /\ IF wait # <<>> THEN listener_accept(tc, wait, b, Drop)
         ELSE /\ backlog' = b /\ faults' = faults \cup Drop
              /\ NotAdded /\ UNCHANGED <<tc, cc, ht, asyncq, wait, aborted>>

(* tcp_packet.  Peers send a SYN only to the listener.                     *)
Packet(p, port, flags) ==
  /\ Running /\ packets < MaxPackets /\ packets' = packets + 1
  /\ flags = "SYN" => port = ListenPort
  /\ \/ \E c \in ht : Tuple(c) = <<port, p>> /\ conn_packet(c, flags)
     \/ /\ \A c \in ht : Tuple(c) # <<port, p>>
        /\ port = ListenPort /\ listener_packet(p, flags)
  /\ UNCHANGED <<arp, ports, appConns, table, app>>

(* tcp_poll: a completion.                                                 *)
tcp_poll ==
  LET c == Head(asyncq).conn
  IN  /\ Running /\ asyncq # <<>> /\ asyncq' = Tail(asyncq)
      /\ CASE tc[c].status = "ARP_PENDING" /\ Head(asyncq).ok ->
                /\ tc' = [tc EXCEPT ![c] = conn_arp_done(@)]
                /\ Untold /\ UNCHANGED <<ht, appConns, faults, aborted>>
           [] tc[c].status = "ARP_PENDING" /\ ~Head(asyncq).ok ->
                conn_failed(c, {}) /\ UNCHANGED appConns
           [] tc[c].status = "REG_SYNACK" ->
                /\ tc' = [tc EXCEPT ![c].status = "OPEN"]
                /\ Told(c, "OPEN", TRUE)
                /\ appConns' = IF Room THEN <<c>> \o appConns ELSE appConns
                /\ faults' = faults \cup Drop
                /\ UNCHANGED <<ht, aborted>>
           [] OTHER -> Untold /\ UNCHANGED <<tc, ht, appConns, faults, aborted>>
      /\ UNCHANGED <<arp, ports, wait, backlog, cc, freeIds, sptx, table, app, packets>>

GiveUp(c) == tc[c].attempts = Retries

(* tcp_timeout of type TO_TCP_HANDSHAKE.                                   *)
HandshakeTimeout(c) ==
  /\ Running /\ tc[c].timer = "handshake"
  /\ IF tc[c].status # "SYN_SENT"
     THEN aborted' = "tcp_timeout" /\ Untold /\ UNCHANGED <<tc, ht, faults>>
     ELSE IF GiveUp(c) THEN conn_failed(c, {})
     ELSE /\ tc' = [tc EXCEPT ![c].attempts = @ + 1]
          /\ Untold /\ UNCHANGED <<ht, faults, aborted>>
  /\ UNCHANGED <<arpVars, ports, wait, backlog, cc, appConns, freeIds, sptx, table, app,
                 packets>>

Unlisted(c) == IF Room /\ c \in Range(appConns) THEN Unlink(appConns, c) ELSE appConns

(* tcp_timeout of type TO_TCP_CLOSED: conn_close_timeout.  An answer that  *)
(* finds no room leaves the freed connection in the application's list     *)
(* (fault "spout_full").                                                   *)
CloseTimeout(c) ==
  /\ Running /\ tc[c].timer = "closed"
  /\ ports' = ports \ {tc[c].port}
  /\ ht' = ht \ {c}
  /\ freeIds' = freeIds \cup {tc[c].flow}
  /\ tc' = [tc EXCEPT ![c].status = "freed", ![c].timer = "off"]
  /\ Told(c, "CLOSE", TRUE) /\ faults' = faults \cup Drop
  /\ appConns' = Unlisted(c)
  /\ aborted' \in IF c \notin ht THEN {"conn_unregister"}
                  ELSE IF ~Room THEN {"ok"}
                  ELSE {IF w = "yes" THEN "ok" ELSE "appif_conn_closed" : w \in Walk(c)}
  /\ UNCHANGED <<arpVars, wait, backlog, cc, sptx, table, app, packets>>

-----------------------------------------------------------------------------
(* The firmware: flow_insert does not replace an entry with the same key,  *)
(* and CONN_CLOSE is not implemented.                                      *)
flow_insert ==
  /\ Running /\ sptx # <<>> /\ sptx' = Tail(sptx)
  /\ table' = IF table[Head(sptx).tuple] # 0 THEN table
              ELSE [table EXCEPT ![Head(sptx).tuple] = Head(sptx).flow]
  /\ UNCHANGED <<arpVars, tc, ht, ports, wait, backlog, cc, appConns, freeIds, spout, app,
                 answers, packets, faults, aborted>>

(* The application takes an answer.                                        *)
AppPoll ==
  LET a == Head(spout)
  IN  /\ Running /\ spout # <<>> /\ spout' = Tail(spout)
      /\ app' = IF a.type = "NEWCONN" THEN app
                ELSE [app EXCEPT ![a.conn] =
                        IF a.type = "OPEN" /\ a.ok THEN "open" ELSE "done"]
      /\ UNCHANGED <<arpVars, tc, ht, ports, wait, backlog, cc, appConns, freeIds, sptx,
                     table, answers, packets, faults, aborted>>

Arp(p) ==
  /\ Running /\ (arp_packet(p) \/ arp_timeout(p))
  /\ UNCHANGED <<tc, ht, ports, wait, backlog, cc, appConns, freeIds, sptx, table, spout,
                 app, answers, packets, faults, aborted>>

-----------------------------------------------------------------------------
Request == \E c \in Conns : Accept(c) \/ Close(c) \/ \E p \in Peers : Open(c, p)

Receive ==
  \E p \in Peers, port \in {ListenPort} \cup EphPorts, flags \in {"SYN", "SYNACK", "RST"} :
    Packet(p, port, flags)

Timeout == \E c \in Conns : HandshakeTimeout(c) \/ CloseTimeout(c)

Work == tcp_poll \/ Timeout \/ flow_insert \/ AppPoll \/ \E p \in Peers : Arp(p)

Next == Request \/ Receive \/ Work

Spec == Init /\ [][Next]_vars

(* The main loop polls every source again and again, timers are part of    *)
(* it, the firmware works off its queue and the application its answers.   *)
FairSpec == Spec /\ WF_vars(Work)

-----------------------------------------------------------------------------
Statuses == {"none", "ARP_PENDING", "SYN_SENT", "SYN_WAIT", "REG_SYNACK", "OPEN", "CLOSED",
             "FAILED", "freed"}
Registered == {"ARP_PENDING", "SYN_SENT", "REG_SYNACK", "OPEN", "CLOSED"}
Faults == {"spout_full", "dangling", "add"}

(* The variables have the shapes of the code's structures.                 *)
TypeOK ==
  /\ tc \in [Conns -> [status : Statuses, port : {0, ListenPort} \cup EphPorts,
                       peer : Peers \cup {NULL}, timer : {"off", "handshake", "closed"},
                       attempts : 0..Retries, flow : FlowIds \cup {0}]]
  /\ arp \in [Peers -> [status : {"none", "pending", "ready"}, compl : Seq(Conns),
                        tries : 0..ArpTries]]
  /\ asyncq \in Seq([conn : Conns, ok : BOOLEAN])
  /\ ht \subseteq Conns /\ ports \subseteq EphPorts /\ freeIds \subseteq FlowIds
  /\ wait \in Seq(Conns) /\ cc \in Seq(Conns) /\ appConns \in Seq(Conns)
  /\ backlog \in Seq(Peers) /\ Len(backlog) <= BacklogLen
  /\ sptx \in Seq([tuple : DOMAIN table, flow : FlowIds])
  /\ table \in [({ListenPort} \cup EphPorts) \X Peers -> FlowIds \cup {0}]
  /\ spout \in Seq([conn : Conns \cup {NULL}, type : {"OPEN", "NEWCONN", "CLOSE"},
                    ok : BOOLEAN])
  /\ Len(spout) <= SpoutLen
  /\ app \in [Conns -> {"idle", "opening", "open", "closing", "done"}]
  /\ answers \in [Conns -> Nat] /\ packets \in 0..MaxPackets /\ faults \subseteq Faults

(* A segment reaches one connection: no two in the hash table have the     *)
(* same addresses and ports, though accepted connections share a port, the *)
(* backlog is filled before a connection is registered, and ports are      *)
(* used again.  And what is in the table is what has a life there.         *)
UniqueTuple ==
  /\ \A c, d \in ht : Tuple(c) = Tuple(d) => c = d
  /\ \A c \in Conns : tc[c].status \in Registered =>
       c \in ht \/ (tc[c].status = "REG_SYNACK" /\ c \in Range(wait))

(* The timer of a connection runs exactly while tcp_timeout has something  *)
(* to do for it: no timer is left on a freed or opened connection, none is *)
(* armed twice.                                                            *)
TimerMatchesState ==
  \A c \in Conns : /\ (tc[c].timer = "handshake") <=> (tc[c].status = "SYN_SENT")
                   /\ (tc[c].timer = "closed") <=> (tc[c].status = "CLOSED")

(* A completion that tcp_poll finds in its queue, or that waits at an ARP  *)
(* entry, belongs to a live connection in the state it expects, once.      *)
CompletionsExpected ==
  LET waiting(c) == {p \in Peers : c \in Range(arp[p].compl)}
      queued(c)  == {i \in 1..Len(asyncq) : asyncq[i].conn = c}
  IN  /\ \A c \in Conns : Cardinality(waiting(c)) + Cardinality(queued(c)) =
           IF tc[c].status = "ARP_PENDING" THEN 1
           ELSE IF tc[c].status = "REG_SYNACK" /\ c \in ht THEN 1 ELSE 0
      /\ \A p \in Peers : Resolved(p) => arp[p].compl = <<>>

(* Whatever will wake a connection, timer or completion, finds it alive    *)
(* and in the state its handler expects, and everything that waits has     *)
(* one: the races of timer, resolution, packets and close leave nothing    *)
(* behind.                                                                 *)
WakersMatchState == TimerMatchesState /\ CompletionsExpected

(* A flow id belongs to one connection or is free, and none is lost.       *)
FlowIdsConserved ==
  LET held == {c \in Conns : tc[c].flow # 0 /\ tc[c].status # "freed"}
  IN  /\ \A c, d \in held : tc[c].flow = tc[d].flow => c = d
      /\ freeIds \cap {tc[c].flow : c \in held} = {}
      /\ freeIds \cup {tc[c].flow : c \in held} = FlowIds

(* Hash table, flow ids and the rest of the slow path's state agree.       *)
TablesAgree == TypeOK /\ UniqueTuple /\ FlowIdsConserved

(* Congestion control walks exactly the connections the NIC has a flow     *)
(* for, unless a registration with the NIC failed.                         *)
CcLive ==
  "add" \notin faults =>
    /\ IsInjective(cc)
    /\ Range(cc) = {c \in Conns : tc[c].status \in {"REG_SYNACK", "OPEN"}}

(* The application's list holds live connections only, and every open one  *)
(* the application was told of, unless an open request failed or an answer *)
(* found no room.                                                          *)
AppConnsLive ==
  faults \cap {"dangling", "spout_full"} = {} =>
    /\ IsInjective(appConns)
    /\ \A c \in Conns : c \in Range(appConns) <=>
         tc[c].status \in Registered \ {"REG_SYNACK"}

(* No list that is walked later holds a freed connection.                  *)
ListsLive == CcLive /\ AppConnsLive

(* The slow path reaches an assertion or abort() only after a partial      *)
(* failure: an answer that found no room, a failed open request whose      *)
(* connection stays listed, a registration that failed.                    *)
NoAbort ==
  /\ aborted \in {"ok", "spin_conn_close", "appif_conn_closed", "cc_conn_init"}
  /\ aborted \in {"spin_conn_close", "appif_conn_closed"} =>
       faults \cap {"dangling", "spout_full"} # {}
  /\ aborted = "cc_conn_init" => "add" \in faults

(* Every request to open a connection is answered, and only once, whatever *)
(* gets lost and however the answer races the timer, unless an answer      *)
(* finds no room.                                                          *)
OpenAnswered ==
  \A c \in Conns :
    tc[c].status \in {"ARP_PENDING", "SYN_SENT"} ~>
      [](answers[c] = 1 \/ "spout_full" \in faults \/ aborted # "ok")

(* "disable connection on fastpath" (tcp_close): once it is closed, the    *)
(* NIC does not take segments of one open connection for another's.        *)
ReachesOwnFlow ==
  \A c, d \in Conns : tc[c].status = "OPEN" /\ tc[d].status = "OPEN" /\ c # d =>
                        table[Tuple(c)] # tc[d].flow
=============================================================================
