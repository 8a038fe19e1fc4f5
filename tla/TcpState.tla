------------------------------ MODULE TcpState ------------------------------
(***************************************************************************)
(* The inductive invariant of connection setup and teardown (Tcp), and the *)
(* notions its proofs are made of.                                         *)
(***************************************************************************)
EXTENDS Tcp

(* The connections whose completions are in queue q.                       *)
Queued(q) == {q[i].conn : i \in 1..Len(q)}

Once(q) == \A i, j \in 1..Len(q) : q[i].conn = q[j].conn => i = j

(* The connections that wait for the address p.                            *)
Resolving(p) == Range(arp[p].compl)

(* An accepted connection that is registered and not yet announced.        *)
Accepted(c) == tc[c].status = "REG_SYNACK" /\ c \notin Range(wait)

(* The NIC has a flow for it.                                              *)
Holds(c) == tc[c].status \in {"OPEN", "CLOSED"} \/ Accepted(c)

(* The hash table, the listener and the timers by the status.              *)
PlaceInv(c) ==
  /\ app[c] = "idle" => tc[c].status = "none"
  /\ c \in ht <=> tc[c].status \in {"ARP_PENDING", "SYN_SENT"} \/ Holds(c)
  /\ tc[c].status = "SYN_WAIT" => c \in Range(wait)
  /\ c \in Range(wait) => tc[c].status \in {"SYN_WAIT", "REG_SYNACK"}
  /\ tc[c].timer = "handshake" <=> tc[c].status = "SYN_SENT"
  /\ tc[c].timer = "closed" <=> tc[c].status = "CLOSED"
  /\ tc[c].status # "freed" => (tc[c].flow # 0 <=> Holds(c))
  /\ c \in ht => tc[c].peer \in Peers /\ tc[c].port \in {ListenPort} \cup ports

(* Its completion.                                                         *)
WakeInv(c) ==
  /\ c \in Queued(asyncq) => tc[c].status = "ARP_PENDING" \/ Accepted(c)
  /\ \A p \in Peers : c \in Resolving(p) =>
       tc[c].status = "ARP_PENDING" /\ tc[c].peer = p /\ c \notin Queued(asyncq)
  /\ tc[c].status = "ARP_PENDING" => c \in Queued(asyncq) \/ c \in Resolving(tc[c].peer)
  /\ Accepted(c) => c \in Queued(asyncq)

(* The lists of congestion control and of the application.                 *)
ListInv(c) ==
  /\ c \in Range(cc) => tc[c].status \in {"REG_SYNACK", "OPEN", "FAILED", "freed"}
  /\ tc[c].status \in {"REG_SYNACK", "OPEN"} => c \in Range(cc)
  /\ c \in Range(cc) /\ tc[c].status \in {"FAILED", "freed"} => "add" \in faults
  /\ tc[c].status = "REG_SYNACK" /\ c \in Range(wait) => "add" \in faults
  /\ faults \cap {"dangling", "spout_full"} = {} =>
       (c \in Range(appConns) <=> tc[c].status \in Registered \ {"REG_SYNACK"})

ConnInv(c) == PlaceInv(c) /\ WakeInv(c) /\ ListInv(c)

(* No connection is twice in a list.                                       *)
OnceInv ==
  /\ IsInjective(wait) /\ IsInjective(backlog) /\ Once(asyncq)
  /\ \A p \in Peers : IsInjective(arp[p].compl) /\ (Resolved(p) => arp[p].compl = <<>>)
  /\ aborted # "cc_conn_init" => IsInjective(cc)
  /\ faults \cap {"dangling", "spout_full"} = {} => IsInjective(appConns)

(* An ephemeral port is one connection's, the listener's is shared by      *)
(* connections from different peers, none of which is in the backlog.      *)
TupleInv ==
  /\ \A c, d \in ht : c # d /\ tc[c].port = tc[d].port =>
       tc[c].port = ListenPort /\ tc[c].peer # tc[d].peer
  /\ \A c \in ht : tc[c].port = ListenPort => tc[c].peer \notin Range(backlog)

FlowInv ==
  /\ \A c, d \in Conns : Holds(c) /\ Holds(d) /\ tc[c].flow = tc[d].flow => c = d
  /\ \A c \in Conns : Holds(c) => tc[c].flow \notin freeIds
  /\ \A f \in FlowIds \ freeIds : \E c \in Conns : Holds(c) /\ tc[c].flow = f

TcpInv ==
  /\ TypeOK /\ OnceInv /\ TupleInv /\ FlowInv /\ NoAbort
  /\ \A c \in Conns : ConnInv(c)

Entries == [conn : Conns, ok : BOOLEAN]

(* Connection d is what it was and where it was.                           *)
Same(d) ==
  /\ tc'[d] = tc[d]
  /\ d \in ht' <=> d \in ht
  /\ d \in Range(wait') <=> d \in Range(wait)
  /\ d \in Queued(asyncq') <=> d \in Queued(asyncq)
  /\ \A p \in Peers : d \in Range(arp'[p].compl) <=> d \in Range(arp[p].compl)
  /\ d \in Range(cc') <=> d \in Range(cc)
  /\ faults' \cap {"dangling", "spout_full"} = {} =>
       (d \in Range(appConns') <=> d \in Range(appConns))
  /\ app'[d] = "idle" => app[d] = "idle"
  /\ d \in ht /\ tc[d].port \in ports => tc[d].port \in ports'

Others(c) == \A d \in Conns \ {c} : Same(d)

(* The type invariant, by the part of the state.                           *)
Structs ==
  [status : Statuses, port : {0, ListenPort} \cup EphPorts, peer : Peers \cup {NULL},
   timer : {"off", "handshake", "closed"}, attempts : 0..Retries, flow : FlowIds \cup {0}]

ArpEntries ==
  [status : {"none", "pending", "ready"}, compl : Seq(Conns), tries : 0..ArpTries]

Tuples == ({ListenPort} \cup EphPorts) \X Peers

Answers == [conn : Conns \cup {NULL}, type : {"OPEN", "NEWCONN", "CLOSE"}, ok : BOOLEAN]

TypeConn == tc \in [Conns -> Structs]

TypeArp == arp \in [Peers -> ArpEntries] /\ asyncq \in Seq(Entries)

TypeLists ==
  /\ ht \subseteq Conns /\ ports \subseteq EphPorts
  /\ wait \in Seq(Conns) /\ cc \in Seq(Conns) /\ appConns \in Seq(Conns)
  /\ backlog \in Seq(Peers) /\ Len(backlog) <= BacklogLen

TypeNic ==
  /\ freeIds \subseteq FlowIds
  /\ sptx \in Seq([tuple : Tuples, flow : FlowIds])
  /\ table \in [Tuples -> FlowIds \cup {0}]

TypeApp ==
  /\ spout \in Seq(Answers) /\ Len(spout) <= SpoutLen
  /\ app \in [Conns -> {"idle", "opening", "open", "closing", "done"}]
  /\ answers \in [Conns -> Nat] /\ packets \in 0..MaxPackets /\ faults \subseteq Faults

(* What tcp_accept and listener_packet leave to listener_accept: waiting   *)
(* requests w, the last of which is c, and a backlog b of new peers.       *)
RequestReady(cs, c, w) ==
  /\ cs \in [Conns -> Structs] /\ w \in Seq(Conns) /\ w # <<>> /\ c = Head(w)
  /\ IsInjective(w)
  /\ \A d \in Conns \ {c} : cs[d] = tc[d] /\ (d \in Range(w) <=> d \in Range(wait))
  /\ cs[c].status \in {"SYN_WAIT", "REG_SYNACK"} /\ cs[c].timer = "off" /\ cs[c].flow = 0
  /\ cs[c].status = "REG_SYNACK" <=> c \in Range(cc)
  /\ cs[c].status = "REG_SYNACK" => "add" \in faults
  /\ c \notin ht /\ c \notin Queued(asyncq) /\ ~Holds(c)
  /\ \A p \in Peers : c \notin Resolving(p)
  /\ faults \cap {"dangling", "spout_full"} = {} => c \notin Range(appConns)
  /\ app'[c] # "idle"
  /\ \A d \in Conns \ {c} : app'[d] = "idle" => app[d] = "idle"

BacklogReady(b) ==
  /\ b \in Seq(Peers) /\ Len(b) <= BacklogLen /\ IsInjective(b)
  /\ \A d \in ht : tc[d].port = ListenPort => tc[d].peer \notin Range(b)

AcceptReady(cs, c, w, b) == RequestReady(cs, c, w) /\ BacklogReady(b) /\ b # <<>>

(* What listener_accept does not change, and what its callers do.          *)
AcceptFrame ==
  /\ UNCHANGED <<arp, ports, appConns, table>>
  /\ spout' \in Seq(Answers) /\ Len(spout') <= SpoutLen /\ answers' \in [Conns -> Nat]
  /\ app' \in [Conns -> {"idle", "opening", "open", "closing", "done"}]
  /\ packets' \in 0..MaxPackets
=============================================================================
