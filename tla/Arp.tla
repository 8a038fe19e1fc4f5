-------------------------------- MODULE Arp ---------------------------------
(***************************************************************************)
(* Address resolution of the slow path (user/arp.c, user/routing.c): a     *)
(* cache entry per remote address, the connections waiting for it, and the *)
(* queue (conn_async_q of user/tcp.c) that their completions go to.        *)
(***************************************************************************)
EXTENDS Integers, Sequences, Functions, FiniteSetsExt

CONSTANTS
  Conns,      \* connection structs of the slow path
  Peers,      \* remote addresses
  ArpTries    \* requests repeated before arp_to_max is reached

VARIABLES
  arp,        \* arp_table: the entry of an address
  asyncq      \* conn_async_q: completions tcp_poll has not handled

arpVars == <<arp, asyncq>>

NoEntry == [status |-> "none", compl |-> <<>>, tries |-> 0]

ArpInit == arp = [p \in Peers |-> NoEntry] /\ asyncq = <<>>

Resolved(p) == arp[p].status = "ready"

(* arp_request: connection c waits for p's address, the newest first.      *)
arp_request(c, p) ==
  arp' = IF Resolved(p) THEN arp
         ELSE [arp EXCEPT ![p] = [status |-> "pending", compl |-> <<c>> \o @.compl,
                                  tries |-> @.tries]]

Completions(p, ok) ==
  [i \in 1..Len(arp[p].compl) |-> [conn |-> arp[p].compl[i], ok |-> ok]]

(* arp_packet: a reply completes everyone who waits.                       *)
arp_packet(p) ==
  /\ arp[p].status # "none"
  /\ arp' = [arp EXCEPT ![p] = [NoEntry EXCEPT !.status = "ready"]]
  /\ asyncq' = asyncq \o Completions(p, TRUE)

(* arp_timeout: another request, or all fail and the entry goes.           *)
arp_timeout(p) ==
  /\ arp[p].status = "pending"
  /\ IF arp[p].tries < ArpTries
     THEN arp' = [arp EXCEPT ![p].tries = @ + 1] /\ UNCHANGED asyncq
     ELSE arp' = [arp EXCEPT ![p] = NoEntry] /\ asyncq' = asyncq \o Completions(p, FALSE)
=============================================================================
