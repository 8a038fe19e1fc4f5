------------------------------- MODULE HostIf -------------------------------
(***************************************************************************)
(* The NIC's interface to the applications' queues: the four kinds of DMA  *)
(* manager (DmaLoop) together with the stages that feed them and those     *)
(* they feed.                                                              *)
(*                                                                         *)
(*   received segment: postprocess_rx -> rx DMA (payload) -> arx.c -> arx  *)
(*     DMA (notification) -> the application's receive queue               *)
(*   application bump: libTAS transmit queue and doorbell -> atx.c -> atx  *)
(*     DMA (descriptor) -> preprocess_ac ... postprocess_ac, and a null    *)
(*     descriptor through the arx DMA back into the transmit queue         *)
(*   sent segment: postprocess_tx -> tx DMA (payload) -> network           *)
(*                                                                         *)
(* A segment, a bump or a sent segment is a number; what it carries does   *)
(* not matter here.  Queue positions are slots of 32 bytes.                *)
(***************************************************************************)
EXTENDS DmaLoop

CONSTANTS
  Apps,        \* application contexts (doorbells)
  RxqLen,      \* slots of an application's receive queue
  TxqLen,      \* slots of an application's transmit queue
  ProbeMax,    \* slots txq_probe looks at in one call (2 * num)
  ArxDescs,    \* descriptor buffers of arx_desc_pool, without number 0
  AtxDescs,    \* descriptor buffers of atx_desc_pool, without number 0
  DescBatch,   \* descriptors refresh_local_desc_pool moves at once
  DescLow,     \* it moves some when at most so many are left
  ArxThreads,  \* contexts of arx.c that run poll_arx
  Traffic,     \* bounds on segments received (rx), sent (tx) and on bumps:
               \* a set of records, one of which limits a behaviour
  MaxCmds      \* bound on their sum

VARIABLES
  (* NIC *)
  nextId,      \* number of the next segment or bump
  left,        \* segments and bumps still to come
  arxPool,     \* arx_desc_ring: free descriptor buffers
  arxDesc,     \* arx_desc_pool: the segment each buffer notifies of
  arxWq,       \* ARX_WQ: notifications whose payload is done
  arxHeld,     \* those a poll_arx context has taken
  arxPidx,     \* ctx_queues[db].p_idx of arx.c
  atxPool,     \* atx_desc_ring
  nnPool,      \* descriptors in the next-neighbour ring of atx.c
  atxDesc,     \* atx_desc_pool: the bump each buffer holds, 0 for none
  atxQ,        \* ctx_queues[idx] of atx.c: p_idx and c_idx
  polled,      \* doorbell value poll_active_queues has just read
  schedQueue,  \* sched_queue of atx.c
  onQueue,     \* on_queue of atx.c
  acq,         \* actx_bump_ring: descriptors on their way to the AC stages
  (* host *)
  rxq, rxqHead,                  \* receive queue; 0 is an INVALID slot
  txq, txqTail, txqAvail, txDb,  \* transmit queue; txDb is the doorbell
  (* history *)
  parts,       \* number of DMAs of each segment's payload
  notify,      \* segments that carry a notification
  landed,      \* payload parts in host memory (or, for tx, on the NIC)
  sent,        \* how often each segment left the rx or tx DMA manager
  seen,        \* how often each segment was notified to the application
  taken        \* how often each bump reached the AC stages

descVars == <<arxPool, arxDesc, atxPool, atxDesc, acq>>
arxVars == <<arxWq, arxHeld, arxPidx>>
atxVars == <<nnPool, atxQ, polled, schedQueue, onQueue>>
nicVars == <<descVars, arxVars, atxVars>>
hostVars == <<rxq, rxqHead, txq, txqTail, txqAvail, txDb>>
history == <<parts, notify, landed, sent, seen, taken>>
vars == <<loopVars, nextId, left, nicVars, hostVars, history>>

Id == 1..MaxCmds
RxSlot == 0..(RxqLen - 1)
TxSlot == 0..(TxqLen - 1)

Init ==
  /\ LoopInit
  /\ nextId = 1
  /\ left \in Traffic
  /\ arxPool = [i \in 1..ArxDescs |-> i]
  /\ arxDesc = [d \in 1..ArxDescs |-> 0]
  /\ arxWq = <<>> /\ arxHeld = {}
  /\ arxPidx = [a \in Apps |-> 0]
  /\ atxPool = [i \in 1..AtxDescs |-> i]
  /\ nnPool = <<>>
  /\ atxDesc = [d \in 1..AtxDescs |-> 0]
  /\ atxQ = [a \in Apps |-> [p_idx |-> 0, c_idx |-> 0]]
  /\ polled = <<>>
  /\ schedQueue = <<>> /\ onQueue = {}
  /\ acq = {}
  /\ rxq = [a \in Apps |-> [i \in RxSlot |-> 0]]
  /\ rxqHead = [a \in Apps |-> 0]
  /\ txq = [a \in Apps |-> [i \in TxSlot |-> 0]]
  /\ txqTail = [a \in Apps |-> 0]
  /\ txqAvail = [a \in Apps |-> TxqLen - 1]
  /\ txDb = [a \in Apps |-> 0]
  /\ parts = [i \in Id |-> 0] /\ notify = {} /\ landed = {}
  /\ sent = [i \in Id |-> 0] /\ seen = [i \in Id |-> 0] /\ taken = [i \in Id |-> 0]

-----------------------------------------------------------------------------
(* Post-processing.  postprocess_rx: a segment has no, one or (when it     *)
(* wraps) two payload DMAs, and a notification or none.  Without payload   *)
(* prepare_dma_cmd returns an uninitialized value, and either ring is used.*)
PostRx(a, dmas, ac) ==
  LET desc == IF ac THEN Head(arxPool) ELSE 0
      cmd  == [kind |-> "rx", id |-> nextId, app |-> a, dmas |-> dmas, desc |-> desc]
  IN  /\ left.rx > 0 /\ left' = [left EXCEPT !.rx = @ - 1]
      /\ ac => arxPool # <<>>
      /\ \E r \in {"rx", "rx_excep"} :
           /\ dmas = 1 => r = "rx"
           /\ dmas = 2 => r = "rx_excep"
           /\ AddWork(r, cmd)
      /\ nextId' = nextId + 1
      /\ arxPool' = IF ac THEN Tail(arxPool) ELSE arxPool
      /\ arxDesc' = IF ac THEN [arxDesc EXCEPT ![desc] = nextId] ELSE arxDesc
      /\ parts' = [parts EXCEPT ![nextId] = dmas]
      /\ notify' = IF ac THEN notify \cup {nextId} ELSE notify
      /\ UNCHANGED <<slotVars, hostVars, arxVars, atxVars, atxPool, atxDesc, acq,
                     landed, sent, seen, taken>>

(* postprocess_tx: only segments with payload go to the tx DMA managers.   *)
PostTx(dmas) ==
  /\ left.tx > 0 /\ left' = [left EXCEPT !.tx = @ - 1]
  /\ AddWork(IF dmas = 2 THEN "tx_excep" ELSE "tx",
             [kind |-> "tx", id |-> nextId, dmas |-> dmas])
  /\ nextId' = nextId + 1
  /\ parts' = [parts EXCEPT ![nextId] = dmas]
  /\ UNCHANGED <<slotVars, nicVars, hostVars, notify, landed, sent, seen, taken>>

(* Mutant: the descriptor buffer is not freed.                             *)
AcBumpLeak(d) ==
  /\ d \in acq
  /\ acq' = acq \ {d}
  /\ taken' = [i \in Id |-> taken[i] + (IF atxDesc[d] = i THEN 1 ELSE 0)]
  /\ UNCHANGED <<loopVars, hostVars, arxVars, atxVars, nextId, left, arxPool, arxDesc,
                 atxPool, atxDesc, parts, notify, landed, sent, seen>>

(* preprocess_ac ... postprocess_ac: the bump in the descriptor buffer is  *)
(* applied to its flow and the buffer freed.                               *)
AcBump(d) ==
  /\ d \in acq
  /\ acq' = acq \ {d}
  /\ taken' = [i \in Id |-> taken[i] + (IF atxDesc[d] = i THEN 1 ELSE 0)]
  /\ atxPool' = Append(atxPool, d)
  /\ UNCHANGED <<loopVars, hostVars, arxVars, atxVars, nextId, left, arxPool, arxDesc,
                 atxDesc, parts, notify, landed, sent, seen>>

-----------------------------------------------------------------------------
(* DMA managers.  A manager starts the DMA of a command; DMAs land.        *)
StartDma(c) ==
  /\ ProcCmd(c)
  /\ UNCHANGED <<nextId, left, nicVars, hostVars, history>>

(* What a DMA writes when it lands: payload, a notification or a null      *)
(* descriptor into a host queue, a descriptor into the NIC's pool.         *)
LandPayload(k, i) ==
  LET d == pcie[k][i]
  IN  /\ d.cmd.kind \in {"rx", "tx"}
      /\ landed' = landed \cup {<<d.cmd.id, d.part>>}
      /\ UNCHANGED <<hostVars, nicVars>>

LandNotice(k, i) ==
  LET cmd == pcie[k][i].cmd
  IN  /\ cmd.kind = "notice"
      /\ rxq' = [rxq EXCEPT ![cmd.app][cmd.pos] = arxDesc[cmd.desc]]
      /\ UNCHANGED <<landed, nicVars, rxqHead, txq, txqTail, txqAvail, txDb>>

LandNull(k, i) ==
  LET cmd == pcie[k][i].cmd
  IN  /\ cmd.kind = "null"
      /\ txq' = [txq EXCEPT ![cmd.app][cmd.pos] = 0]
      /\ UNCHANGED <<landed, nicVars, rxq, rxqHead, txqTail, txqAvail, txDb>>

LandDesc(k, i) ==
  LET cmd == pcie[k][i].cmd
  IN  /\ cmd.kind = "bump"
      /\ atxDesc' = [atxDesc EXCEPT ![cmd.desc] = txq[cmd.app][cmd.pos]]
      /\ UNCHANGED <<landed, hostVars, arxVars, atxVars, arxPool, arxDesc, atxPool, acq>>

LandStep ==
  \E k \in PcieQueues : \E i \in 1..Len(pcie[k]) :
    /\ MayLand(k, i)
    /\ Land(k, i)
    /\ LandPayload(k, i) \/ LandNotice(k, i) \/ LandNull(k, i) \/ LandDesc(k, i)
    /\ UNCHANGED <<nextId, left, parts, notify, sent, seen, taken>>

(* issue_fwd of dma_rx.c (and issue_fwd_rx): the packet becomes an         *)
(* acknowledgement or is dropped, and its notification goes to arx.c.      *)
RxForward(c) ==
  LET cmd == backup[c][Oldest(c)]
  IN  /\ ProcDma(c) /\ UNCHANGED workVars
      /\ sent' = [sent EXCEPT ![cmd.id] = @ + 1]
      /\ arxWq' = IF cmd.desc # 0
                  THEN Append(arxWq, [app |-> cmd.app, desc |-> cmd.desc]) ELSE arxWq
      /\ UNCHANGED <<nextId, left, hostVars, descVars, atxVars, arxHeld, arxPidx, parts,
                     notify, landed, seen, taken>>

(* issue_fwd of dma_tx.c (and issue_fwd_tx): the segment is sent.          *)
TxForward(c) ==
  /\ ProcDma(c) /\ UNCHANGED workVars
  /\ sent' = [sent EXCEPT ![backup[c][Oldest(c)].id] = @ + 1]
  /\ UNCHANGED <<nextId, left, nicVars, hostVars, parts, notify, landed, seen, taken>>

(* issue_fwd of dma_arx.c: the descriptor buffer is free again; number 0   *)
(* is the null descriptor and stays.                                       *)
ArxForward(c) ==
  LET desc == backup[c][Oldest(c)].desc
  IN  /\ ProcDma(c) /\ UNCHANGED workVars
      /\ arxPool' = IF desc # 0 THEN Append(arxPool, desc) ELSE arxPool
      /\ UNCHANGED <<nextId, left, hostVars, history, arxVars, atxVars, arxDesc, atxPool,
                     atxDesc, acq>>

(* issue_fwd of dma_atx.c: the descriptor goes to pre-processing, and a    *)
(* null descriptor overwrites the application's slot.                      *)
AtxForward(c) ==
  LET cmd  == backup[c][Oldest(c)]
      null == [kind |-> "null", app |-> cmd.app, pos |-> cmd.pos, desc |-> 0, dmas |-> 1]
  IN  /\ ProcDma(c) /\ AddWork("arx", null)
      /\ acq' = acq \cup {cmd.desc}
      /\ UNCHANGED <<nextId, left, hostVars, history, arxVars, atxVars, arxPool, arxDesc,
                     atxPool, atxDesc>>

(* The loops of the managers; dma_rxtx.c runs two.                         *)
DmaRx(c) == RingOf[c] = "rx" /\ (StartDma(c) \/ RxForward(c))

DmaRxExcep(c) == RingOf[c] = "rx_excep" /\ (StartDma(c) \/ RxForward(c))

DmaTx(c) == RingOf[c] = "tx" /\ (StartDma(c) \/ TxForward(c))

DmaTxExcep(c) == RingOf[c] = "tx_excep" /\ (StartDma(c) \/ TxForward(c))

DmaArx(c) == RingOf[c] = "arx" /\ (StartDma(c) \/ ArxForward(c))

DmaAtx(c) == RingOf[c] = "atx" /\ (StartDma(c) \/ AtxForward(c))

-----------------------------------------------------------------------------
(* arx.c.  A context takes the oldest notification; it assigns the next    *)
(* slot of the receive queue when it runs, which may be after a context    *)
(* that took a later one.  The test for a full queue is compiled out.      *)
ArxTake ==
  /\ arxWq # <<>> /\ Cardinality(arxHeld) < ArxThreads
  /\ arxHeld' = arxHeld \cup {Head(arxWq)}
  /\ arxWq' = Tail(arxWq)
  /\ UNCHANGED <<loopVars, nextId, left, hostVars, history, descVars, atxVars, arxPidx>>

PollArx(h) ==
  /\ h \in arxHeld
  /\ AddWork("arx", [kind |-> "notice", app |-> h.app, pos |-> arxPidx[h.app],
                     desc |-> h.desc, dmas |-> 1])
  /\ arxPidx' = [arxPidx EXCEPT ![h.app] = (@ + 1) % RxqLen]
  /\ arxHeld' = arxHeld \ {h}
  /\ UNCHANGED <<slotVars, nextId, left, hostVars, history, descVars, atxVars, arxWq>>

-----------------------------------------------------------------------------
(* atx.c.  refresh_local_desc_pool.                                        *)
RefreshDescPool ==
  /\ Len(nnPool) <= DescLow /\ Len(atxPool) >= DescBatch
  /\ nnPool' = nnPool \o SubSeq(atxPool, 1, DescBatch)
  /\ atxPool' = SubSeq(atxPool, DescBatch + 1, Len(atxPool))
  /\ UNCHANGED <<loopVars, nextId, left, hostVars, history, arxVars, arxPool, arxDesc,
                 atxDesc, acq, atxQ, polled, schedQueue, onQueue>>

(* poll_active_queues: the doorbell is read, then, after other contexts    *)
(* may have run, stored; a context with work is queued unless it is.       *)
ReadDoorbell(a) ==
  /\ polled = <<>>
  /\ polled' = <<a, txDb[a]>>
  /\ UNCHANGED <<loopVars, nextId, left, hostVars, history, arxVars, descVars, nnPool,
                 atxQ, schedQueue, onQueue>>

StoreDoorbell ==
  /\ polled # <<>>
  /\ LET a    == polled[1]
         tail == polled[2]
         work == a \notin onQueue /\ tail # atxQ[a].c_idx
     IN  /\ atxQ' = [atxQ EXCEPT ![a].p_idx = tail]
         /\ schedQueue' = IF work THEN Append(schedQueue, a) ELSE schedQueue
         /\ onQueue' = IF work THEN onQueue \cup {a} ELSE onQueue
  /\ polled' = <<>>
  /\ UNCHANGED <<loopVars, nextId, left, hostVars, history, arxVars, descVars, nnPool>>

(* Mutants: c_idx is not advanced; the on_queue bit is not cleared.        *)
PollBumpStay ==
  /\ nnPool # <<>> /\ schedQueue # <<>>
  /\ LET a    == Head(schedQueue)
         head == atxQ[a].c_idx
         next == (head + 1) % TxqLen
         more == atxQ[a].p_idx # next
     IN  /\ AddWork("atx", [kind |-> "bump", app |-> a, pos |-> head,
                            desc |-> Head(nnPool), dmas |-> 1])
         /\ atxQ' = [atxQ EXCEPT ![a].c_idx = head]
         /\ schedQueue' = IF more THEN Append(Tail(schedQueue), a) ELSE Tail(schedQueue)
         /\ onQueue' = IF more THEN onQueue ELSE onQueue \ {a}
  /\ nnPool' = Tail(nnPool)
  /\ UNCHANGED <<slotVars, nextId, left, hostVars, history, arxVars, descVars, polled>>

PollBumpBit ==
  /\ nnPool # <<>> /\ schedQueue # <<>>
  /\ LET a    == Head(schedQueue)
         head == atxQ[a].c_idx
         next == (head + 1) % TxqLen
         more == atxQ[a].p_idx # next
     IN  /\ AddWork("atx", [kind |-> "bump", app |-> a, pos |-> head,
                            desc |-> Head(nnPool), dmas |-> 1])
         /\ atxQ' = [atxQ EXCEPT ![a].c_idx = next]
         /\ schedQueue' = IF more THEN Append(Tail(schedQueue), a) ELSE Tail(schedQueue)
         /\ onQueue' = onQueue
  /\ nnPool' = Tail(nnPool)
  /\ UNCHANGED <<slotVars, nextId, left, hostVars, history, arxVars, descVars, polled>>

(* poll_bump: a context with a descriptor buffer takes the next descriptor *)
(* of the first application context that has work.                         *)
PollBump ==
  /\ nnPool # <<>> /\ schedQueue # <<>>
  /\ LET a    == Head(schedQueue)
         head == atxQ[a].c_idx
         next == (head + 1) % TxqLen
         more == atxQ[a].p_idx # next
     IN  /\ AddWork("atx", [kind |-> "bump", app |-> a, pos |-> head,
                            desc |-> Head(nnPool), dmas |-> 1])
         /\ atxQ' = [atxQ EXCEPT ![a].c_idx = next]
         /\ schedQueue' = IF more THEN Append(Tail(schedQueue), a) ELSE Tail(schedQueue)
         /\ onQueue' = IF more THEN onQueue ELSE onQueue \ {a}
  /\ nnPool' = Tail(nnPool)
  /\ UNCHANGED <<slotVars, nextId, left, hostVars, history, arxVars, descVars, polled>>

-----------------------------------------------------------------------------
(* libTAS.  conns_bump: n descriptors are allocated and written, then the  *)
(* doorbell is rung.                                                       *)
ConnsBump(a, n) ==
  /\ n <= txqAvail[a]
  /\ left.bump >= n /\ left' = [left EXCEPT !.bump = @ - n]
  /\ txq' = [txq EXCEPT ![a] = [i \in TxSlot |->
       LET j == (i - txqTail[a]) % TxqLen
       IN  IF j < n THEN nextId + j ELSE txq[a][i]]]
  /\ txqTail' = [txqTail EXCEPT ![a] = (@ + n) % TxqLen]
  /\ txqAvail' = [txqAvail EXCEPT ![a] = @ - n]
  /\ txDb' = [txDb EXCEPT ![a] = txqTail'[a]]
  /\ nextId' = nextId + n
  /\ UNCHANGED <<loopVars, nicVars, rxq, rxqHead, history>>

(* txq_probe: slots the NIC has nulled are available again.                *)
Probed(a, n) ==
  \A i \in 1..n : txq[a][(txqTail[a] + txqAvail[a] + i) % TxqLen] = 0

TxqProbe(a) ==
  /\ txqAvail[a] <= TxqLen \div 2
  /\ LET most == Min({ProbeMax, TxqLen - txqAvail[a]})
         n    == Max({m \in 0..most : Probed(a, m)})
     IN  txqAvail' = [txqAvail EXCEPT ![a] = @ + n]
  /\ UNCHANGED <<loopVars, nextId, left, nicVars, history, rxq, rxqHead, txq, txqTail, txDb>>

(* fastpath_poll: the application takes the notification at its head.      *)
FastpathPoll(a) ==
  LET s == rxq[a][rxqHead[a]]
  IN  /\ s # 0
      /\ seen' = [seen EXCEPT ![s] = @ + 1]
      /\ rxq' = [rxq EXCEPT ![a][rxqHead[a]] = 0]
      /\ rxqHead' = [rxqHead EXCEPT ![a] = (@ + 1) % RxqLen]
      /\ UNCHANGED <<loopVars, nextId, left, nicVars, txq, txqTail, txqAvail, txDb, parts,
                     notify, landed, sent, taken>>

-----------------------------------------------------------------------------
Post ==
  \/ \E a \in Apps, dmas \in 0..2, ac \in BOOLEAN : PostRx(a, dmas, ac)
  \/ \E dmas \in 1..2 : PostTx(dmas)
  \/ \E a \in Apps, n \in 1..MaxCmds : ConnsBump(a, n)

Dma ==
  \E c \in Ctx :
    DmaRx(c) \/ DmaRxExcep(c) \/ DmaTx(c) \/ DmaTxExcep(c) \/ DmaArx(c) \/ DmaAtx(c)

Arx == ArxTake \/ \E h \in arxHeld : PollArx(h)

Atx ==
  \/ RefreshDescPool \/ StoreDoorbell \/ PollBump
  \/ \E a \in Apps : ReadDoorbell(a)

Host == \E a \in Apps : TxqProbe(a) \/ FastpathPoll(a)

Ac == \E d \in acq : AcBump(d)

Next == Post \/ Dma \/ LandStep \/ Arx \/ Atx \/ Host \/ Ac

Spec == Init /\ [][Next]_vars

(* As long as a context of the NIC has been signalled, a DMA is in flight  *)
(* or a notification is in a receive queue, one of them goes on; there is  *)
(* a finite amount of such work, so it need not be said which.             *)
(* poll_active_queues never stops reading doorbells, and visits every      *)
(* context in turn.                                                        *)
Work ==
  \/ Ac \/ Dma \/ LandStep \/ Arx \/ PollBump \/ RefreshDescPool
  \/ \E a \in Apps : FastpathPoll(a)

Fairness ==
  /\ WF_vars(Work) /\ WF_vars(StoreDoorbell)
  /\ \A a \in Apps : SF_vars(ReadDoorbell(a))

FairSpec == Spec /\ Fairness

-----------------------------------------------------------------------------
Cmd ==
  [kind : {"rx"}, id : Id, app : Apps, dmas : 0..2, desc : 0..ArxDescs] \cup
  [kind : {"tx"}, id : Id, dmas : 1..2] \cup
  [kind : {"bump"}, app : Apps, pos : TxSlot, desc : 1..AtxDescs, dmas : {1}] \cup
  [kind : {"notice"}, app : Apps, pos : RxSlot, desc : 1..ArxDescs, dmas : {1}] \cup
  [kind : {"null"}, app : Apps, pos : TxSlot, desc : {0}, dmas : {1}]

(* Kinds of command each ring carries.                                     *)
Carries(r) ==
  CASE r \in {"rx", "rx_excep"} -> {"rx"}
    [] r \in {"tx", "tx_excep"} -> {"tx"}
    [] r = "atx" -> {"bump"}
    [] r = "arx" -> {"notice", "null"}

(* Commands and positions stay within their rings and queues, and a label  *)
(* state_P_Q exists for every P and Q reached.                             *)
TypeOK ==
  /\ \A r \in Rings : \A cmd \in Pending(r) : cmd \in Cmd /\ cmd.kind \in Carries(r)
  /\ \A c \in Ctx : p[c] \in Slot(c) /\ q[c] \in 0..Slots(c) /\ done[c] \subseteq Flying(c)
  /\ \A a \in Apps :
       /\ rxq[a] \in [RxSlot -> 0..MaxCmds] /\ rxqHead[a] \in RxSlot
       /\ txq[a] \in [TxSlot -> 0..MaxCmds] /\ {txqTail[a], txDb[a]} \subseteq TxSlot
       /\ txqAvail[a] \in 0..(TxqLen - 1) /\ arxPidx[a] \in RxSlot
       /\ atxQ[a] \in [p_idx : TxSlot, c_idx : TxSlot]

(* Payload comes first.  A packet leaves a DMA manager only when its whole *)
(* payload has been moved: an rx packet's buffer is not freed or reused,   *)
(* and a tx packet is not sent, while a DMA still reads or writes it.  And *)
(* a notification the application can see is of a segment whose payload is *)
(* in host memory.  A slot's command is never overwritten by the command   *)
(* fetched into its register meanwhile.                                    *)
Visible(i) == seen[i] > 0 \/ \E a \in Apps : i \in Range(rxq[a])

PayloadFirst ==
  \A i \in Id : sent[i] > 0 \/ Visible(i) => \A k \in 1..parts[i] : <<i, k>> \in landed

(* Every segment is forwarded, every notification seen and every bump      *)
(* applied at most once: no descriptor buffer or queue slot is reused      *)
(* while something still refers to it.                                     *)
AtMostOnce == \A i \in Id : sent[i] <= 1 /\ seen[i] <= 1 /\ taken[i] <= 1

(* Descriptor buffers.  Each buffer is free or used by one command, never  *)
(* both and never lost, across the two pools, the next-neighbour ring and  *)
(* five work rings; and every command and position is within its type.     *)
ArxUsers ==
  {cmd \in Pending("rx") \cup Pending("rx_excep") \cup Pending("arx") : cmd.desc # 0}
  \cup Range(arxWq) \cup arxHeld

DescsConserved ==
  /\ TypeOK
  /\ \A d \in 1..ArxDescs :
       Cardinality({i \in DOMAIN arxPool : arxPool[i] = d}) +
       Cardinality({u \in ArxUsers : u.desc = d}) = 1
  /\ \A d \in 1..AtxDescs :
       Cardinality({i \in DOMAIN (atxPool \o nnPool) : (atxPool \o nnPool)[i] = d}) +
       Cardinality({u \in Pending("atx") : u.desc = d}) +
       Cardinality({u \in acq : u = d}) = 1

(* An application context is on sched_queue exactly when its on_queue bit  *)
(* is set, and once, so the queue of as many slots as contexts never       *)
(* overflows; a context with unread descriptors is on it.                  *)
SchedOnce ==
  /\ IsInjective(schedQueue) /\ onQueue = Range(schedQueue)
  /\ \A a \in Apps : atxQ[a].p_idx # atxQ[a].c_idx => a \in onQueue

(* Neither a descriptor buffer nor a place on sched_queue is lost or given *)
(* out twice, in whatever order arx.c, atx.c and the DMA managers run.     *)
QueuesConserved == DescsConserved /\ SchedOnce

(* Every segment eventually leaves the NIC, every notification reaches the *)
(* application and every bump its flow.                                    *)
AllArrive ==
  \A i \in Id : (i < nextId) ~>
    (sent[i] + taken[i] = 1 /\ (i \in notify => seen[i] = 1))
=============================================================================
