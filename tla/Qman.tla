-------------------------------- MODULE Qman --------------------------------
(***************************************************************************)
(* The flow scheduler (firmware/qman.c) with its two neighbours in post-   *)
(* processing: push_qm_bump, which tells it of bytes that became           *)
(* sendable, and postprocess_tx, which hands back a credit for each        *)
(* transmit operation.                                                     *)
(*                                                                         *)
(* A flow with sendable bytes is represented by a token that travels       *)
(* between the bump ring, the local FIFO, the FIFO ring and the slots of   *)
(* the timing wheel.  The contexts of the micro-engine are cooperative:    *)
(* one runs until it waits for memory, so an action is what a context does *)
(* between two waits.                                                      *)
(*                                                                         *)
(* queue_status and queue_status_fifo count the entries of a ring and are  *)
(* represented by its length; the flow-group bits of a token select a      *)
(* schedule ring and are left out.                                         *)
(***************************************************************************)
EXTENDS Integers, Sequences, Functions

CONSTANTS
  Flows,        \* flow ids
  SlotCtx,      \* contexts 4 to 7, which run queue_slot_poll
  TcpMss,       \* TCP_MSS
  LocalCap,     \* entries the local FIFO can hold, QM_LOCAL_FIFO - 1
  LocalMax,     \* 0x4000, the largest count kept in the local FIFO
  NumSlots,     \* QM_NUM_SLOTS
  TsUnit,       \* cycles per slot
  Rates,        \* transmission rates the slow path may set; 0 is unlimited
  FifoBatch,    \* tokens one mem_ring_get_freely returns
  MaxInflight,  \* FLOW_QM_CREDITS
  MaxBytes,     \* bound: bytes that become sendable on a flow
  MaxForce      \* bound: forced window updates

ASSUME QmanAssumption ==
  /\ 0 \notin Flows /\ 0 \notin SlotCtx
  /\ TcpMss \in Nat \ {0} /\ LocalCap \in Nat
  /\ LocalMax \in Nat /\ TcpMss <= LocalMax
  /\ NumSlots \in Nat \ {0} /\ TsUnit \in Nat \ {0} /\ Rates \subseteq Nat
  /\ FifoBatch \in Nat \ {0} /\ MaxInflight \in Nat \ {0, 1}
  /\ MaxBytes \in Nat /\ MaxForce \in Nat

VARIABLES
  qavail,     \* flows_cc_info[f].tx_avail
  rate,       \* flows_cc_info[f].tx_rate
  pushing,    \* post-processing contexts about to push a token, per flow
  bumpRing,   \* qm_bump_ring
  polled,     \* token held by queue_postproc_poll with the values it read
  localFifo,  \* queue_local_fifo
  fifo,       \* the FIFO ring
  batch,      \* tokens queue_fifo_poll has fetched
  answer,     \* what test_subsat returned to a context that scheduled a flow
  slot,       \* the rings of the timing wheel
  held,       \* token a slot context has fetched
  current,    \* current_slot
  skip,       \* skip_slot
  credits,    \* local credits
  qmCredits,  \* qm_credits, credits handed back
  sched,      \* scheduled transmit operations that are not finished, per flow
  ready,      \* bytes the protocol stage can send, per flow
  bumped,     \* bytes that ever became sendable, per flow
  forced      \* forced updates so far

vars == <<qavail, rate, pushing, bumpRing, polled, localFifo, fifo, batch, answer,
          slot, held, current, skip, credits, qmCredits, sched, ready, bumped, forced>>

None == 0                                   \* flow id 0 is never used
FifoCtx == 0                                \* context 3, queue_fifo_poll
Token == [f : Flows \cup {None}, avail : Nat, rate : Nat]
Idle == [f |-> None, avail |-> 0, rate |-> 0]
Slots == 0..(NumSlots - 1)
Smaller(a, b) == IF a <= b THEN a ELSE b

TypeOK ==
  /\ qavail \in [Flows -> Nat] /\ rate \in [Flows -> Rates]
  /\ pushing \in [Flows -> Nat]
  /\ bumpRing \in Seq(Flows) /\ fifo \in Seq(Flows) /\ batch \in Seq(Flows)
  /\ polled \in Token /\ answer \in [SlotCtx \cup {FifoCtx} -> Token]
  /\ localFifo \in Seq([f : Flows, avail : Nat]) /\ Len(localFifo) <= LocalCap
  /\ slot \in [Slots -> Seq(Flows)]
  /\ held \in [SlotCtx -> Flows \cup {None}]
  /\ current \in Slots /\ skip \in {0, 1}
  /\ credits \in Nat /\ qmCredits \in Nat
  /\ sched \in [Flows -> Nat]
  /\ ready \in [Flows -> Nat] /\ bumped \in [Flows -> 0..MaxBytes]
  /\ forced \in 0..MaxForce

Init ==
  /\ qavail = [f \in Flows |-> 0]
  /\ rate \in [Flows -> Rates]
  /\ pushing = [f \in Flows |-> 0]
  /\ bumpRing = <<>> /\ polled = Idle /\ localFifo = <<>> /\ fifo = <<>> /\ batch = <<>>
  /\ answer = [c \in SlotCtx \cup {FifoCtx} |-> Idle]
  /\ slot = [s \in Slots |-> <<>>] /\ held = [c \in SlotCtx |-> None]
  /\ current = 0 /\ skip = 0
  /\ credits = (3 * MaxInflight) \div 4 - 1 /\ qmCredits = 0
  /\ sched = [f \in Flows |-> 0]
  /\ ready = [f \in Flows |-> 0] /\ bumped = [f \in Flows |-> 0] /\ forced = 0

-----------------------------------------------------------------------------
(* The neighbours.                                                         *)

(* Mutant: the token is owed when the bump is small, not the count.        *)
BumpSmall(f, n) ==
  /\ bumped[f] + n <= MaxBytes
  /\ bumped' = [bumped EXCEPT ![f] = @ + n]
  /\ ready' = [ready EXCEPT ![f] = @ + n]
  /\ qavail' = [qavail EXCEPT ![f] = @ + n]
  /\ pushing' = IF n < TcpMss THEN [pushing EXCEPT ![f] = @ + 1] ELSE pushing
  /\ UNCHANGED <<rate, bumpRing, polled, localFifo, fifo, batch, answer, slot, held,
                 current, skip, credits, qmCredits, sched, forced>>

(* Bytes become sendable; push_qm_bump adds them to the flow's count and   *)
(* owes the scheduler a token if the count was 0.                          *)
Bump(f, n) ==
  /\ bumped[f] + n <= MaxBytes
  /\ bumped' = [bumped EXCEPT ![f] = @ + n]
  /\ ready' = [ready EXCEPT ![f] = @ + n]
  /\ qavail' = [qavail EXCEPT ![f] = @ + n]
  /\ pushing' = IF qavail[f] = 0 THEN [pushing EXCEPT ![f] = @ + 1] ELSE pushing
  /\ UNCHANGED <<rate, bumpRing, polled, localFifo, fifo, batch, answer, slot, held,
                 current, skip, credits, qmCredits, sched, forced>>

PushToken(f) ==
  /\ pushing[f] > 0
  /\ pushing' = [pushing EXCEPT ![f] = @ - 1]
  /\ bumpRing' = Append(bumpRing, f)
  /\ UNCHANGED <<qavail, rate, polled, localFifo, fifo, batch, answer, slot, held,
                 current, skip, credits, qmCredits, sched, ready, bumped, forced>>

(* postprocess_ac schedules a window update itself, without a credit.      *)
ForceSend(f) ==
  /\ forced < MaxForce
  /\ forced' = forced + 1
  /\ sched' = [sched EXCEPT ![f] = @ + 1]
  /\ UNCHANGED <<qavail, rate, pushing, bumpRing, polled, localFifo, fifo, batch,
                 answer, slot, held, current, skip, credits, qmCredits, ready, bumped>>

(* A transmit operation passes the protocol stage, which sends what it can *)
(* up to TCP_MSS, and post-processing, which always hands back a credit.   *)
TxDone(f) ==
  /\ sched[f] > 0
  /\ sched' = [sched EXCEPT ![f] = @ - 1]
  /\ ready' = [ready EXCEPT ![f] = @ - Smaller(@, TcpMss)]
  /\ qmCredits' = qmCredits + 1
  /\ UNCHANGED <<qavail, rate, pushing, bumpRing, polled, localFifo, fifo, batch,
                 answer, slot, held, current, skip, credits, bumped, forced>>

(* The slow path's congestion control sets the rate.                       *)
SetRate(f, r) ==
  /\ rate[f] # r
  /\ rate' = [rate EXCEPT ![f] = r]
  /\ UNCHANGED <<qavail, pushing, bumpRing, polled, localFifo, fifo, batch, answer,
                 slot, held, current, skip, credits, qmCredits, sched, ready, bumped,
                 forced>>

-----------------------------------------------------------------------------
(* Queues.                                                                 *)

(* flow_add_to_queue.  local is the local FIFO the token may go to.        *)
GoesLocal(avail, local) == avail >= TcpMss /\ Len(local) < LocalCap

SlotFor(avail, r) ==
  LET s == (r * Smaller(TcpMss, avail)) \div TsUnit + skip
  IN  (current + Smaller(s, NumSlots - 1)) % NumSlots

AddToQueue(f, avail, r, local) ==
  IF r # 0
  THEN /\ slot' = [slot EXCEPT ![SlotFor(avail, r)] = Append(@, f)]
       /\ localFifo' = local /\ UNCHANGED fifo
  ELSE IF GoesLocal(avail, local)
  THEN /\ localFifo' = Append(local, [f |-> f, avail |-> Smaller(avail, LocalMax)])
       /\ UNCHANGED <<slot, fifo>>
  ELSE /\ fifo' = Append(fifo, f)
       /\ localFifo' = local /\ UNCHANGED slot

(* refresh_credits: mem_test_subsat takes at most a batch from qm_credits  *)
(* and returns the value qm_credits had before.                            *)
CreditBatch == Smaller(MaxInflight \div 8, 128)

Refresh(c) ==
  /\ credits' = c + qmCredits
  /\ qmCredits' = qmCredits - Smaller(CreditBatch, qmCredits)

RefreshIfLow(c) ==
  IF c < MaxInflight \div 4 THEN Refresh(c)
  ELSE credits' = c /\ UNCHANGED qmCredits

(* A context that holds a token and has no credit polls for one.           *)
RefreshEmpty ==
  /\ credits = 0
  /\ Len(localFifo) > 0 \/ Len(batch) > 0 \/ \E c \in SlotCtx : held[c] # None
  /\ Refresh(0)
  /\ UNCHANGED <<qavail, rate, pushing, bumpRing, polled, localFifo, fifo, batch,
                 answer, slot, held, current, skip, sched, ready, bumped, forced>>

(* queue_postproc_poll: a token is read with the flow's count and rate,    *)
(* and then queued by these values.                                        *)
PollRead ==
  /\ polled.f = None /\ bumpRing # <<>>
  /\ LET f == Head(bumpRing)
     IN  polled' = [f |-> f, avail |-> qavail[f], rate |-> rate[f]]
  /\ bumpRing' = Tail(bumpRing)
  /\ UNCHANGED <<qavail, rate, pushing, localFifo, fifo, batch, answer, slot, held,
                 current, skip, credits, qmCredits, sched, ready, bumped, forced>>

PollAdd ==
  /\ polled.f # None
  /\ AddToQueue(polled.f, polled.avail, polled.rate, localFifo)
  /\ polled' = Idle
  /\ UNCHANGED <<qavail, rate, pushing, bumpRing, batch, answer, held, current, skip,
                 credits, qmCredits, sched, ready, bumped, forced>>

(* queue_localfifo_poll: schedule, charge the flow, queue the token again  *)
(* with what is left of the count.                                         *)
LocalPoll ==
  /\ localFifo # <<>> /\ credits > 0
  /\ LET e == Head(localFifo)
     IN  /\ sched' = [sched EXCEPT ![e.f] = @ + 1]
         /\ qavail' = [qavail EXCEPT ![e.f] = @ - Smaller(@, TcpMss)]
         /\ AddToQueue(e.f, e.avail - TcpMss, 0, Tail(localFifo))
  /\ RefreshIfLow(credits - 1)
  /\ UNCHANGED <<rate, pushing, bumpRing, polled, batch, answer, held, current, skip,
                 ready, bumped, forced>>

(* queue_fifo_poll                                                         *)
FifoFetch ==
  /\ batch = <<>> /\ answer[FifoCtx].f = None /\ fifo # <<>>
  /\ LET n == Smaller(FifoBatch, Len(fifo))
     IN  /\ batch' = SubSeq(fifo, 1, n)
         /\ fifo' = SubSeq(fifo, n + 1, Len(fifo))
  /\ UNCHANGED <<qavail, rate, pushing, bumpRing, polled, localFifo, answer, slot, held,
                 current, skip, credits, qmCredits, sched, ready, bumped, forced>>

(* Mutant: the whole count is charged for one operation.                   *)
ScheduleAll(c, f) ==
  /\ credits > 0 /\ answer[c].f = None
  /\ credits' = credits - 1
  /\ sched' = [sched EXCEPT ![f] = @ + 1]
  /\ qavail' = [qavail EXCEPT ![f] = 0]
  /\ answer' = [answer EXCEPT ![c] = [f |-> f, avail |-> qavail[f], rate |-> rate[f]]]

(* A context with a credit schedules a flow and charges its count; the two *)
(* commands are issued together and the context then waits for what        *)
(* mem_test_subsat returns, the count before the subtraction.              *)
Schedule(c, f) ==
  /\ credits > 0 /\ answer[c].f = None
  /\ credits' = credits - 1
  /\ sched' = [sched EXCEPT ![f] = @ + 1]
  /\ qavail' = [qavail EXCEPT ![f] = @ - Smaller(@, TcpMss)]
  /\ answer' = [answer EXCEPT ![c] = [f |-> f, avail |-> qavail[f], rate |-> rate[f]]]

FifoSchedule ==
  /\ batch # <<>>
  /\ Schedule(FifoCtx, Head(batch))
  /\ batch' = Tail(batch)
  /\ UNCHANGED <<rate, pushing, bumpRing, polled, localFifo, fifo, slot, held,
                 current, skip, qmCredits, ready, bumped, forced>>

(* queue_slot_poll                                                         *)
SlotFetch(c) ==
  /\ held[c] = None /\ answer[c].f = None /\ slot[current] # <<>>
  /\ held' = [held EXCEPT ![c] = Head(slot[current])]
  /\ slot' = [slot EXCEPT ![current] = Tail(@)]
  /\ UNCHANGED <<qavail, rate, pushing, bumpRing, polled, localFifo, fifo, batch,
                 answer, current, skip, credits, qmCredits, sched, ready, bumped, forced>>

SlotSchedule(c) ==
  /\ held[c] # None
  /\ Schedule(c, held[c])
  /\ held' = [held EXCEPT ![c] = None]
  /\ UNCHANGED <<rate, pushing, bumpRing, polled, localFifo, fifo, batch, slot,
                 current, skip, qmCredits, ready, bumped, forced>>

(* Mutant: compares what is left, not what was there, with TCP_MSS.        *)
StillAvailLeft(avail) == avail - TcpMss > TcpMss

(* The token stays alive if more than TCP_MSS bytes were there.            *)
StillAvail(avail) == avail > TcpMss

Requeue(c) ==
  /\ answer[c].f # None
  /\ LET a == answer[c]
     IN  IF StillAvail(a.avail)
         THEN AddToQueue(a.f, a.avail - TcpMss, a.rate, localFifo)
         ELSE UNCHANGED <<localFifo, fifo, slot>>
  /\ answer' = [answer EXCEPT ![c] = Idle]
  /\ RefreshIfLow(credits)
  /\ UNCHANGED <<qavail, rate, pushing, bumpRing, polled, batch, held, current, skip,
                 sched, ready, bumped, forced>>

(* select_slot                                                             *)
SlotClose ==
  /\ skip = 0 /\ skip' = 1
  /\ UNCHANGED <<qavail, rate, pushing, bumpRing, polled, localFifo, fifo, batch,
                 answer, slot, held, current, credits, qmCredits, sched, ready, bumped,
                 forced>>

SlotAdvance ==
  /\ skip = 1 /\ slot[current] = <<>>
  /\ current' = (current + 1) % NumSlots
  /\ skip' = 0
  /\ UNCHANGED <<qavail, rate, pushing, bumpRing, polled, localFifo, fifo, batch,
                 answer, slot, held, credits, qmCredits, sched, ready, bumped, forced>>

Ctx ==
  \/ PollRead \/ PollAdd \/ LocalPoll \/ FifoFetch \/ FifoSchedule
  \/ RefreshEmpty \/ SlotClose \/ SlotAdvance
  \/ \E c \in SlotCtx : SlotFetch(c) \/ SlotSchedule(c)
  \/ \E c \in SlotCtx \cup {FifoCtx} : Requeue(c)

Neighbour(f) ==
  \/ PushToken(f) \/ ForceSend(f) \/ TxDone(f)
  \/ \E n \in 1..MaxBytes : Bump(f, n)
  \/ \E r \in Rates : SetRate(f, r)

Next == Ctx \/ \E f \in Flows : Neighbour(f)

Spec == Init /\ [][Next]_vars

(* The contexts of the micro-engine run forever and wake each other; a     *)
(* transmit operation that was scheduled passes the pipeline.              *)
FairSpec ==
  /\ Spec
  /\ WF_vars(PollRead) /\ WF_vars(PollAdd) /\ WF_vars(LocalPoll)
  /\ WF_vars(FifoFetch) /\ WF_vars(FifoSchedule)
  /\ WF_vars(RefreshEmpty) /\ WF_vars(SlotClose) /\ WF_vars(SlotAdvance)
  /\ \A c \in SlotCtx : WF_vars(SlotFetch(c)) /\ WF_vars(SlotSchedule(c))
  /\ \A c \in SlotCtx \cup {FifoCtx} : WF_vars(Requeue(c))
  /\ \A f \in Flows : WF_vars(PushToken(f)) /\ WF_vars(TxDone(f))

-----------------------------------------------------------------------------
(* Properties.                                                             *)

(* Where a token of flow f can be.                                         *)
HasToken(f) ==
  \/ pushing[f] > 0
  \/ f \in Range(bumpRing) \cup Range(fifo) \cup Range(batch)
  \/ polled.f = f
  \/ \E e \in Range(localFifo) : e.f = f
  \/ \E s \in Slots : f \in Range(slot[s])
  \/ \E c \in SlotCtx : held[c] = f
  \/ \E c \in SlotCtx \cup {FifoCtx} :
       answer[c].f = f /\ StillAvail(answer[c].avail)

(* A flow with bytes on its count is always somewhere in the scheduler:    *)
(* push_qm_bump inserts a token only when the count was 0 (postprocess.c   *)
(* line 273), so one that drops out with bytes left is never scheduled.    *)
TokenForBytes == \A f \in Flows : qavail[f] > 0 => HasToken(f)

(* The count never loses bytes: what the protocol stage could send now is  *)
(* covered by the count (flow_state.h line 116, "Bytes available for       *)
(* transmission") and the operations already scheduled, each of which      *)
(* sends up to TCP_MSS bytes but may find fewer than it was charged for.   *)
BytesCovered ==
  \A f \in Flows : ready[f] <= qavail[f] + TcpMss * sched[f]

(* Every announced byte is eventually scheduled, whatever the rates, the   *)
(* shortage of credits and the order in which the contexts run.            *)
BytesScheduled == \A f \in Flows : (qavail[f] > 0) ~> (qavail[f] = 0)

(* config.h line 304: FLOW_QM_CREDITS is the "Max in-flight TX             *)
(* operations".                                                            *)
InflightBound ==
  FoldFunctionOnSet(+, 0, sched, Flows) <= MaxInflight
=============================================================================
