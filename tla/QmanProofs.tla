----------------------------- MODULE QmanProofs -----------------------------
(***************************************************************************)
(* Proofs about the flow scheduler, for every number of flows, slots,      *)
(* slot contexts and credits, every rate and every segment size.           *)
(***************************************************************************)
EXTENDS Qman, TLAPS

(* The inductive invariant of type correctness: an entry of the local FIFO *)
(* has a segment's worth of bytes, so local_avail - TCP_MSS (qman.c line   *)
(* 185) does not wrap.                                                     *)
LocalEntry == [f : Flows, avail : Nat]
LocalEnough == \A e \in Range(localFifo) : e.avail >= TcpMss
Types == TypeOK /\ LocalEnough

-----------------------------------------------------------------------------
(* Sequences.                                                              *)

LEMMA AppendRange ==
  ASSUME NEW S, NEW s \in Seq(S), NEW x \in S
  PROVE  /\ Append(s, x) \in Seq(S) /\ Len(Append(s, x)) = Len(s) + 1
         /\ Range(Append(s, x)) = Range(s) \cup {x}
  <1> DEFINE a == Append(s, x)
  <1>1. /\ a \in Seq(S) /\ Len(a) = Len(s) + 1 /\ Len(s) \in Nat
        /\ DOMAIN a = 1..(Len(s) + 1) /\ DOMAIN s = 1..Len(s)
        /\ a[Len(s) + 1] = x
    OBVIOUS
  <1>2. \A i \in 1..Len(s) : a[i] = s[i]  OBVIOUS
  <1> HIDE DEF a
  <1>3. Range(s) \subseteq Range(a) /\ x \in Range(a)  BY <1>1, <1>2 DEF Range
  <1>4. ASSUME NEW i \in 1..(Len(s) + 1) PROVE a[i] \in Range(s) \cup {x}
    <2>1. CASE i \in 1..Len(s)  BY <1>1, <1>2, <2>1 DEF Range
    <2>2. CASE i = Len(s) + 1  BY <1>1, <2>2
    <2> QED  BY <1>1, <2>1, <2>2
  <1>5. Range(a) \subseteq Range(s) \cup {x}  BY <1>1, <1>4 DEF Range
  <1> QED  BY <1>1, <1>3, <1>5 DEF a

LEMMA HeadTailRange ==
  ASSUME NEW S, NEW s \in Seq(S), s # <<>>
  PROVE  /\ Head(s) \in S /\ Tail(s) \in Seq(S)
         /\ Len(s) \in Nat \ {0} /\ Len(Tail(s)) = Len(s) - 1
         /\ Range(s) = Range(Tail(s)) \cup {Head(s)}
  <1>1. Head(s) \in S /\ Tail(s) \in Seq(S) /\ Len(s) \in Nat \ {0}
        /\ Len(Tail(s)) = Len(s) - 1
    OBVIOUS
  <1>2. \A i \in 1..Len(s) : s[i] = IF i = 1 THEN Head(s) ELSE Tail(s)[i - 1]
    BY <1>1
  <1>3. \A i \in 1..(Len(s) - 1) : Tail(s)[i] = s[i + 1]
    BY <1>1
  <1>d. DOMAIN s = 1..Len(s) /\ DOMAIN Tail(s) = 1..(Len(s) - 1)  BY <1>1
  <1>i. ASSUME NEW i \in 1..Len(s) PROVE s[i] \in Range(Tail(s)) \cup {Head(s)}
    <2>1. CASE i = 1  BY <1>2, <2>1
    <2>2. CASE i # 1
      <3>1. i - 1 \in 1..(Len(s) - 1) /\ s[i] = Tail(s)[i - 1]  BY <1>1, <1>2, <2>2
      <3> QED  BY <1>d, <3>1 DEF Range
    <2> QED  BY <2>1, <2>2
  <1>4. Range(s) \subseteq Range(Tail(s)) \cup {Head(s)}
    BY <1>d, <1>i DEF Range
  <1>5. Range(Tail(s)) \subseteq Range(s) /\ Head(s) \in Range(s)
    BY <1>1, <1>2, <1>3 DEF Range
  <1> QED  BY <1>1, <1>4, <1>5

LEMMA SplitRange ==
  ASSUME NEW S, NEW s \in Seq(S), NEW n \in 1..Len(s)
  PROVE  /\ SubSeq(s, 1, n) \in Seq(S) /\ SubSeq(s, n + 1, Len(s)) \in Seq(S)
         /\ Range(s) = Range(SubSeq(s, 1, n)) \cup Range(SubSeq(s, n + 1, Len(s)))
  <1> DEFINE a == SubSeq(s, 1, n)  b == SubSeq(s, n + 1, Len(s))
  <1>1. /\ a \in Seq(S) /\ Len(a) = n /\ \A i \in 1..n : a[i] = s[i]
    OBVIOUS
  <1>2. /\ b \in Seq(S) /\ Len(b) = Len(s) - n
        /\ \A i \in 1..(Len(s) - n) : b[i] = s[n + i]
    OBVIOUS
  <1> HIDE DEF a, b
  <1>d. /\ DOMAIN s = 1..Len(s) /\ Len(s) \in Nat
        /\ DOMAIN a = 1..n /\ DOMAIN b = 1..(Len(s) - n)
    BY <1>1, <1>2
  <1>3. Range(a) \subseteq Range(s) /\ Range(b) \subseteq Range(s)
    <2>1. \A i \in 1..n : a[i] \in Range(s)  BY <1>1, <1>d DEF Range
    <2>2. ASSUME NEW i \in 1..(Len(s) - n) PROVE b[i] \in Range(s)
      <3>1. n + i \in 1..Len(s) /\ b[i] = s[n + i]  BY <1>2, <1>d
      <3> QED  BY <1>d, <3>1 DEF Range
    <2> QED  BY <1>d, <2>1, <2>2 DEF Range
  <1>4. ASSUME NEW i \in 1..Len(s) PROVE s[i] \in Range(a) \cup Range(b)
    <2>1. CASE i <= n  BY <1>1, <2>1 DEF Range
    <2>2. CASE i > n
      <3>1. i - n \in 1..(Len(s) - n) /\ n + (i - n) = i  BY <2>2
      <3>2. b[i - n] = s[i] /\ i - n \in DOMAIN b  BY <1>2, <3>1
      <3> QED  BY <3>2 DEF Range
    <2> QED  BY <2>1, <2>2
  <1>5. Range(s) \subseteq Range(a) \cup Range(b)  BY <1>4 DEF Range
  <1> QED  BY <1>1, <1>2, <1>3, <1>5 DEF a, b

-----------------------------------------------------------------------------
(* Numbers.                                                                *)

LEMMA SmallerFacts ==
  ASSUME NEW a \in Nat, NEW b \in Nat
  PROVE  Smaller(a, b) \in Nat /\ Smaller(a, b) <= a /\ Smaller(a, b) <= b
         /\ (Smaller(a, b) = a \/ Smaller(a, b) = b)
  BY DEF Smaller

LEMMA DivNat ==
  ASSUME NEW a \in Nat, NEW b \in Nat \ {0}
  PROVE  a \div b \in Nat
  OBVIOUS

LEMMA ModSlot ==
  ASSUME NEW a \in Nat
  PROVE  a % NumSlots \in Slots
  BY QmanAssumption DEF Slots

LEMMA TimesNat ==
  ASSUME NEW a \in Nat, NEW b \in Nat
  PROVE  a * b \in Nat
  OBVIOUS

LEMMA SlotForType ==
  ASSUME TypeOK, NEW avail \in Nat, NEW r \in Nat
  PROVE  SlotFor(avail, r) \in Slots
  <1> DEFINE x == r * Smaller(TcpMss, avail)
             s == x \div TsUnit + skip
  <1>1. x \in Nat  BY QmanAssumption, SmallerFacts, TimesNat
  <1> HIDE DEF x
  <1>2. x \div TsUnit \in Nat  BY <1>1, QmanAssumption, DivNat
  <1>3. s \in Nat  BY <1>2 DEF TypeOK
  <1>4. NumSlots - 1 \in Nat  BY QmanAssumption
  <1> HIDE DEF s
  <1>5. Smaller(s, NumSlots - 1) \in Nat  BY <1>3, <1>4, SmallerFacts
  <1>6. current \in Nat  BY QmanAssumption DEF TypeOK, Slots
  <1>7. current + Smaller(s, NumSlots - 1) \in Nat  BY <1>5, <1>6
  <1> QED  BY <1>7, ModSlot DEF SlotFor, s, x

-----------------------------------------------------------------------------
(* Queues.                                                                 *)

(* Flow g has a token in a local FIFO lf, a FIFO ff or a wheel sl.         *)
InQueues(g, lf, ff, sl) ==
  \/ \E e \in Range(lf) : e.f = g
  \/ g \in Range(ff)
  \/ \E s \in Slots : g \in Range(sl[s])

GoodQueues(lf, ff, sl) ==
  /\ lf \in Seq(LocalEntry) /\ Len(lf) <= LocalCap
  /\ \A e \in Range(lf) : e.avail >= TcpMss
  /\ ff \in Seq(Flows) /\ sl \in [Slots -> Seq(Flows)]

(* flow_add_to_queue puts the token somewhere and moves no other.          *)
LEMMA AddKeeps ==
  ASSUME TypeOK, NEW f \in Flows, NEW avail \in Nat, NEW r \in Nat, NEW local,
         GoodQueues(local, fifo, slot), AddToQueue(f, avail, r, local)
  PROVE  /\ GoodQueues(localFifo', fifo', slot')
         /\ InQueues(f, localFifo', fifo', slot')
         /\ \A g : InQueues(g, local, fifo, slot) => InQueues(g, localFifo', fifo', slot')
  <1>1. CASE r # 0
    <2> DEFINE k == SlotFor(avail, r)
    <2>1. k \in Slots  BY SlotForType
    <2>2. /\ slot' = [slot EXCEPT ![k] = Append(@, f)]
          /\ localFifo' = local /\ fifo' = fifo
      BY <1>1 DEF AddToQueue
    <2> HIDE DEF k
    <2>3. slot[k] \in Seq(Flows)  BY <2>1 DEF GoodQueues
    <2>4. /\ Append(slot[k], f) \in Seq(Flows)
          /\ Range(Append(slot[k], f)) = Range(slot[k]) \cup {f}
      BY <2>3, AppendRange
    <2>5. /\ slot' \in [Slots -> Seq(Flows)] /\ slot'[k] = Append(slot[k], f)
          /\ \A s \in Slots : s # k => slot'[s] = slot[s]
      BY <2>1, <2>2, <2>4 DEF GoodQueues
    <2>6. f \in Range(slot'[k])  BY <2>4, <2>5
    <2>7. \A s \in Slots : Range(slot[s]) \subseteq Range(slot'[s])
      BY <2>4, <2>5
    <2> QED  BY <2>1, <2>2, <2>5, <2>6, <2>7 DEF GoodQueues, InQueues
  <1>2. CASE r = 0 /\ GoesLocal(avail, local)
    <2> DEFINE e == [f |-> f, avail |-> Smaller(avail, LocalMax)]
    <2>1. localFifo' = Append(local, e) /\ slot' = slot /\ fifo' = fifo
      BY <1>2 DEF AddToQueue
    <2>2. e \in LocalEntry /\ e.f = f /\ e.avail >= TcpMss
      <3>1. Smaller(avail, LocalMax) \in Nat /\ Smaller(avail, LocalMax) >= TcpMss
        BY <1>2, QmanAssumption DEF GoesLocal, Smaller
      <3> QED  BY <3>1 DEF LocalEntry
    <2> HIDE DEF e
    <2>3. /\ Append(local, e) \in Seq(LocalEntry)
          /\ Len(Append(local, e)) = Len(local) + 1
          /\ Range(Append(local, e)) = Range(local) \cup {e}
      BY <2>2, AppendRange DEF GoodQueues
    <2>4. Len(local) + 1 <= LocalCap
      <3>1. Len(local) \in Nat  BY DEF GoodQueues
      <3> QED  BY <1>2, <3>1, QmanAssumption DEF GoesLocal
    <2>5. GoodQueues(localFifo', fifo', slot')
      BY <2>1, <2>2, <2>3, <2>4 DEF GoodQueues
    <2> QED  BY <2>1, <2>2, <2>3, <2>5 DEF InQueues
  <1>3. CASE r = 0 /\ ~GoesLocal(avail, local)
    <2>1. fifo' = Append(fifo, f) /\ slot' = slot /\ localFifo' = local
      BY <1>3 DEF AddToQueue
    <2>2. /\ Append(fifo, f) \in Seq(Flows)
          /\ Range(Append(fifo, f)) = Range(fifo) \cup {f}
      BY AppendRange DEF GoodQueues
    <2> QED  BY <2>1, <2>2 DEF GoodQueues, InQueues
  <1> QED  BY <1>1, <1>2, <1>3

LEMMA TypesQueues ==
  ASSUME Types PROVE GoodQueues(localFifo, fifo, slot)
  BY DEF Types, TypeOK, LocalEnough, GoodQueues, LocalEntry

(* What TypeOK says of the rest of the state.                              *)
Rest ==
  /\ qavail \in [Flows -> Nat] /\ rate \in [Flows -> Rates]
  /\ pushing \in [Flows -> Nat]
  /\ bumpRing \in Seq(Flows) /\ batch \in Seq(Flows)
  /\ polled \in Token /\ answer \in [SlotCtx \cup {FifoCtx} -> Token]
  /\ held \in [SlotCtx -> Flows \cup {None}]
  /\ current \in Slots /\ skip \in {0, 1}
  /\ credits \in Nat /\ qmCredits \in Nat
  /\ sched \in [Flows -> Nat]
  /\ ready \in [Flows -> Nat] /\ bumped \in [Flows -> 0..MaxBytes]
  /\ forced \in 0..MaxForce

LEMMA TypesSplit ==
  /\ Types => Rest /\ GoodQueues(localFifo, fifo, slot)
  /\ Rest' /\ GoodQueues(localFifo', fifo', slot') => Types'
  BY DEF Types, TypeOK, LocalEnough, GoodQueues, LocalEntry, Rest

LEMMA InitTypes == Init => Types
  <1> SUFFICES ASSUME Init PROVE Types  OBVIOUS
  <1>1. Rest
    <2>1. Idle \in Token  BY DEF Idle, Token
    <2>2. (3 * MaxInflight) \div 4 - 1 \in Nat
      <3>1. MaxInflight \in Nat /\ MaxInflight >= 2  BY QmanAssumption
      <3>2. (3 * MaxInflight) \div 4 >= 1  BY <3>1
      <3> QED  BY <3>1, <3>2
    <2>3. 0 \in Slots  BY QmanAssumption DEF Slots
    <2> QED  BY <2>1, <2>2, <2>3, QmanAssumption DEF Init, Rest
  <1>2. GoodQueues(localFifo, fifo, slot)
    BY QmanAssumption DEF Init, GoodQueues, Range
  <1> QED  BY <1>1, <1>2 DEF Types, TypeOK, LocalEnough, GoodQueues, LocalEntry, Rest

LEMMA RefreshType ==
  ASSUME Rest, NEW c \in Nat, RefreshIfLow(c) \/ Refresh(c)
  PROVE  credits' \in Nat /\ qmCredits' \in Nat
  <1>1. credits \in Nat /\ qmCredits \in Nat  BY DEF Rest
  <1>2. CreditBatch \in Nat
    <2>1. MaxInflight \div 8 \in Nat  BY QmanAssumption, DivNat
    <2> QED  BY <2>1, SmallerFacts DEF CreditBatch
  <1>3. Smaller(CreditBatch, qmCredits) \in Nat
        /\ Smaller(CreditBatch, qmCredits) <= qmCredits
    BY <1>1, <1>2, SmallerFacts
  <1>4. CASE Refresh(c)  BY <1>1, <1>3, <1>4 DEF Refresh
  <1>5. CASE RefreshIfLow(c)  BY <1>1, <1>4, <1>5 DEF RefreshIfLow
  <1> QED  BY <1>4, <1>5

(* mem_subsat on a flow's count.                                           *)
LEMMA ChargeType ==
  ASSUME Rest, NEW f \in Flows
  PROVE  /\ [qavail EXCEPT ![f] = @ - Smaller(@, TcpMss)] \in [Flows -> Nat]
         /\ [sched EXCEPT ![f] = @ + 1] \in [Flows -> Nat]
  <1>1. qavail[f] \in Nat /\ sched[f] \in Nat  BY DEF Rest
  <1>2. qavail[f] - Smaller(qavail[f], TcpMss) \in Nat
    BY <1>1, QmanAssumption DEF Smaller
  <1> QED  BY <1>1, <1>2 DEF Rest

-----------------------------------------------------------------------------
(* Each action keeps the types.                                            *)

LEMMA NeighbourTypes ==
  ASSUME Types, NEW f \in Flows, Neighbour(f)
  PROVE  Types'
  <1>0. Rest /\ GoodQueues(localFifo, fifo, slot)  BY TypesSplit
  <1>2. localFifo' = localFifo /\ fifo' = fifo /\ slot' = slot
    BY DEF Neighbour, PushToken, ForceSend, TxDone, Bump, SetRate
  <1>n. MaxBytes \in Nat /\ MaxForce \in Nat /\ TcpMss \in Nat  BY QmanAssumption
  <1>t. /\ qavail[f] \in Nat /\ pushing[f] \in Nat /\ sched[f] \in Nat /\ ready[f] \in Nat
        /\ bumped[f] \in Nat
    BY <1>0, <1>n DEF Rest
  <1>3. CASE PushToken(f)
    <2>1. pushing' \in [Flows -> Nat]  BY <1>0, <1>3, <1>t DEF PushToken, Rest
    <2>2. bumpRing' \in Seq(Flows)  BY <1>0, <1>3, AppendRange DEF PushToken, Rest
    <2>3. Rest'  BY <1>0, <1>3, <2>1, <2>2 DEF PushToken, Rest
    <2> QED  BY <1>0, <1>2, <2>3, TypesSplit
  <1>4. CASE ForceSend(f)
    <2>1. sched' \in [Flows -> Nat]  BY <1>0, <1>t, <1>4 DEF ForceSend, Rest
    <2>2. forced' \in 0..MaxForce  BY <1>0, <1>n, <1>4 DEF ForceSend, Rest
    <2>3. Rest'  BY <1>0, <1>4, <2>1, <2>2 DEF ForceSend, Rest
    <2> QED  BY <1>0, <1>2, <2>3, TypesSplit
  <1>5. CASE TxDone(f)
    <2>1. ready[f] - Smaller(ready[f], TcpMss) \in Nat  BY <1>n, <1>t DEF Smaller
    <2>2. ready' \in [Flows -> Nat] /\ sched' \in [Flows -> Nat] /\ qmCredits' \in Nat
      BY <1>0, <1>t, <1>5, <2>1 DEF TxDone, Rest
    <2>3. Rest'  BY <1>0, <1>5, <2>2 DEF TxDone, Rest
    <2> QED  BY <1>0, <1>2, <2>3, TypesSplit
  <1>6. ASSUME NEW n \in 1..MaxBytes, Bump(f, n) PROVE Types'
    <2>n. n \in Nat /\ bumped[f] + n \in 0..MaxBytes /\ ready[f] + n \in Nat
          /\ qavail[f] + n \in Nat /\ pushing[f] + 1 \in Nat
      BY <1>n, <1>t, <1>6 DEF Bump
    <2>a. bumped' \in [Flows -> 0..MaxBytes]  BY <1>0, <1>6, <2>n DEF Bump, Rest
    <2>b. ready' \in [Flows -> Nat]  BY <1>0, <1>6, <2>n DEF Bump, Rest
    <2>1. qavail' \in [Flows -> Nat]  BY <1>0, <1>6, <2>n DEF Bump, Rest
    <2>2. pushing' \in [Flows -> Nat]
      <3>1. [pushing EXCEPT ![f] = @ + 1] \in [Flows -> Nat] /\ pushing \in [Flows -> Nat]
        BY <1>0, <2>n DEF Rest
      <3> QED  BY <1>6, <3>1 DEF Bump
    <2>3. Rest'  BY <1>0, <1>6, <2>a, <2>b, <2>1, <2>2 DEF Bump, Rest
    <2> QED  BY <1>0, <1>2, <2>3, TypesSplit
  <1>7. ASSUME NEW r \in Rates, SetRate(f, r) PROVE Types'
    <2>1. Rest'  BY <1>0, <1>7 DEF SetRate, Rest
    <2> QED  BY <1>0, <1>2, <2>1, TypesSplit
  <1> QED  BY <1>3, <1>4, <1>5, <1>6, <1>7 DEF Neighbour

LEMMA PollTypes ==
  ASSUME Types, PollRead \/ PollAdd
  PROVE  Types'
  <1>0. Rest /\ GoodQueues(localFifo, fifo, slot)  BY TypesSplit
  <1>i. Idle \in Token /\ Rates \subseteq Nat  BY QmanAssumption DEF Idle, Token
  <1>1. CASE PollRead
    <2> DEFINE f == Head(bumpRing)
    <2>1. f \in Flows /\ Tail(bumpRing) \in Seq(Flows)
      BY <1>0, <1>1, HeadTailRange DEF PollRead, Rest
    <2>2. [f |-> f, avail |-> qavail[f], rate |-> rate[f]] \in Token
      BY <1>0, <1>i, <2>1 DEF Rest, Token
    <2>3. Rest'  BY <1>0, <1>1, <2>1, <2>2 DEF PollRead, Rest
    <2>4. localFifo' = localFifo /\ fifo' = fifo /\ slot' = slot
      BY <1>1 DEF PollRead
    <2> QED  BY <1>0, <2>3, <2>4, TypesSplit
  <1>2. CASE PollAdd
    <2>1. polled.f \in Flows /\ polled.avail \in Nat /\ polled.rate \in Nat
      BY <1>0, <1>2 DEF PollAdd, Rest, Token
    <2>2. GoodQueues(localFifo', fifo', slot')
      BY <1>0, <1>2, <2>1, AddKeeps DEF PollAdd, Types
    <2>3. Rest'  BY <1>0, <1>i, <1>2 DEF PollAdd, Rest
    <2> QED  BY <2>2, <2>3, TypesSplit
  <1> QED  BY <1>1, <1>2

LEMMA LocalTypes ==
  ASSUME Types, LocalPoll
  PROVE  Types'
  <1> DEFINE e == Head(localFifo)
  <1>0. Rest /\ GoodQueues(localFifo, fifo, slot)  BY TypesSplit
  <1>1. /\ e \in LocalEntry /\ Tail(localFifo) \in Seq(LocalEntry)
        /\ Len(Tail(localFifo)) = Len(localFifo) - 1 /\ Len(localFifo) \in Nat
        /\ Range(localFifo) = Range(Tail(localFifo)) \cup {e}
    BY <1>0, HeadTailRange DEF LocalPoll, GoodQueues
  <1>2. e.f \in Flows /\ e.avail \in Nat /\ e.avail >= TcpMss
    BY <1>0, <1>1 DEF LocalEntry, GoodQueues
  <1> HIDE DEF e
  <1>3. GoodQueues(Tail(localFifo), fifo, slot)
    BY <1>0, <1>1, QmanAssumption DEF GoodQueues
  <1>4. e.avail - TcpMss \in Nat  BY <1>2, QmanAssumption
  <1>5. AddToQueue(e.f, e.avail - TcpMss, 0, Tail(localFifo))
    BY DEF LocalPoll, e
  <1>6. GoodQueues(localFifo', fifo', slot')
    BY <1>2, <1>3, <1>4, <1>5, AddKeeps DEF Types
  <1>7. qavail' \in [Flows -> Nat] /\ sched' \in [Flows -> Nat]
    BY <1>0, <1>2, ChargeType DEF LocalPoll, e
  <1>8. credits' \in Nat /\ qmCredits' \in Nat
    <2>1. credits - 1 \in Nat  BY <1>0 DEF LocalPoll, Rest
    <2>2. RefreshIfLow(credits - 1)  BY DEF LocalPoll
    <2> QED  BY <1>0, <2>1, <2>2, RefreshType
  <1>9. Rest'  BY <1>0, <1>7, <1>8 DEF LocalPoll, Rest
  <1> QED  BY <1>6, <1>9, TypesSplit

LEMMA ScheduleTypes ==
  ASSUME Rest, NEW c \in SlotCtx \cup {FifoCtx}, NEW f \in Flows, Schedule(c, f)
  PROVE  /\ qavail' \in [Flows -> Nat] /\ sched' \in [Flows -> Nat] /\ credits' \in Nat
         /\ answer' \in [SlotCtx \cup {FifoCtx} -> Token]
         /\ answer'[c] = [f |-> f, avail |-> qavail[f], rate |-> rate[f]]
         /\ \A d \in SlotCtx \cup {FifoCtx} : d # c => answer'[d] = answer[d]
  <1>1. qavail' \in [Flows -> Nat] /\ sched' \in [Flows -> Nat]
    BY ChargeType DEF Schedule
  <1>2. credits' \in Nat  BY DEF Schedule, Rest
  <1>3. [f |-> f, avail |-> qavail[f], rate |-> rate[f]] \in Token
    BY QmanAssumption DEF Rest, Token
  <1> QED  BY <1>1, <1>2, <1>3 DEF Schedule, Rest

LEMMA FifoTypes ==
  ASSUME Types, FifoFetch \/ FifoSchedule
  PROVE  Types'
  <1>0. Rest /\ GoodQueues(localFifo, fifo, slot)  BY TypesSplit
  <1>1. CASE FifoFetch
    <2> DEFINE n == Smaller(FifoBatch, Len(fifo))
    <2>1. fifo \in Seq(Flows) /\ fifo # <<>>  BY <1>0, <1>1 DEF GoodQueues, FifoFetch
    <2>2. Len(fifo) \in Nat \ {0}  BY <2>1
    <2>3. n \in 1..Len(fifo)  BY <2>2, QmanAssumption DEF Smaller
    <2>4. batch' = SubSeq(fifo, 1, n) /\ fifo' = SubSeq(fifo, n + 1, Len(fifo))
      BY <1>1 DEF FifoFetch
    <2> HIDE DEF n
    <2>5. batch' \in Seq(Flows) /\ fifo' \in Seq(Flows)
      BY <2>1, <2>3, <2>4, SplitRange
    <2>6. Rest'  BY <1>0, <1>1, <2>5 DEF FifoFetch, Rest
    <2>7. GoodQueues(localFifo', fifo', slot')
      BY <1>0, <1>1, <2>5 DEF FifoFetch, GoodQueues
    <2> QED  BY <2>6, <2>7, TypesSplit
  <1>2. CASE FifoSchedule
    <2>1. Head(batch) \in Flows /\ Tail(batch) \in Seq(Flows)
      BY <1>0, <1>2, HeadTailRange DEF FifoSchedule, Rest
    <2>2. Schedule(FifoCtx, Head(batch))  BY <1>2 DEF FifoSchedule
    <2>3. /\ qavail' \in [Flows -> Nat] /\ sched' \in [Flows -> Nat] /\ credits' \in Nat
          /\ answer' \in [SlotCtx \cup {FifoCtx} -> Token]
      BY <1>0, <2>1, <2>2, ScheduleTypes
    <2>4. Rest'  BY <1>0, <1>2, <2>1, <2>3 DEF FifoSchedule, Rest
    <2>5. localFifo' = localFifo /\ fifo' = fifo /\ slot' = slot
      BY <1>2 DEF FifoSchedule
    <2> QED  BY <1>0, <2>4, <2>5, TypesSplit
  <1> QED  BY <1>1, <1>2

LEMMA SlotTypes ==
  ASSUME Types, NEW c \in SlotCtx, SlotFetch(c) \/ SlotSchedule(c)
  PROVE  Types'
  <1>0. Rest /\ GoodQueues(localFifo, fifo, slot)  BY TypesSplit
  <1>1. CASE SlotFetch(c)
    <2>1. slot[current] \in Seq(Flows) /\ slot[current] # <<>> /\ current \in Slots
      BY <1>0, <1>1 DEF SlotFetch, GoodQueues, Rest
    <2>2. Head(slot[current]) \in Flows /\ Tail(slot[current]) \in Seq(Flows)
      BY <2>1, HeadTailRange
    <2>3. Rest'  BY <1>0, <1>1, <2>2 DEF SlotFetch, Rest
    <2>4. slot' \in [Slots -> Seq(Flows)]
      BY <1>0, <1>1, <2>1, <2>2 DEF SlotFetch, GoodQueues
    <2>5. GoodQueues(localFifo', fifo', slot')
      BY <1>0, <1>1, <2>4 DEF SlotFetch, GoodQueues
    <2> QED  BY <2>3, <2>5, TypesSplit
  <1>2. CASE SlotSchedule(c)
    <2>1. held[c] \in Flows /\ Schedule(c, held[c])
      BY <1>0, <1>2 DEF SlotSchedule, Rest
    <2>2. /\ qavail' \in [Flows -> Nat] /\ sched' \in [Flows -> Nat] /\ credits' \in Nat
          /\ answer' \in [SlotCtx \cup {FifoCtx} -> Token]
      BY <1>0, <2>1, ScheduleTypes
    <2>3. held' \in [SlotCtx -> Flows \cup {None}]  BY <1>0, <1>2 DEF SlotSchedule, Rest
    <2>4. Rest'  BY <1>0, <1>2, <2>2, <2>3 DEF SlotSchedule, Rest
    <2>5. localFifo' = localFifo /\ fifo' = fifo /\ slot' = slot
      BY <1>2 DEF SlotSchedule
    <2> QED  BY <1>0, <2>4, <2>5, TypesSplit
  <1> QED  BY <1>1, <1>2

LEMMA RequeueTypes ==
  ASSUME Types, NEW c \in SlotCtx \cup {FifoCtx}, Requeue(c)
  PROVE  Types'
  <1> DEFINE a == answer[c]
  <1>0. Rest /\ GoodQueues(localFifo, fifo, slot)  BY TypesSplit
  <1>1. a.f \in Flows /\ a.avail \in Nat /\ a.rate \in Nat
    BY <1>0 DEF Requeue, Rest, Token
  <1>2. GoodQueues(localFifo', fifo', slot')
    <2>1. CASE StillAvail(a.avail)
      <3>1. a.avail - TcpMss \in Nat  BY <1>1, <2>1, QmanAssumption DEF StillAvail
      <3>2. AddToQueue(a.f, a.avail - TcpMss, a.rate, localFifo)
        BY <2>1 DEF Requeue
      <3> HIDE DEF a
      <3> QED  BY <1>0, <1>1, <3>1, <3>2, AddKeeps DEF Types
    <2>2. CASE ~StillAvail(a.avail)
      BY <1>0, <2>2 DEF Requeue
    <2> QED  BY <2>1, <2>2
  <1>3. credits' \in Nat /\ qmCredits' \in Nat
    BY <1>0, RefreshType DEF Requeue, Rest
  <1>4. answer' \in [SlotCtx \cup {FifoCtx} -> Token]
    <2>1. Idle \in Token  BY DEF Idle, Token
    <2> QED  BY <1>0, <2>1 DEF Requeue, Rest
  <1>5. Rest'  BY <1>0, <1>3, <1>4 DEF Requeue, Rest
  <1> QED  BY <1>2, <1>5, TypesSplit

LEMMA WheelTypes ==
  ASSUME Types, RefreshEmpty \/ SlotClose \/ SlotAdvance
  PROVE  Types'
  <1>0. Rest /\ GoodQueues(localFifo, fifo, slot)  BY TypesSplit
  <1>q. localFifo' = localFifo /\ fifo' = fifo /\ slot' = slot
    BY DEF RefreshEmpty, SlotClose, SlotAdvance
  <1>1. CASE RefreshEmpty
    <2>1. credits' \in Nat /\ qmCredits' \in Nat
      BY <1>0, <1>1, RefreshType DEF RefreshEmpty
    <2>2. Rest'  BY <1>0, <1>1, <2>1 DEF RefreshEmpty, Rest
    <2> QED  BY <1>0, <1>q, <2>2, TypesSplit
  <1>2. CASE SlotClose
    <2>1. Rest'  BY <1>0, <1>2 DEF SlotClose, Rest
    <2> QED  BY <1>0, <1>q, <2>1, TypesSplit
  <1>3. CASE SlotAdvance
    <2>1. current + 1 \in Nat  BY <1>0, QmanAssumption DEF Rest, Slots
    <2>2. current' \in Slots  BY <1>3, <2>1, ModSlot DEF SlotAdvance
    <2>3. Rest'  BY <1>0, <1>3, <2>2 DEF SlotAdvance, Rest
    <2> QED  BY <1>0, <1>q, <2>3, TypesSplit
  <1> QED  BY <1>1, <1>2, <1>3

LEMMA NextTypes == Types /\ [Next]_vars => Types'
  <1> SUFFICES ASSUME Types, [Next]_vars PROVE Types'  OBVIOUS
  <1>1. CASE UNCHANGED vars
    <2>1. Rest /\ GoodQueues(localFifo, fifo, slot)  BY TypesSplit
    <2>2. Rest'  BY <1>1, <2>1 DEF Rest, vars
    <2>3. localFifo' = localFifo /\ fifo' = fifo /\ slot' = slot  BY <1>1 DEF vars
    <2> QED  BY <2>1, <2>2, <2>3, TypesSplit
  <1>2. CASE \E f \in Flows : Neighbour(f)  BY <1>2, NeighbourTypes
  <1>3. CASE Ctx
    BY <1>3, PollTypes, LocalTypes, FifoTypes, SlotTypes, RequeueTypes, WheelTypes DEF Ctx
  <1> QED  BY <1>1, <1>2, <1>3 DEF Next

(* The scheduler is type correct: in particular its counters never go      *)
(* below zero (qman.c lines 178, 185 and 230 subtract without a check of   *)
(* their own) and the local FIFO never overflows.                          *)
THEOREM QmanTypes == Spec => []TypeOK
  <1>1. Init => Types  BY InitTypes
  <1>2. Types /\ [Next]_vars => Types'  BY NextTypes
  <1>3. Types => TypeOK  BY DEF Types
  <1> QED  BY <1>1, <1>2, <1>3, PTL DEF Spec

-----------------------------------------------------------------------------
(* The count never loses bytes.                                            *)

LEMMA TimesSucc ==
  ASSUME NEW a \in Nat, NEW b \in Nat
  PROVE  /\ a * (b + 1) = a * b + a /\ a * b \in Nat
         /\ b > 0 => a * (b - 1) = a * b - a /\ b - 1 \in Nat
  OBVIOUS

(* One flow's share of BytesCovered.                                       *)
Covered(f) == ready[f] <= qavail[f] + TcpMss * sched[f]

LEMMA ChargeCovered ==
  ASSUME Types, NEW f \in Flows, NEW g \in Flows, Covered(g), ready' = ready,
         qavail' = [qavail EXCEPT ![f] = @ - Smaller(@, TcpMss)],
         sched' = [sched EXCEPT ![f] = @ + 1]
  PROVE  Covered(g)'
  <1>1. /\ qavail[g] \in Nat /\ sched[g] \in Nat /\ ready[g] \in Nat /\ TcpMss \in Nat
        /\ f \in DOMAIN qavail /\ f \in DOMAIN sched
    BY QmanAssumption DEF Types, TypeOK
  <1>2. CASE g # f  BY <1>1, <1>2 DEF Covered, Types, TypeOK
  <1>3. CASE g = f
    <2> DEFINE q == qavail[g]  p == TcpMss * sched[g]
    <2>1. /\ qavail'[g] = q - Smaller(q, TcpMss) /\ sched'[g] = sched[g] + 1
          /\ ready'[g] = ready[g]
      BY <1>1, <1>3
    <2>2. TcpMss * (sched[g] + 1) = p + TcpMss /\ p \in Nat  BY <1>1, TimesSucc
    <2>3. ready[g] <= q + p  BY DEF Covered
    <2> HIDE DEF p, q
    <2>4. Smaller(q, TcpMss) \in Nat /\ Smaller(q, TcpMss) <= TcpMss /\ q \in Nat
      BY <1>1, SmallerFacts DEF q
    <2>5. ready[g] <= (q - Smaller(q, TcpMss)) + (p + TcpMss)  BY <1>1, <2>2, <2>3, <2>4
    <2> QED  BY <2>1, <2>2, <2>5 DEF Covered
  <1> QED  BY <1>2, <1>3

LEMMA NeighbourCovered ==
  ASSUME Types, NEW f \in Flows, Neighbour(f), NEW g \in Flows, Covered(g)
  PROVE  Covered(g)'
  <1>1. /\ qavail[g] \in Nat /\ sched[g] \in Nat /\ ready[g] \in Nat /\ TcpMss \in Nat
        /\ qavail \in [Flows -> Nat] /\ sched \in [Flows -> Nat] /\ ready \in [Flows -> Nat]
    BY QmanAssumption DEF Types, TypeOK
  <1> DEFINE p == TcpMss * sched[g]
  <1>p. /\ TcpMss * (sched[g] + 1) = p + TcpMss /\ p \in Nat
        /\ sched[g] > 0 => TcpMss * (sched[g] - 1) = p - TcpMss /\ sched[g] - 1 \in Nat
    BY <1>1, TimesSucc
  <1>c. ready[g] <= qavail[g] + p  BY DEF Covered
  <1>2. CASE PushToken(f)  BY <1>2 DEF PushToken, Covered
  <1>3. CASE ForceSend(f)
    <2>1. CASE g # f  BY <1>1, <1>3, <2>1 DEF ForceSend, Covered
    <2>2. CASE g = f
      <3>1. sched'[g] = sched[g] + 1 /\ qavail'[g] = qavail[g] /\ ready'[g] = ready[g]
        BY <1>1, <1>3, <2>2 DEF ForceSend
      <3> HIDE DEF p
      <3>2. ready[g] <= qavail[g] + (p + TcpMss)  BY <1>1, <1>p, <1>c
      <3> QED  BY <1>p, <3>1, <3>2 DEF Covered
    <2> QED  BY <2>1, <2>2
  <1>4. CASE TxDone(f)
    <2>1. CASE g # f  BY <1>1, <1>4, <2>1 DEF TxDone, Covered
    <2>2. CASE g = f
      <3> DEFINE d == Smaller(ready[g], TcpMss)
      <3>1. /\ sched'[g] = sched[g] - 1 /\ qavail'[g] = qavail[g] /\ sched[g] > 0
            /\ ready'[g] = ready[g] - d
        BY <1>1, <1>4, <2>2 DEF TxDone
      <3>2. p - TcpMss \in Nat
        <4>1. sched[g] - 1 \in Nat /\ TcpMss * (sched[g] - 1) = p - TcpMss
          BY <1>p, <3>1
        <4>2. TcpMss * (sched[g] - 1) \in Nat  BY <1>1, <4>1, TimesNat
        <4> QED  BY <4>1, <4>2
      <3> HIDE DEF p
      <3>3. ready[g] - d <= qavail[g] + (p - TcpMss)
        BY <1>1, <1>p, <1>c, <3>2 DEF Smaller
      <3> QED  BY <1>p, <3>1, <3>3 DEF Covered
    <2> QED  BY <2>1, <2>2
  <1>5. ASSUME NEW n \in 1..MaxBytes, Bump(f, n) PROVE Covered(g)'
    <2>1. CASE g # f  BY <1>1, <1>5, <2>1 DEF Bump, Covered
    <2>2. CASE g = f
      <3>1. /\ sched'[g] = sched[g] /\ qavail'[g] = qavail[g] + n
            /\ ready'[g] = ready[g] + n /\ n \in Nat
        BY <1>1, <1>5, <2>2, QmanAssumption DEF Bump
      <3> HIDE DEF p
      <3>2. ready[g] + n <= (qavail[g] + n) + p  BY <1>1, <1>p, <1>c, <3>1
      <3> QED  BY <3>1, <3>2 DEF Covered, p
    <2> QED  BY <2>1, <2>2
  <1>6. ASSUME NEW r \in Rates, SetRate(f, r) PROVE Covered(g)'
    BY <1>6 DEF SetRate, Covered
  <1> QED  BY <1>2, <1>3, <1>4, <1>5, <1>6 DEF Neighbour

LEMMA CtxCovered ==
  ASSUME Types, Ctx, NEW g \in Flows, Covered(g)
  PROVE  Covered(g)'
  <1>0. Rest /\ GoodQueues(localFifo, fifo, slot)  BY TypesSplit
  <1>1. CASE LocalPoll
    <2>1. Head(localFifo) \in LocalEntry
      BY <1>0, <1>1, HeadTailRange DEF LocalPoll, GoodQueues
    <2>2. Head(localFifo).f \in Flows  BY <2>1 DEF LocalEntry
    <2> QED  BY <1>1, <2>2, ChargeCovered DEF LocalPoll
  <1>2. CASE FifoSchedule
    <2>1. Head(batch) \in Flows  BY <1>0, <1>2, HeadTailRange DEF FifoSchedule, Rest
    <2> QED  BY <1>2, <2>1, ChargeCovered DEF FifoSchedule, Schedule
  <1>3. ASSUME NEW c \in SlotCtx, SlotSchedule(c) PROVE Covered(g)'
    <2>1. held[c] \in Flows  BY <1>0, <1>3 DEF SlotSchedule, Rest
    <2> QED  BY <1>3, <2>1, ChargeCovered DEF SlotSchedule, Schedule
  <1>4. ASSUME NEW c \in SlotCtx, SlotFetch(c) PROVE Covered(g)'
    BY <1>4 DEF SlotFetch, Covered
  <1>5. ASSUME NEW c \in SlotCtx \cup {FifoCtx}, Requeue(c) PROVE Covered(g)'
    BY <1>5 DEF Requeue, Covered
  <1>6. CASE PollRead \/ PollAdd \/ FifoFetch \/ RefreshEmpty \/ SlotClose \/ SlotAdvance
    BY <1>6 DEF PollRead, PollAdd, FifoFetch, RefreshEmpty, SlotClose, SlotAdvance, Covered
  <1> QED  BY <1>1, <1>2, <1>3, <1>4, <1>5, <1>6 DEF Ctx

(* No byte that became sendable is ever missing from both the flow's count *)
(* and the operations in flight: mem_test_subsat (qman.c line 244) takes   *)
(* no more than the operation it pays for can send.                        *)
THEOREM QmanCovered == Spec => []BytesCovered
  <1> DEFINE I == Types /\ \A g \in Flows : Covered(g)
  <1>1. Init => I
    <2> SUFFICES ASSUME Init PROVE I  OBVIOUS
    <2>1. Types  BY InitTypes
    <2>2. ASSUME NEW g \in Flows PROVE Covered(g)
      <3>1. ready[g] = 0 /\ qavail[g] = 0 /\ sched[g] = 0 /\ TcpMss \in Nat
        BY QmanAssumption DEF Init
      <3> QED  BY <3>1 DEF Covered
    <2> QED  BY <2>1, <2>2
  <1>2. I /\ [Next]_vars => I'
    <2> SUFFICES ASSUME I, [Next]_vars PROVE I'  OBVIOUS
    <2>1. Types'  BY NextTypes
    <2>2. ASSUME NEW g \in Flows PROVE Covered(g)'
      <3>1. Covered(g)  OBVIOUS
      <3>2. CASE UNCHANGED vars  BY <3>1, <3>2 DEF vars, Covered
      <3>3. CASE \E f \in Flows : Neighbour(f)  BY <3>1, <3>3, NeighbourCovered
      <3>4. CASE Ctx  BY <3>1, <3>4, CtxCovered
      <3> QED  BY <3>2, <3>3, <3>4 DEF Next
    <2> QED  BY <2>1, <2>2
  <1>3. I => BytesCovered  BY DEF BytesCovered, Covered
  <1> QED  BY <1>1, <1>2, <1>3, PTL DEF Spec

-----------------------------------------------------------------------------
(* A flow with bytes has a token.                                          *)

(* A token outside the three queues.                                       *)
Outside(g) ==
  \/ pushing[g] > 0
  \/ g \in Range(bumpRing)
  \/ g \in Range(batch)
  \/ polled.f = g
  \/ \E c \in SlotCtx : held[c] = g
  \/ \E c \in SlotCtx \cup {FifoCtx} : answer[c].f = g /\ StillAvail(answer[c].avail)

Alive(g) == qavail[g] > 0 => Outside(g) \/ InQueues(g, localFifo, fifo, slot)

LEMMA AliveToken ==
  ASSUME NEW g \in Flows, Alive(g)
  PROVE  qavail[g] > 0 => HasToken(g)
  BY DEF Alive, Outside, InQueues, HasToken

(* A charge that leaves bytes on the count answers with more than TCP_MSS. *)
LEMMA ChargeLeaves ==
  ASSUME Types, NEW f \in Flows, NEW g \in Flows,
         qavail' = [qavail EXCEPT ![f] = @ - Smaller(@, TcpMss)], qavail'[g] > 0
  PROVE  qavail[g] > 0 /\ (g = f => StillAvail(qavail[g]))
  <1>1. qavail \in [Flows -> Nat] /\ qavail[g] \in Nat /\ TcpMss \in Nat
    BY QmanAssumption DEF Types, TypeOK
  <1>2. CASE g # f  BY <1>1, <1>2
  <1>3. CASE g = f
    <2>1. qavail'[g] = qavail[g] - Smaller(qavail[g], TcpMss)  BY <1>1, <1>3
    <2> QED  BY <1>1, <2>1 DEF Smaller, StillAvail
  <1> QED  BY <1>2, <1>3

LEMMA NeighbourAlive ==
  ASSUME Types, NEW f \in Flows, Neighbour(f), NEW g \in Flows, Alive(g)
  PROVE  Alive(g)'
  <1>0. Rest /\ GoodQueues(localFifo, fifo, slot)  BY TypesSplit
  <1>t. /\ qavail \in [Flows -> Nat] /\ pushing \in [Flows -> Nat]
        /\ qavail[g] \in Nat /\ pushing[g] \in Nat
    BY <1>0 DEF Rest
  <1>1. CASE PushToken(f)
    <2>1. bumpRing' = Append(bumpRing, f) /\ Range(bumpRing') = Range(bumpRing) \cup {f}
      BY <1>0, <1>1, AppendRange DEF PushToken, Rest
    <2>2. g = f => g \in Range(bumpRing')  BY <2>1
    <2>3. g # f => pushing'[g] = pushing[g]  BY <1>t, <1>1 DEF PushToken
    <2> QED  BY <1>1, <2>1, <2>2, <2>3 DEF PushToken, Alive, Outside
  <1>2. CASE ForceSend(f)  BY <1>2 DEF ForceSend, Alive, Outside
  <1>3. CASE TxDone(f)  BY <1>3 DEF TxDone, Alive, Outside
  <1>4. ASSUME NEW r \in Rates, SetRate(f, r) PROVE Alive(g)'
    BY <1>4 DEF SetRate, Alive, Outside
  <1>5. ASSUME NEW n \in 1..MaxBytes, Bump(f, n) PROVE Alive(g)'
    <2>1. CASE g # f
      <3>1. qavail'[g] = qavail[g] /\ pushing'[g] = pushing[g]
        BY <1>t, <1>5, <2>1 DEF Bump
      <3> QED  BY <1>5, <3>1 DEF Bump, Alive, Outside
    <2>2. CASE g = f /\ qavail[g] = 0
      <3>1. pushing'[g] = pushing[g] + 1  BY <1>t, <1>5, <2>2 DEF Bump
      <3>2. pushing'[g] > 0  BY <1>t, <3>1
      <3> QED  BY <3>2 DEF Alive, Outside
    <2>3. CASE g = f /\ qavail[g] # 0
      <3>1. pushing' = pushing /\ qavail[g] > 0  BY <1>t, <1>5, <2>3 DEF Bump
      <3> QED  BY <1>5, <3>1 DEF Bump, Alive, Outside
    <2> QED  BY <2>1, <2>2, <2>3
  <1> QED  BY <1>1, <1>2, <1>3, <1>4, <1>5 DEF Neighbour

LEMMA PollAlive ==
  ASSUME Types, PollRead \/ PollAdd, NEW g \in Flows, Alive(g)
  PROVE  Alive(g)'
  <1>0. Rest /\ GoodQueues(localFifo, fifo, slot)  BY TypesSplit
  <1>1. CASE PollRead
    <2>1. Range(bumpRing) = Range(Tail(bumpRing)) \cup {Head(bumpRing)}
      BY <1>0, <1>1, HeadTailRange DEF PollRead, Rest
    <2>2. polled'.f = Head(bumpRing) /\ bumpRing' = Tail(bumpRing)
      BY <1>1 DEF PollRead
    <2>3. polled.f # g  BY <1>1, QmanAssumption DEF PollRead, None
    <2> QED  BY <1>1, <2>1, <2>2, <2>3 DEF PollRead, Alive, Outside
  <1>2. CASE PollAdd
    <2>1. polled.f \in Flows /\ polled.avail \in Nat /\ polled.rate \in Nat
      BY <1>0, <1>2 DEF PollAdd, Rest, Token
    <2>2. /\ InQueues(polled.f, localFifo', fifo', slot')
          /\ \A h : InQueues(h, localFifo, fifo, slot) => InQueues(h, localFifo', fifo', slot')
      BY <1>0, <1>2, <2>1, AddKeeps DEF PollAdd, Types
    <2> QED  BY <1>2, <2>2 DEF PollAdd, Alive, Outside
  <1> QED  BY <1>1, <1>2

LEMMA LocalAlive ==
  ASSUME Types, LocalPoll, NEW g \in Flows, Alive(g)
  PROVE  Alive(g)'
  <1> DEFINE e == Head(localFifo)
  <1>0. Rest /\ GoodQueues(localFifo, fifo, slot)  BY TypesSplit
  <1>1. /\ e \in LocalEntry /\ Tail(localFifo) \in Seq(LocalEntry)
        /\ Len(Tail(localFifo)) = Len(localFifo) - 1 /\ Len(localFifo) \in Nat
        /\ Range(localFifo) = Range(Tail(localFifo)) \cup {e}
    BY <1>0, HeadTailRange DEF LocalPoll, GoodQueues
  <1>2. e.f \in Flows /\ e.avail \in Nat /\ e.avail >= TcpMss
    BY <1>0, <1>1 DEF LocalEntry, GoodQueues
  <1>5. /\ AddToQueue(e.f, e.avail - TcpMss, 0, Tail(localFifo))
        /\ qavail' = [qavail EXCEPT ![e.f] = @ - Smaller(@, TcpMss)]
    BY DEF LocalPoll
  <1> HIDE DEF e
  <1>3. GoodQueues(Tail(localFifo), fifo, slot)
    BY <1>0, <1>1, QmanAssumption DEF GoodQueues
  <1>4. e.avail - TcpMss \in Nat  BY <1>2, QmanAssumption
  <1>6. /\ InQueues(e.f, localFifo', fifo', slot')
        /\ \A h : InQueues(h, Tail(localFifo), fifo, slot)
                 => InQueues(h, localFifo', fifo', slot')
    BY <1>2, <1>3, <1>4, <1>5, AddKeeps DEF Types
  <1>7. InQueues(g, localFifo, fifo, slot) =>
          g = e.f \/ InQueues(g, Tail(localFifo), fifo, slot)
    BY <1>1 DEF InQueues
  <1>8. qavail'[g] > 0 => qavail[g] > 0
    BY <1>2, <1>5, ChargeLeaves
  <1>9. Outside(g) => Outside(g)'  BY DEF LocalPoll, Outside
  <1> QED  BY <1>6, <1>7, <1>8, <1>9 DEF Alive

(* A context that schedules g keeps its token if bytes are left.           *)
LEMMA ScheduleAlive ==
  ASSUME Types, NEW c \in SlotCtx \cup {FifoCtx}, NEW f \in Flows, Schedule(c, f),
         NEW g \in Flows, qavail'[g] > 0
  PROVE  /\ qavail[g] > 0
         /\ g = f => answer'[c].f = g /\ StillAvail(answer'[c].avail)
         /\ \A d \in SlotCtx \cup {FifoCtx} :
              answer[d].f = g => d # c /\ answer'[d] = answer[d]
  <1>0. Rest  BY TypesSplit
  <1>1. /\ answer'[c] = [f |-> f, avail |-> qavail[f], rate |-> rate[f]]
        /\ \A d \in SlotCtx \cup {FifoCtx} : d # c => answer'[d] = answer[d]
    BY <1>0, ScheduleTypes
  <1>2. answer'[c].f = f /\ answer'[c].avail = qavail[f]
    <2> DEFINE t == [f |-> f, avail |-> qavail[f], rate |-> rate[f]]
    <2>1. t.f = f /\ t.avail = qavail[f]  OBVIOUS
    <2>2. answer'[c] = t  BY <1>1
    <2> HIDE DEF t
    <2> QED  BY <2>1, <2>2
  <1>3. qavail[g] > 0 /\ (g = f => StillAvail(qavail[g]))
    BY ChargeLeaves DEF Schedule
  <1>4. answer[c].f # g  BY QmanAssumption DEF Schedule, None
  <1> QED  BY <1>1, <1>2, <1>3, <1>4

LEMMA FifoAlive ==
  ASSUME Types, FifoFetch \/ FifoSchedule, NEW g \in Flows, Alive(g)
  PROVE  Alive(g)'
  <1>0. Rest /\ GoodQueues(localFifo, fifo, slot)  BY TypesSplit
  <1>1. CASE FifoFetch
    <2> DEFINE n == Smaller(FifoBatch, Len(fifo))
    <2>1. fifo \in Seq(Flows) /\ fifo # <<>>  BY <1>0, <1>1 DEF GoodQueues, FifoFetch
    <2>2. Len(fifo) \in Nat \ {0}  BY <2>1
    <2>3. n \in 1..Len(fifo)  BY <2>2, QmanAssumption DEF Smaller
    <2>4. batch' = SubSeq(fifo, 1, n) /\ fifo' = SubSeq(fifo, n + 1, Len(fifo))
      BY <1>1 DEF FifoFetch
    <2> HIDE DEF n
    <2>5. Range(fifo) = Range(batch') \cup Range(fifo')
      BY <2>1, <2>3, <2>4, SplitRange
    <2>6. Range(batch) = {}  BY <1>1 DEF FifoFetch, Range
    <2>7. Outside(g) => Outside(g)'  BY <1>1, <2>6 DEF FifoFetch, Outside
    <2>8. InQueues(g, localFifo, fifo, slot) =>
            g \in Range(batch') \/ InQueues(g, localFifo', fifo', slot')
      BY <1>1, <2>5 DEF FifoFetch, InQueues
    <2>9. g \in Range(batch') => Outside(g)'  BY DEF Outside
    <2>10. qavail' = qavail  BY <1>1 DEF FifoFetch
    <2> QED  BY <2>7, <2>8, <2>9, <2>10 DEF Alive
  <1>2. CASE FifoSchedule
    <2> SUFFICES ASSUME qavail'[g] > 0 PROVE Alive(g)'  BY DEF Alive
    <2> DEFINE f == Head(batch)
    <2>1. f \in Flows /\ Range(batch) = Range(Tail(batch)) \cup {f}
      BY <1>0, <1>2, HeadTailRange DEF FifoSchedule, Rest
    <2>2. Schedule(FifoCtx, f) /\ batch' = Tail(batch)  BY <1>2 DEF FifoSchedule
    <2> HIDE DEF f
    <2>3. /\ qavail[g] > 0
          /\ g = f => answer'[FifoCtx].f = g /\ StillAvail(answer'[FifoCtx].avail)
          /\ \A d \in SlotCtx \cup {FifoCtx} :
               answer[d].f = g => d # FifoCtx /\ answer'[d] = answer[d]
      BY <2>1, <2>2, ScheduleAlive
    <2>4. localFifo' = localFifo /\ fifo' = fifo /\ slot' = slot
      BY <1>2 DEF FifoSchedule
    <2>5. pushing' = pushing /\ bumpRing' = bumpRing /\ polled' = polled /\ held' = held
      BY <1>2 DEF FifoSchedule
    <2>6. CASE g = f  BY <2>3, <2>6 DEF Alive, Outside
    <2>7. CASE g # f
      <3>1. Outside(g) => Outside(g)'  BY <2>1, <2>2, <2>3, <2>5, <2>7 DEF Outside
      <3> QED  BY <2>3, <2>4, <3>1 DEF Alive
    <2> QED  BY <2>6, <2>7
  <1> QED  BY <1>1, <1>2

LEMMA SlotAlive ==
  ASSUME Types, NEW c \in SlotCtx, SlotFetch(c) \/ SlotSchedule(c),
         NEW g \in Flows, Alive(g)
  PROVE  Alive(g)'
  <1>0. Rest /\ GoodQueues(localFifo, fifo, slot)  BY TypesSplit
  <1>z. g # None  BY QmanAssumption DEF None
  <1>1. CASE SlotFetch(c)
    <2>1. slot[current] \in Seq(Flows) /\ slot[current] # <<>> /\ current \in Slots
      BY <1>0, <1>1 DEF SlotFetch, GoodQueues, Rest
    <2>2. Range(slot[current]) = Range(Tail(slot[current])) \cup {Head(slot[current])}
      BY <2>1, HeadTailRange
    <2>3. /\ slot'[current] = Tail(slot[current])
          /\ \A s \in Slots : s # current => slot'[s] = slot[s]
          /\ held'[c] = Head(slot[current])
          /\ \A d \in SlotCtx : d # c => held'[d] = held[d]
          /\ held[c] = None
      BY <1>0, <1>1, <2>1 DEF SlotFetch, GoodQueues, Rest
    <2>4. InQueues(g, localFifo, fifo, slot) =>
            g = held'[c] \/ InQueues(g, localFifo', fifo', slot')
      BY <1>1, <2>1, <2>2, <2>3 DEF SlotFetch, InQueues
    <2>5. Outside(g) => Outside(g)'
      BY <1>1, <1>z, <2>3 DEF SlotFetch, Outside
    <2>6. g = held'[c] => Outside(g)'  BY DEF Outside
    <2>7. qavail' = qavail  BY <1>1 DEF SlotFetch
    <2> QED  BY <2>4, <2>5, <2>6, <2>7 DEF Alive
  <1>2. CASE SlotSchedule(c)
    <2> SUFFICES ASSUME qavail'[g] > 0 PROVE Alive(g)'  BY DEF Alive
    <2> DEFINE f == held[c]
    <2>1. f \in Flows /\ Schedule(c, f)  BY <1>0, <1>2 DEF SlotSchedule, Rest
    <2>2. \A d \in SlotCtx : held[d] # f => held'[d] = held[d]
      BY <1>0, <1>2 DEF SlotSchedule, Rest
    <2> HIDE DEF f
    <2>3. /\ qavail[g] > 0
          /\ g = f => answer'[c].f = g /\ StillAvail(answer'[c].avail)
          /\ \A d \in SlotCtx \cup {FifoCtx} :
               answer[d].f = g => d # c /\ answer'[d] = answer[d]
      BY <2>1, ScheduleAlive
    <2>4. localFifo' = localFifo /\ fifo' = fifo /\ slot' = slot
      BY <1>2 DEF SlotSchedule
    <2>5. pushing' = pushing /\ bumpRing' = bumpRing /\ polled' = polled /\ batch' = batch
      BY <1>2 DEF SlotSchedule
    <2>6. CASE g = f  BY <2>3, <2>6 DEF Alive, Outside
    <2>7. CASE g # f
      <3>1. Outside(g) => Outside(g)'  BY <2>2, <2>3, <2>5, <2>7 DEF Outside
      <3> QED  BY <2>3, <2>4, <3>1 DEF Alive
    <2> QED  BY <2>6, <2>7
  <1> QED  BY <1>1, <1>2

LEMMA RequeueAlive ==
  ASSUME Types, NEW c \in SlotCtx \cup {FifoCtx}, Requeue(c), NEW g \in Flows, Alive(g)
  PROVE  Alive(g)'
  <1> DEFINE a == answer[c]
  <1>0. Rest /\ GoodQueues(localFifo, fifo, slot)  BY TypesSplit
  <1>1. a.f \in Flows /\ a.avail \in Nat /\ a.rate \in Nat
    BY <1>0 DEF Requeue, Rest, Token
  <1>2. \A d \in SlotCtx \cup {FifoCtx} : d # c => answer'[d] = answer[d]
    BY <1>0 DEF Requeue, Rest
  <1>3. CASE StillAvail(a.avail)
    <2>1. a.avail - TcpMss \in Nat  BY <1>1, <1>3, QmanAssumption DEF StillAvail
    <2>2. AddToQueue(a.f, a.avail - TcpMss, a.rate, localFifo)
      BY <1>3 DEF Requeue
    <2>a. Outside(g) => g = a.f \/ Outside(g)'  BY <1>2 DEF Requeue, Outside
    <2> HIDE DEF a
    <2>3. /\ InQueues(a.f, localFifo', fifo', slot')
          /\ \A h : InQueues(h, localFifo, fifo, slot)
                   => InQueues(h, localFifo', fifo', slot')
      BY <1>0, <1>1, <2>1, <2>2, AddKeeps DEF Types
    <2>4. qavail' = qavail  BY DEF Requeue
    <2> QED  BY <2>3, <2>4, <2>a DEF Alive
  <1>4. CASE ~StillAvail(a.avail)
    <2>1. localFifo' = localFifo /\ fifo' = fifo /\ slot' = slot /\ qavail' = qavail
      BY <1>4 DEF Requeue
    <2>2. Outside(g) => Outside(g)'  BY <1>2, <1>4 DEF Requeue, Outside
    <2> QED  BY <2>1, <2>2 DEF Alive
  <1> QED  BY <1>3, <1>4

LEMMA CtxAlive ==
  ASSUME Types, Ctx, NEW g \in Flows, Alive(g)
  PROVE  Alive(g)'
  <1>1. CASE RefreshEmpty \/ SlotClose \/ SlotAdvance
    BY <1>1 DEF RefreshEmpty, SlotClose, SlotAdvance, Alive, Outside
  <1>2. CASE PollRead \/ PollAdd  BY <1>2, PollAlive
  <1>3. CASE LocalPoll  BY <1>3, LocalAlive
  <1>4. CASE FifoFetch \/ FifoSchedule  BY <1>4, FifoAlive
  <1>5. CASE \E c \in SlotCtx : SlotFetch(c) \/ SlotSchedule(c)  BY <1>5, SlotAlive
  <1>6. CASE \E c \in SlotCtx \cup {FifoCtx} : Requeue(c)  BY <1>6, RequeueAlive
  <1> QED  BY <1>1, <1>2, <1>3, <1>4, <1>5, <1>6 DEF Ctx

(* A flow with bytes on its count always has a token in the scheduler, in  *)
(* whatever order the eight contexts and post-processing run.              *)
THEOREM QmanTokens == Spec => []TokenForBytes
  <1> DEFINE I == Types /\ \A g \in Flows : Alive(g)
  <1>1. Init => I
    <2> SUFFICES ASSUME Init PROVE I  OBVIOUS
    <2>1. Types  BY InitTypes
    <2>2. ASSUME NEW g \in Flows PROVE Alive(g)  BY DEF Init, Alive
    <2> QED  BY <2>1, <2>2
  <1>2. I /\ [Next]_vars => I'
    <2> SUFFICES ASSUME I, [Next]_vars PROVE I'  OBVIOUS
    <2>1. Types'  BY NextTypes
    <2>2. ASSUME NEW g \in Flows PROVE Alive(g)'
      <3>1. Alive(g)  OBVIOUS
      <3>2. CASE UNCHANGED vars  BY <3>1, <3>2 DEF vars, Alive, Outside
      <3>3. CASE \E f \in Flows : Neighbour(f)  BY <3>1, <3>3, NeighbourAlive
      <3>4. CASE Ctx  BY <3>1, <3>4, CtxAlive
      <3> QED  BY <3>2, <3>3, <3>4 DEF Next
    <2> QED  BY <2>1, <2>2
  <1>3. I => TokenForBytes
    <2> SUFFICES ASSUME I, NEW g \in Flows PROVE qavail[g] > 0 => HasToken(g)
      BY DEF TokenForBytes
    <2>1. Alive(g)  OBVIOUS
    <2> QED  BY <2>1, AliveToken
  <1> QED  BY <1>1, <1>2, <1>3, PTL DEF Spec
=============================================================================
