--------------------------- MODULE SlowPathProofs ---------------------------
(***************************************************************************)
(* Both rings between the slow path and the NIC deliver everything once,   *)
(* in order and whole, for rings of any length, any number of connections  *)
(* and any load.                                                           *)
(*                                                                         *)
(* Positions in a ring of length n are compared by the distance from one   *)
(* to the next (Gap) and counted on from one (Slot), so that what % means  *)
(* is needed once, at the end (Modulo).                                    *)
(***************************************************************************)
EXTENDS SlowPath, Wakeup, TLAPS

(* How far b is ahead of a, and the position k after a.                    *)
Gap(a, b, n) == IF a <= b THEN b - a ELSE (b - a) + n
Slot(a, k, n) == IF a + k < n THEN a + k ELSE (a + k) - n

Types == {"PACKET", "CONN_RETX", "FLOWHT_ADD", "CONN_CLOSE"}
Commands == {INVALID} \cup [type : Types, id : 0..(Ids - 1), conn : Conns \cup {NULL}]

TxTypes ==
  /\ txq \in [0..(TxqLen - 1) -> Commands] /\ txbuf \in [0..(TxqLen - 1) -> Nat]
  /\ txq_tail \in 0..(TxqLen - 1) /\ tx_tail \in 0..(TxqLen - 1)
  /\ ntx \in [head : 0..(TxqLen - 1), tail : 0..(TxqLen - 1),
              pc : {"poll", "null", "process"}, idx : 0..(TxqLen - 1), cmd : Commands]
  /\ issued \in 0..(Ids - 1) /\ done \in 0..(Ids - 1) /\ overrun \in BOOLEAN

RxTypes ==
  /\ rxq \in [0..(RxqLen - 1) -> Nat] /\ rxbuf \in [0..(RxqLen - 1) -> Nat]
  /\ rxq_head \in 0..(RxqLen - 1) /\ rx_head \in 0..(RxqLen - 1)
  /\ nrx \in [tail : 0..(RxqLen - 1), head : 0..(RxqLen - 1), pc : {"poll", "desc"},
              idx : 0..(RxqLen - 1), taken : Nat]
  /\ served \in Nat

(* The number of the command in the slot at the NIC's head.                *)
TxFirst == IF InHand THEN Slot(done, 1, Ids) ELSE done

(* Both copies of the tail, the NIC's and the doorbell's, lie between the  *)
(* NIC's head and the tail.                                                *)
TxOrder ==
  /\ Gap(ntx.head, ntx.tail, TxqLen) <= Gap(ntx.head, tx_tail, TxqLen)
  /\ Gap(ntx.head, tx_tail, TxqLen) <= Gap(ntx.head, txq_tail, TxqLen)

TxHand == InHand => Slot(ntx.idx, 1, TxqLen) = ntx.head /\ Intact(ntx.cmd, ntx.idx, done)

TxSlots ==
  \A k \in 0..(TxqLen - 1) : k < Gap(ntx.head, txq_tail, TxqLen) =>
    Intact(txq[Slot(ntx.head, k, TxqLen)], Slot(ntx.head, k, TxqLen), Slot(TxFirst, k, Ids))

TxCount == issued = Slot(TxFirst, Gap(ntx.head, txq_tail, TxqLen), Ids)

TxInv == TxTypes /\ (overrun \/ (TxOrder /\ TxHand /\ TxSlots /\ TxCount))

(* The number of the packet in the slot at the slow path's head, and how   *)
(* many packets the NIC is ahead.                                          *)
RxFirst == IF phase = "release" THEN served ELSE served + 1
RxGap == Gap(rxq_head, nrx.tail, RxqLen)

(* Both copies of the head, the NIC's and the doorbell's, lie behind the   *)
(* head, and the NIC's tail has not come round to the NIC's copy.          *)
RxOrder ==
  /\ Gap(rx_head, nrx.tail, RxqLen) <= Gap(nrx.head, nrx.tail, RxqLen)
  /\ RxGap <= Gap(rx_head, nrx.tail, RxqLen)

RxHand == nrx.pc = "desc" => Slot(nrx.idx, 1, RxqLen) = nrx.tail /\ RxGap > 0

(* The packet that is being processed is there.                            *)
RxBusy == phase = "release" => RxGap > 0 /\ ~(nrx.pc = "desc" /\ rxq_head = nrx.idx)

RxSlots ==
  \A k \in 0..(RxqLen - 1) :
    LET i == Slot(rxq_head, k, RxqLen)
        arrived == k < RxGap /\ ~(nrx.pc = "desc" /\ i = nrx.idx) IN
    /\ k < RxGap => rxbuf[i] = RxFirst + k
    /\ rxq[i] = IF arrived THEN RxFirst + k ELSE 0

RxInv == RxTypes /\ RxOrder /\ RxHand /\ RxBusy /\ RxSlots /\ nrx.taken = (RxFirst + RxGap) - 1

SlowPathInv == TxInv /\ RxInv

-----------------------------------------------------------------------------
(* Positions in a ring.                                                    *)

(* What % means for a number less than one turn away.                      *)
LEMMA Modulo ==
  ASSUME NEW n \in Nat, n > 1
  PROVE  /\ \A x \in 0..(n - 1) : x % n = x
         /\ \A x \in n..(2 * n - 1) : x % n = x - n
         /\ \A x \in (-n)..(-1) : x % n = x + n
<1>1. ASSUME NEW x \in 0..(n - 1) PROVE x % n = x
  BY <1>1
<1>2. ASSUME NEW x \in n..(2 * n - 1) PROVE x % n = x - n
  BY <1>2
<1>3. ASSUME NEW x \in (-n)..(-1) PROVE x % n = x + n
  BY <1>3
<1> QED
  BY <1>1, <1>2, <1>3, Zenon

(* A Gap is a remainder.                                                   *)
LEMMA GapMod ==
  ASSUME NEW n \in Nat, n > 1, NEW a \in 0..(n - 1), NEW b \in 0..(n - 1)
  PROVE  (b - a) % n = Gap(a, b, n)
<1>1. CASE a <= b
  <2>1. b - a \in 0..(n - 1)
    BY <1>1
  <2> QED
    BY <1>1, <2>1, Modulo DEF Gap
<1>2. CASE ~(a <= b)
  <2>1. b - a \in (-n)..(-1)
    BY <1>2
  <2> QED
    BY <1>2, <2>1, Modulo DEF Gap
<1> QED
  BY <1>1, <1>2

(* So is a Slot.                                                           *)
LEMMA SlotMod ==
  ASSUME NEW n \in Nat, n > 1, NEW a \in 0..(n - 1), NEW k \in 0..n
  PROVE  (a + k) % n = Slot(a, k, n)
<1>1. CASE a + k < n
  <2>1. a + k \in 0..(n - 1)
    BY <1>1
  <2> QED
    BY <1>1, <2>1, Modulo DEF Slot
<1>2. CASE ~(a + k < n)
  <2>1. a + k \in n..(2 * n - 1)
    BY <1>2
  <2> QED
    BY <1>2, <2>1, Modulo DEF Slot
<1> QED
  BY <1>1, <1>2

(* Counting on by the gap.                                                 *)
LEMMA SlotGap ==
  ASSUME NEW n \in Nat, n > 1, NEW a \in 0..(n - 1), NEW b \in 0..(n - 1)
  PROVE  Slot(a, Gap(a, b, n), n) = b /\ Gap(a, b, n) \in Int
BY DEF Gap, Slot

LEMMA Ranges ==
  ASSUME NEW n \in Nat, n > 1, NEW a \in 0..(n - 1)
  PROVE  /\ \A b \in 0..(n - 1) : Gap(a, b, n) \in 0..(n - 1)
         /\ \A k \in 0..n : Slot(a, k, n) \in 0..(n - 1)
         /\ Succ(a, n) = Slot(a, 1, n)
         /\ Slot(a, 0, n) = a
BY DEF Gap, Slot, Succ

(* A position that is not one turn ahead moves on.                         *)
LEMMA GapGrows ==
  ASSUME NEW n \in Nat, n > 1, NEW a \in 0..(n - 1), NEW b \in 0..(n - 1)
  PROVE  /\ Slot(b, 1, n) # a => Gap(a, Slot(b, 1, n), n) = Gap(a, b, n) + 1
         /\ Slot(b, 1, n) = a => Gap(a, b, n) = n - 1
         /\ a # b => Gap(Slot(a, 1, n), b, n) = Gap(a, b, n) - 1 /\ Gap(a, b, n) > 0
         /\ Gap(a, a, n) = 0
         /\ Gap(a, Slot(a, 1, n), n) = 1
BY DEF Gap, Slot

(* Counting on, and that less than a turn away positions differ.           *)
LEMMA SlotCounts ==
  ASSUME NEW n \in Nat, n > 1, NEW a \in 0..(n - 1)
  PROVE  /\ \A k \in 0..(n - 1) : Slot(Slot(a, 1, n), k, n) = Slot(a, k + 1, n)
         /\ \A k \in 0..(n - 1) : Slot(Slot(a, k, n), 1, n) = Slot(a, k + 1, n)
         /\ \A j, k \in 0..(n - 1) : Slot(a, j, n) = Slot(a, k, n) => j = k
         /\ Slot(a, n, n) = a
BY DEF Slot

(* What is known of the lengths of the rings.                              *)
LEMMA Constants ==
  /\ TxqLen \in Nat /\ TxqLen > 1 /\ RxqLen \in Nat /\ RxqLen > 1
  /\ Ids \in Nat /\ Ids > 1 /\ Ids = 2 * TxqLen
BY SlowPathAssumption DEF Ids

-----------------------------------------------------------------------------
(* The transmit ring.                                                      *)

(* The record of the NIC's context.                                        *)
LEMMA NtxFields ==
  ASSUME TxTypes
  PROVE  /\ ntx.head \in 0..(TxqLen - 1) /\ ntx.tail \in 0..(TxqLen - 1)
         /\ ntx.idx \in 0..(TxqLen - 1) /\ ntx.cmd \in Commands
         /\ ntx.pc \in {"poll", "null", "process"}
         /\ TxFirst \in 0..(Ids - 1)
<1>1. /\ ntx.head \in 0..(TxqLen - 1) /\ ntx.tail \in 0..(TxqLen - 1)
      /\ ntx.idx \in 0..(TxqLen - 1) /\ ntx.cmd \in Commands
      /\ ntx.pc \in {"poll", "null", "process"}
  BY DEF TxTypes
<1>2. done \in 0..(Ids - 1)
  BY DEF TxTypes
<1>3. 1 \in 0..Ids /\ Slot(done, 1, Ids) \in 0..(Ids - 1)
  BY <1>2, Constants, Ranges
<1> QED
  BY <1>1, <1>2, <1>3, Zenon DEF TxFirst

(* The slow path's own steps: a command is put into the slot at the tail.  *)
LEMMA PutTypes ==
  ASSUME TxTypes, NEW type \in Types, NEW c \in Conns \cup {NULL}, Put(type, c),
         UNCHANGED <<tx_tail, ntx, done>>
  PROVE  TxTypes' /\ txq_tail' = Slot(txq_tail, 1, TxqLen) /\ issued' = Slot(issued, 1, Ids)
<1>1. txq_tail \in 0..(TxqLen - 1) /\ issued \in 0..(Ids - 1)
  BY DEF TxTypes
<1>2. txq_tail' = Slot(txq_tail, 1, TxqLen) /\ txq_tail' \in 0..(TxqLen - 1)
  BY <1>1, Constants, Ranges DEF Put
<1>3. issued' = Slot(issued, 1, Ids) /\ issued' \in 0..(Ids - 1)
  <2>1. issued' = (issued + 1) % Ids
    BY DEF Put, NextId
  <2>2. 1 \in 0..Ids
    BY Constants
  <2> QED
    BY <1>1, <2>1, <2>2, Constants, Ranges, SlotMod
<1> DEFINE m == [type |-> type, id |-> issued, conn |-> c]
<1>4. m \in Commands
  BY <1>1 DEF Commands
<1>5. txq' = [txq EXCEPT ![txq_tail] = m]
  BY DEF Put
<1> HIDE DEF m
<1>6. txq' \in [0..(TxqLen - 1) -> Commands]
  BY <1>1, <1>4, <1>5 DEF TxTypes
<1>7. txbuf' \in [0..(TxqLen - 1) -> Nat]
  BY <1>1, Constants DEF TxTypes, Put
<1>8. overrun' \in BOOLEAN
  BY Zenon DEF Put
<1>9. tx_tail' \in 0..(TxqLen - 1) /\ done' \in 0..(Ids - 1) /\ ntx' = ntx
  BY DEF TxTypes
<1> QED
  BY <1>2, <1>3, <1>6, <1>7, <1>8, <1>9, Zenon DEF TxTypes

(* A slot and its buffer are left alone by the others.                     *)
LEMMA PutElsewhere ==
  ASSUME TxTypes, NEW type, NEW c, Put(type, c),
         NEW i \in 0..(TxqLen - 1), i # txq_tail
  PROVE  txq'[i] = txq[i] /\ txbuf'[i] = txbuf[i]
BY DEF TxTypes, Put

(* The command put is intact, whatever was there.                          *)
LEMMA PutIntact ==
  ASSUME TxTypes, NEW type \in Types, NEW c, Put(type, c)
  PROVE  LET m == txq'[txq_tail]
         IN  m # INVALID /\ m.id = issued /\ (m.type = "PACKET" => txbuf'[txq_tail] = issued)
<1> DEFINE m == [type |-> type, id |-> issued, conn |-> c]
<1>1. txq_tail \in 0..(TxqLen - 1) /\ txq'[txq_tail] = m
  BY DEF TxTypes, Put
<1>2. m.id = issued /\ m.type = type /\ "id" \in DOMAIN m
  OBVIOUS
<1>3. "id" \notin DOMAIN INVALID
  BY DEF INVALID
<1>4. type = "PACKET" => txbuf'[txq_tail] = issued
  BY <1>1 DEF TxTypes, Put
<1> HIDE DEF m
<1> QED
  BY <1>1, <1>2, <1>3, <1>4, Zenon

LEMMA PutTx ==
  ASSUME TxInv, NEW type \in Types, NEW c \in Conns \cup {NULL}, Put(type, c),
         UNCHANGED <<tx_tail, ntx, done>>
  PROVE  TxInv'
<1>1. TxTypes /\ TxTypes' /\ txq_tail' = Slot(txq_tail, 1, TxqLen) /\ issued' = Slot(issued, 1, Ids)
  BY PutTypes DEF TxInv
<1>2. CASE overrun'
  BY <1>1, <1>2, Zenon DEF TxInv
<1>3. CASE ~overrun'
  <2>1. ~overrun /\ Slot(txq_tail, 1, TxqLen) # ntx.head
    BY <1>1, <1>3, Zenon DEF Put
  <2>2. TxOrder /\ TxHand /\ TxSlots /\ TxCount
    BY <2>1, Zenon DEF TxInv
  <2> DEFINE g == Gap(ntx.head, txq_tail, TxqLen)
  <2>3. /\ ntx.head \in 0..(TxqLen - 1) /\ txq_tail \in 0..(TxqLen - 1)
        /\ ntx.idx \in 0..(TxqLen - 1) /\ TxFirst \in 0..(Ids - 1)
    BY <1>1, NtxFields DEF TxTypes
  <2>4. Gap(ntx.head, txq_tail', TxqLen) = g + 1 /\ g \in 0..(TxqLen - 1)
    BY <1>1, <2>1, <2>3, Constants, GapGrows, Ranges
  <2>5. Gap(ntx.head, txq_tail', TxqLen) \in 0..(TxqLen - 1)
    BY <1>1, <2>3, Constants, Ranges DEF TxTypes
  <2>6. Slot(ntx.head, g, TxqLen) = txq_tail
    BY <2>3, Constants, SlotGap
  <2>7. TxFirst' = TxFirst
    BY Zenon DEF TxFirst, InHand
  <2>8. TxOrder'
    <3>1. /\ Gap(ntx.head, ntx.tail, TxqLen) <= Gap(ntx.head, tx_tail, TxqLen)
          /\ Gap(ntx.head, tx_tail, TxqLen) <= g
      BY <2>2 DEF TxOrder
    <3>2. Gap(ntx.head, tx_tail, TxqLen) \in 0..(TxqLen - 1)
      BY <1>1, <2>3, Constants, Ranges DEF TxTypes
    <3> HIDE DEF g
    <3>3. Gap(ntx.head, tx_tail, TxqLen) <= Gap(ntx.head, txq_tail', TxqLen)
      BY <2>4, <3>1, <3>2
    <3> QED
      BY <3>1, <3>3, Zenon DEF TxOrder
  <2>9. TxHand'
    <3>1. ASSUME InHand
          PROVE  Slot(ntx.idx, 1, TxqLen) = ntx.head /\ Intact(ntx.cmd, ntx.idx, done)
      BY <2>2, <3>1, Zenon DEF TxHand
    <3>2. InHand => ntx.idx # txq_tail
      BY <2>1, <3>1, Zenon
    <3>3. InHand => txbuf'[ntx.idx] = txbuf[ntx.idx]
      BY <1>1, <2>3, <3>2, PutElsewhere, Zenon
    <3> QED
      BY <3>1, <3>3, Zenon DEF TxHand, InHand, Intact
  <2>10. TxCount'
    <3>1. issued = Slot(TxFirst, g, Ids)
      BY <2>2 DEF TxCount
    <3>2. g \in 0..(Ids - 1)
      BY <2>4, Constants
    <3> HIDE DEF g
    <3>3. Slot(Slot(TxFirst, g, Ids), 1, Ids) = Slot(TxFirst, g + 1, Ids)
      BY <2>3, <3>2, Constants, SlotCounts
    <3> QED
      BY <1>1, <2>4, <2>7, <3>1, <3>3, Zenon DEF TxCount
  <2>11. TxSlots'
    <3> SUFFICES ASSUME NEW k \in 0..(TxqLen - 1), k < g + 1
                 PROVE  LET i == Slot(ntx.head, k, TxqLen)
                            id == Slot(TxFirst, k, Ids)
                        IN  txq'[i] # INVALID /\ txq'[i].id = id
                            /\ (txq'[i].type = "PACKET" => txbuf'[i] = id)
      BY <2>4, <2>7, Zenon DEF TxSlots, Intact
    <3> DEFINE i == Slot(ntx.head, k, TxqLen)
    <3>1. CASE k = g
      <4>1. i = txq_tail
        BY <2>6, <3>1, Zenon
      <4>2. issued = Slot(TxFirst, k, Ids)
        BY <2>2, <3>1, Zenon DEF TxCount
      <4> QED
        BY <1>1, <4>1, <4>2, PutIntact, Zenon
    <3>2. CASE k < g
      <4>1. i \in 0..(TxqLen - 1)
        <5>1. k \in 0..TxqLen
          BY Constants
        <5> QED
          BY <2>3, <5>1, Constants, Ranges, Zenon
      <4>2. i # txq_tail
        <5>1. k # g
          BY <2>4, <3>2
        <5> QED
          BY <2>3, <2>4, <2>6, <5>1, Constants, SlotCounts
      <4>3. Intact(txq[i], i, Slot(TxFirst, k, Ids))
        BY <2>2, <3>2, Zenon DEF TxSlots
      <4>4. txq'[i] = txq[i] /\ txbuf'[i] = txbuf[i]
        BY <1>1, <4>1, <4>2, PutElsewhere, Zenon
      <4> HIDE DEF i
      <4> QED
        BY <4>3, <4>4, Zenon DEF Intact, i
    <3> HIDE DEF g
    <3>3. k = g \/ k < g
      BY <2>4
    <3> QED
      BY <3>1, <3>2, <3>3, Zenon
  <2> QED
    BY <1>1, <2>8, <2>9, <2>10, <2>11, Zenon DEF TxInv
<1> QED
  BY <1>2, <1>3

(* The doorbell tells the tail.                                            *)
LEMMA DoorbellTx ==
  ASSUME TxInv, Doorbell
  PROVE  TxInv'
<1>1. tx_tail' = txq_tail /\ UNCHANGED <<txq, txbuf, txq_tail, ntx, issued, done, overrun>>
  BY DEF Doorbell, txVars
<1>2. TxTypes'
  BY <1>1 DEF TxInv, TxTypes
<1>3. TxOrder => TxOrder'
  <2>1. /\ Gap(ntx.head, ntx.tail, TxqLen) \in Int /\ Gap(ntx.head, tx_tail, TxqLen) \in Int
        /\ Gap(ntx.head, txq_tail, TxqLen) \in Int
    <3>1. /\ ntx.head \in 0..(TxqLen - 1) /\ ntx.tail \in 0..(TxqLen - 1)
          /\ tx_tail \in 0..(TxqLen - 1) /\ txq_tail \in 0..(TxqLen - 1)
      BY NtxFields DEF TxInv, TxTypes
    <3> QED
      BY <3>1, Constants, SlotGap
  <2> QED
    BY <1>1, <2>1 DEF TxOrder
<1>4. TxFirst' = TxFirst
  BY <1>1, Zenon DEF TxFirst, InHand
<1>5. TxHand /\ TxSlots /\ TxCount => TxHand' /\ TxSlots' /\ TxCount'
  BY <1>1, <1>4, Zenon DEF TxHand, TxSlots, TxCount, InHand, Intact
<1> QED
  BY <1>1, <1>2, <1>3, <1>5, Zenon DEF TxInv

(* Reading the tail again.                                                 *)
LEMMA RefreshTx ==
  ASSUME TxInv, tx_refresh
  PROVE  TxInv'
<1>1. /\ UNCHANGED <<txq, txbuf, txq_tail, tx_tail, issued, done, overrun>>
      /\ ntx' = [ntx EXCEPT !.tail = tx_tail]
  BY DEF tx_refresh, NtxStep
<1>2. TxTypes /\ tx_tail \in 0..(TxqLen - 1)
  BY DEF TxInv, TxTypes
<1>3. /\ ntx'.head = ntx.head /\ ntx'.tail = tx_tail /\ ntx'.pc = ntx.pc
      /\ ntx'.idx = ntx.idx /\ ntx'.cmd = ntx.cmd
      /\ ntx' \in [head : 0..(TxqLen - 1), tail : 0..(TxqLen - 1),
                   pc : {"poll", "null", "process"}, idx : 0..(TxqLen - 1), cmd : Commands]
  BY <1>1, <1>2 DEF TxTypes
<1>4. TxTypes'
  BY <1>1, <1>2, <1>3, Zenon DEF TxTypes
<1>5. TxOrder => TxOrder'
  <2>1. Gap(ntx.head, tx_tail, TxqLen) \in Int
    BY <1>2, Constants, NtxFields, SlotGap
  <2>2. Gap(ntx.head, tx_tail, TxqLen) <= Gap(ntx.head, tx_tail, TxqLen)
    BY <2>1
  <2> QED
    BY <1>1, <1>3, <2>2, Zenon DEF TxOrder
<1>6. TxFirst' = TxFirst
  BY <1>1, <1>3, Zenon DEF TxFirst, InHand
<1>7. TxHand /\ TxSlots /\ TxCount => TxHand' /\ TxSlots' /\ TxCount'
  BY <1>1, <1>3, <1>6, Zenon DEF TxHand, TxSlots, TxCount, InHand, Intact
<1> QED
  BY <1>1, <1>4, <1>5, <1>7, Zenon DEF TxInv

(* Taking the slot at the head: the command in hand is the one that was    *)
(* first, and the one after it is first now.                               *)
LEMMA TakeTx ==
  ASSUME TxInv, tx_take
  PROVE  TxInv'
<1>1. /\ UNCHANGED <<txq, txbuf, txq_tail, tx_tail, issued, done, overrun>>
      /\ ntx.pc = "poll" /\ ntx.head # ntx.tail
      /\ ntx' = [ntx EXCEPT !.pc = "null", !.idx = ntx.head, !.cmd = txq[ntx.head],
                            !.head = Succ(@, TxqLen)]
  BY DEF tx_take, NtxStep
<1>2. /\ TxTypes /\ ntx.head \in 0..(TxqLen - 1) /\ ntx.tail \in 0..(TxqLen - 1)
      /\ tx_tail \in 0..(TxqLen - 1) /\ txq_tail \in 0..(TxqLen - 1)
      /\ done \in 0..(Ids - 1) /\ txq[ntx.head] \in Commands
  BY NtxFields DEF TxInv, TxTypes
<1> DEFINE h == Slot(ntx.head, 1, TxqLen)
<1>3. Succ(ntx.head, TxqLen) = h /\ h \in 0..(TxqLen - 1)
  BY <1>2, Constants, Ranges
<1>4. /\ ntx'.head = h /\ ntx'.tail = ntx.tail /\ ntx'.pc = "null"
      /\ ntx'.idx = ntx.head /\ ntx'.cmd = txq[ntx.head]
      /\ ntx' \in [head : 0..(TxqLen - 1), tail : 0..(TxqLen - 1),
                   pc : {"poll", "null", "process"}, idx : 0..(TxqLen - 1), cmd : Commands]
  BY <1>1, <1>2, <1>3 DEF TxTypes
<1>5. TxTypes'
  BY <1>1, <1>2, <1>4, Zenon DEF TxTypes
<1>6. CASE overrun
  BY <1>1, <1>5, <1>6, Zenon DEF TxInv
<1>7. CASE ~overrun
  <2>1. TxOrder /\ TxSlots /\ TxCount
    BY <1>7, Zenon DEF TxInv
  <2> DEFINE f(x) == Gap(ntx.head, x, TxqLen)
             g == Gap(ntx.head, txq_tail, TxqLen)
  <2>2. /\ f(ntx.tail) \in 0..(TxqLen - 1) /\ f(tx_tail) \in 0..(TxqLen - 1)
        /\ g \in 0..(TxqLen - 1)
    BY <1>2, Constants, Ranges
  <2>3. f(ntx.tail) <= f(tx_tail) /\ f(tx_tail) <= g
    BY <2>1 DEF TxOrder
  <2>4. f(ntx.tail) > 0 /\ Gap(h, ntx.tail, TxqLen) = f(ntx.tail) - 1
    BY <1>1, <1>2, Constants, GapGrows
  <2>5. Gap(ntx.head, ntx.head, TxqLen) = 0
    BY <1>2, Constants, GapGrows
  <2> HIDE DEF f, g
  <2>6. f(tx_tail) > 0 /\ g > 0
    BY <2>2, <2>3, <2>4
  <2>7. ntx.head # tx_tail /\ ntx.head # txq_tail
    BY <2>5, <2>6 DEF f, g
  <2>8. Gap(h, tx_tail, TxqLen) = f(tx_tail) - 1 /\ Gap(h, txq_tail, TxqLen) = g - 1
    BY <1>2, <2>7, Constants, GapGrows DEF f, g
  <2>9. TxOrder'
    <3>1. /\ f(ntx.tail) - 1 <= f(tx_tail) - 1 /\ f(tx_tail) - 1 <= g - 1
      BY <2>2, <2>3
    <3> QED
      BY <1>1, <1>4, <2>4, <2>8, <3>1, Zenon DEF TxOrder
  <2>10. TxFirst = done /\ TxFirst' = Slot(done, 1, Ids)
    BY <1>1, <1>4 DEF TxFirst, InHand
  <2>11. TxHand'
    <3>1. 0 \in 0..(TxqLen - 1) /\ 0 < g
      BY <2>6, Constants
    <3>2. Intact(txq[Slot(ntx.head, 0, TxqLen)], Slot(ntx.head, 0, TxqLen), Slot(done, 0, Ids))
      BY <2>1, <2>10, <3>1, Zenon DEF TxSlots, g
    <3>3. Slot(ntx.head, 0, TxqLen) = ntx.head /\ Slot(done, 0, Ids) = done
      BY <1>2, Constants, Ranges
    <3> QED
      BY <1>1, <1>4, <3>2, <3>3, Zenon DEF TxHand, Intact
  <2>12. TxCount'
    <3>1. issued = Slot(done, g, Ids)
      BY <2>1, <2>10, Zenon DEF TxCount, g
    <3>2. g - 1 \in 0..(Ids - 1) /\ (g - 1) + 1 = g
      BY <2>2, <2>6, Constants
    <3>3. Slot(Slot(done, 1, Ids), g - 1, Ids) = Slot(done, (g - 1) + 1, Ids)
      BY <1>2, <3>2, Constants, SlotCounts
    <3> QED
      BY <1>1, <1>4, <2>8, <2>10, <3>1, <3>2, <3>3, Zenon DEF TxCount
  <2>13. TxSlots'
    <3>0. /\ txq' = txq /\ txbuf' = txbuf /\ ntx'.head = h
          /\ Gap(ntx'.head, txq_tail', TxqLen) = g - 1
      BY <1>1, <1>4, <2>8, Zenon
    <3> SUFFICES ASSUME NEW k \in 0..(TxqLen - 1), k < g - 1
                 PROVE  Intact(txq[Slot(h, k, TxqLen)], Slot(h, k, TxqLen),
                               Slot(Slot(done, 1, Ids), k, Ids))
      BY <2>10, <3>0, Zenon DEF TxSlots, Intact
    <3>1. k + 1 \in 0..(TxqLen - 1) /\ k + 1 < g /\ k \in 0..(Ids - 1)
      BY <2>2, Constants
    <3>2. Intact(txq[Slot(ntx.head, k + 1, TxqLen)], Slot(ntx.head, k + 1, TxqLen),
                 Slot(done, k + 1, Ids))
      BY <2>1, <2>10, <3>1, Zenon DEF TxSlots, g
    <3>3. Slot(h, k, TxqLen) = Slot(ntx.head, k + 1, TxqLen)
      BY <1>2, Constants, SlotCounts
    <3>4. Slot(Slot(done, 1, Ids), k, Ids) = Slot(done, k + 1, Ids)
      BY <1>2, <3>1, Constants, SlotCounts
    <3> QED
      BY <3>2, <3>3, <3>4, Zenon
  <2> QED
    BY <1>5, <2>9, <2>11, <2>12, <2>13, Zenon DEF TxInv
<1> QED
  BY <1>6, <1>7

(* The null descriptor goes to the slot behind the head, which is none of  *)
(* those that hold commands.                                               *)
LEMMA NullTx ==
  ASSUME TxInv, tx_null
  PROVE  TxInv'
<1>1. /\ UNCHANGED <<txbuf, txq_tail, tx_tail, issued, done, overrun>>
      /\ ntx.pc = "null" /\ ntx' = [ntx EXCEPT !.pc = "process"]
      /\ txq' = [txq EXCEPT ![ntx.idx] = INVALID]
  BY DEF tx_null, NtxStep
<1>2. /\ TxTypes /\ ntx.head \in 0..(TxqLen - 1) /\ ntx.idx \in 0..(TxqLen - 1)
      /\ txq_tail \in 0..(TxqLen - 1) /\ done \in 0..(Ids - 1)
  BY NtxFields DEF TxInv, TxTypes
<1>3. /\ ntx'.head = ntx.head /\ ntx'.tail = ntx.tail /\ ntx'.pc = "process"
      /\ ntx'.idx = ntx.idx /\ ntx'.cmd = ntx.cmd
      /\ ntx' \in [head : 0..(TxqLen - 1), tail : 0..(TxqLen - 1),
                   pc : {"poll", "null", "process"}, idx : 0..(TxqLen - 1), cmd : Commands]
  BY <1>1, <1>2 DEF TxTypes
<1>4. txq' \in [0..(TxqLen - 1) -> Commands]
  BY <1>1, <1>2 DEF TxTypes, Commands
<1>5. TxTypes'
  BY <1>1, <1>2, <1>3, <1>4, Zenon DEF TxTypes
<1>6. InHand /\ InHand' /\ TxFirst' = TxFirst
  <2>1. InHand /\ InHand'
    BY <1>1, <1>3 DEF InHand
  <2> QED
    BY <1>1, <2>1, Zenon DEF TxFirst
<1>7. TxOrder /\ TxHand /\ TxCount => TxOrder' /\ TxHand' /\ TxCount'
  BY <1>1, <1>3, <1>6, Zenon DEF TxOrder, TxHand, TxCount, Intact
<1>8. TxHand /\ TxSlots => TxSlots'
  <2>0. txbuf' = txbuf /\ ntx'.head = ntx.head /\ txq_tail' = txq_tail /\ TxFirst' = TxFirst
    BY <1>1, <1>3, <1>6, Zenon
  <2> SUFFICES ASSUME TxHand, TxSlots, NEW k \in 0..(TxqLen - 1),
                      k < Gap(ntx.head, txq_tail, TxqLen)
               PROVE  Intact(txq[Slot(ntx.head, k, TxqLen)], Slot(ntx.head, k, TxqLen),
                             Slot(TxFirst, k, Ids))
                      => txq'[Slot(ntx.head, k, TxqLen)] = txq[Slot(ntx.head, k, TxqLen)]
    BY <2>0, Zenon DEF TxSlots, Intact
  <2> DEFINE i == Slot(ntx.head, k, TxqLen)
             p == Slot(ntx.idx, 1, TxqLen)
  <2>1. p = ntx.head
    BY <1>6, Zenon DEF TxHand
  <2>2. Gap(ntx.head, txq_tail, TxqLen) \in 0..(TxqLen - 1)
    BY <1>2, Constants, Ranges
  <2>3. k + 1 \in 0..(TxqLen - 1)
    BY <2>2, Constants
  <2>4. Slot(p, k, TxqLen) = Slot(ntx.idx, k + 1, TxqLen)
    BY <1>2, Constants, SlotCounts
  <2>5. Slot(ntx.idx, 0, TxqLen) = ntx.idx
    BY <1>2, Constants, Ranges
  <2>6. Slot(ntx.idx, k + 1, TxqLen) # Slot(ntx.idx, 0, TxqLen)
    <3>1. 0 \in 0..(TxqLen - 1) /\ k + 1 # 0
      BY Constants
    <3> QED
      BY <1>2, <2>3, <3>1, Constants, SlotCounts
  <2>7. i # ntx.idx
    BY <2>1, <2>4, <2>5, <2>6, Zenon
  <2>8. i \in 0..(TxqLen - 1)
    <3>1. k \in 0..TxqLen
      BY Constants
    <3> QED
      BY <1>2, <3>1, Constants, Ranges
  <2> HIDE DEF i
  <2>9. txq'[i] = txq[i]
    BY <1>1, <1>2, <2>7, <2>8 DEF TxTypes
  <2> QED
    BY <2>9 DEF i
<1> QED
  BY <1>1, <1>5, <1>7, <1>8, Zenon DEF TxInv

(* Processing the command in hand: it counts as done, and is no longer     *)
(* in hand.                                                                *)
LEMMA ProcessTx ==
  ASSUME TxInv, process_sptx_descriptor
  PROVE  TxInv'
<1>1. /\ UNCHANGED <<txq, txbuf, txq_tail, tx_tail, issued, overrun>>
      /\ ntx.pc = "process" /\ ntx' = [ntx EXCEPT !.pc = "poll", !.cmd = INVALID]
      /\ done' = IF ntx.cmd = INVALID THEN done ELSE NextId(done)
  BY DEF process_sptx_descriptor, NtxStep
<1>2. TxTypes /\ done \in 0..(Ids - 1)
  BY DEF TxInv, TxTypes
<1>3. /\ ntx'.head = ntx.head /\ ntx'.tail = ntx.tail /\ ntx'.pc = "poll"
      /\ ntx' \in [head : 0..(TxqLen - 1), tail : 0..(TxqLen - 1),
                   pc : {"poll", "null", "process"}, idx : 0..(TxqLen - 1), cmd : Commands]
  BY <1>1, <1>2 DEF TxTypes, Commands
<1>4. NextId(done) = Slot(done, 1, Ids) /\ Slot(done, 1, Ids) \in 0..(Ids - 1)
  <2>1. 1 \in 0..Ids
    BY Constants
  <2> QED
    BY <1>2, <2>1, Constants, Ranges, SlotMod DEF NextId
<1>5. done' \in 0..(Ids - 1)
  BY <1>1, <1>2, <1>4, Zenon
<1>6. TxTypes'
  BY <1>1, <1>2, <1>3, <1>5, Zenon DEF TxTypes
<1>7. InHand /\ ~InHand'
  BY <1>1, <1>3 DEF InHand
<1>8. TxHand => TxFirst' = TxFirst
  <2> SUFFICES ASSUME TxHand PROVE TxFirst' = TxFirst
    OBVIOUS
  <2>1. ntx.cmd # INVALID
    BY <1>7, Zenon DEF TxHand, Intact
  <2>2. done' = Slot(done, 1, Ids)
    BY <1>1, <1>4, <2>1, Zenon
  <2> QED
    BY <1>7, <2>2, Zenon DEF TxFirst
<1>9. TxOrder => TxOrder'
  BY <1>1, <1>3, Zenon DEF TxOrder
<1>10. TxHand'
  BY <1>7, Zenon DEF TxHand
<1>11. TxHand /\ TxSlots /\ TxCount => TxSlots' /\ TxCount'
  BY <1>1, <1>3, <1>8, Zenon DEF TxSlots, TxCount, Intact
<1> QED
  BY <1>1, <1>6, <1>9, <1>10, <1>11, Zenon DEF TxInv

(* The variables of the transmit ring.                                     *)
txRing == <<txq, txbuf, txq_tail, tx_tail, ntx, issued, done, overrun>>

LEMMA UnchangedTx ==
  ASSUME TxInv, UNCHANGED txRing
  PROVE  TxInv'
<1>1. UNCHANGED <<txq, txbuf, txq_tail, tx_tail, ntx, issued, done, overrun>>
  BY DEF txRing
<1>2. TxFirst' = TxFirst /\ (InHand' <=> InHand)
  BY <1>1, Zenon DEF TxFirst, InHand
<1>3. TxTypes'
  BY <1>1, Zenon DEF TxInv, TxTypes
<1>4. TxOrder /\ TxHand /\ TxSlots /\ TxCount => TxOrder' /\ TxHand' /\ TxSlots' /\ TxCount'
  BY <1>1, <1>2, Zenon DEF TxOrder, TxHand, TxSlots, TxCount, Intact
<1> QED
  BY <1>1, <1>3, <1>4, Zenon DEF TxInv

(* A step of the slow path that tries to queue a command.                  *)
LEMMA TryPutTx ==
  ASSUME TxInv, NEW type \in Types, NEW c \in Conns \cup {NULL},
         UNCHANGED txVars \/ TryPut(type, c), UNCHANGED <<tx_tail, ntx, done>>
  PROVE  TxInv'
<1>1. CASE UNCHANGED txVars
  <2>1. UNCHANGED txRing
    BY <1>1 DEF txVars, txRing
  <2> QED
    BY <2>1, UnchangedTx
<1>2. CASE Put(type, c)
  BY <1>2, PutTx
<1> QED
  BY <1>1, <1>2 DEF TryPut

-----------------------------------------------------------------------------
(* The receive ring.                                                       *)

LEMMA NrxFields ==
  ASSUME RxTypes
  PROVE  /\ nrx.tail \in 0..(RxqLen - 1) /\ nrx.head \in 0..(RxqLen - 1)
         /\ nrx.idx \in 0..(RxqLen - 1) /\ nrx.taken \in Nat /\ nrx.pc \in {"poll", "desc"}
         /\ rxq_head \in 0..(RxqLen - 1) /\ rx_head \in 0..(RxqLen - 1)
         /\ RxFirst \in Nat
         /\ RxGap \in 0..(RxqLen - 1)
         /\ Gap(rx_head, nrx.tail, RxqLen) \in Int /\ Gap(nrx.head, nrx.tail, RxqLen) \in Int
<1>1. /\ nrx.tail \in 0..(RxqLen - 1) /\ nrx.head \in 0..(RxqLen - 1)
      /\ nrx.idx \in 0..(RxqLen - 1) /\ nrx.taken \in Nat /\ nrx.pc \in {"poll", "desc"}
      /\ rxq_head \in 0..(RxqLen - 1) /\ rx_head \in 0..(RxqLen - 1)
  BY DEF RxTypes
<1>2. RxFirst \in Nat
  BY DEF RxTypes, RxFirst
<1>3. RxGap \in 0..(RxqLen - 1)
  BY <1>1, Constants, Ranges DEF RxGap
<1>4. Gap(rx_head, nrx.tail, RxqLen) \in Int /\ Gap(nrx.head, nrx.tail, RxqLen) \in Int
  BY <1>1, Constants, SlotGap
<1> QED
  BY <1>1, <1>2, <1>3, <1>4

(* The variables of the receive ring, as they come into RxInv.             *)
rxRing == <<rxq, rxbuf, rxq_head, rx_head, nrx, served>>

(* A step that leaves the ring alone, and the packet that is processed.    *)
LEMMA UnchangedRx ==
  ASSUME RxInv, UNCHANGED rxRing, phase' = "release" <=> phase = "release"
  PROVE  RxInv'
<1>1. /\ rxq' = rxq /\ rxbuf' = rxbuf /\ rxq_head' = rxq_head /\ rx_head' = rx_head
      /\ nrx' = nrx /\ served' = served
  BY DEF rxRing
<1>2. RxFirst' = RxFirst /\ RxGap' = RxGap
  BY <1>1, Zenon DEF RxFirst, RxGap
<1>3. RxTypes'
  BY <1>1, Zenon DEF RxInv, RxTypes
<1>4. RxOrder' /\ RxHand' /\ RxBusy'
  BY <1>1, <1>2, Zenon DEF RxInv, RxOrder, RxHand, RxBusy
<1>5. RxSlots' /\ nrx'.taken = (RxFirst' + RxGap') - 1
  BY <1>1, <1>2, Zenon DEF RxInv, RxSlots
<1> QED
  BY <1>3, <1>4, <1>5, Zenon DEF RxInv

(* A packet is processed: the one at the head, and it is there.            *)
LEMMA ProcessRx ==
  ASSUME RxInv, process_packet
  PROVE  RxInv'
<1>1. /\ rxq' = rxq /\ rxbuf' = rxbuf /\ rxq_head' = rxq_head /\ rx_head' = rx_head
      /\ nrx' = nrx /\ served' = served + 1
      /\ phase = "nicif" /\ phase' = "release" /\ rxq[rxq_head] # 0
  BY DEF process_packet, Idle
<1>2. RxTypes /\ rxq_head \in 0..(RxqLen - 1)
  BY DEF RxInv, RxTypes
<1>3. RxFirst' = RxFirst /\ RxGap' = RxGap
  <2>1. RxFirst = served + 1 /\ RxFirst' = served'
    BY <1>1 DEF RxFirst
  <2> QED
    BY <1>1, <2>1, Zenon DEF RxGap
<1>4. RxTypes'
  <2>1. served' \in Nat
    BY <1>1, <1>2 DEF RxTypes
  <2> QED
    BY <1>1, <1>2, <2>1, Zenon DEF RxTypes
<1>5. RxOrder' /\ RxHand'
  BY <1>1, <1>3, Zenon DEF RxInv, RxOrder, RxHand
<1>6. RxBusy'
  <2>1. 0 \in 0..(RxqLen - 1) /\ Slot(rxq_head, 0, RxqLen) = rxq_head
    BY <1>2, Constants, Ranges
  <2>2. 0 < RxGap /\ ~(nrx.pc = "desc" /\ rxq_head = nrx.idx)
    BY <1>1, <2>1, Zenon DEF RxInv, RxSlots
  <2>3. RxGap > 0
    BY <1>2, <2>2, NrxFields
  <2> QED
    BY <1>1, <1>3, <2>2, <2>3, Zenon DEF RxBusy
<1>7. RxSlots' /\ nrx'.taken = (RxFirst' + RxGap') - 1
  BY <1>1, <1>3, Zenon DEF RxInv, RxSlots
<1> QED
  BY <1>4, <1>5, <1>6, <1>7, Zenon DEF RxInv

(* Its descriptor is invalidated and the head moves on: every other slot   *)
(* comes one nearer, and this one is the last.                             *)
LEMMA InvalidateRx ==
  ASSUME RxInv, rxq_invalidate
  PROVE  RxInv'
<1>1. /\ rxq' = [rxq EXCEPT ![rxq_head] = 0] /\ rxbuf' = rxbuf
      /\ rxq_head' = Succ(rxq_head, RxqLen) /\ rx_head' = rx_head
      /\ nrx' = nrx /\ served' = served
      /\ phase = "release" /\ phase' = "rx_bell"
  BY DEF rxq_invalidate, Idle
<1>2. /\ RxTypes /\ rxq_head \in 0..(RxqLen - 1) /\ nrx.tail \in 0..(RxqLen - 1)
      /\ rx_head \in 0..(RxqLen - 1) /\ nrx.idx \in 0..(RxqLen - 1)
      /\ RxGap \in 0..(RxqLen - 1) /\ RxFirst \in Nat
      /\ Gap(rx_head, nrx.tail, RxqLen) \in Int
  BY NrxFields DEF RxInv
<1> DEFINE h == Slot(rxq_head, 1, RxqLen)
<1>3. rxq_head' = h /\ h \in 0..(RxqLen - 1)
  BY <1>1, <1>2, Constants, Ranges
<1>4. RxGap > 0 /\ ~(nrx.pc = "desc" /\ rxq_head = nrx.idx)
  BY <1>1, Zenon DEF RxInv, RxBusy
<1>5. rxq_head # nrx.tail
  BY <1>2, <1>4, Constants, GapGrows DEF RxGap
<1>6. RxGap' = RxGap - 1
  BY <1>1, <1>2, <1>3, <1>5, Constants, GapGrows DEF RxGap
<1>7. RxFirst' = RxFirst + 1
  BY <1>1 DEF RxFirst
<1>8. RxTypes'
  <2>1. rxq' \in [0..(RxqLen - 1) -> Nat]
    BY <1>1, <1>2 DEF RxTypes
  <2> QED
    BY <1>1, <1>2, <1>3, <2>1, Zenon DEF RxTypes
<1>9. RxOrder'
  <2>1. /\ Gap(rx_head, nrx.tail, RxqLen) <= Gap(nrx.head, nrx.tail, RxqLen)
        /\ RxGap <= Gap(rx_head, nrx.tail, RxqLen)
    BY DEF RxInv, RxOrder
  <2>2. RxGap - 1 <= Gap(rx_head, nrx.tail, RxqLen)
    BY <1>2, <2>1
  <2> QED
    BY <1>1, <1>6, <2>1, <2>2, Zenon DEF RxOrder
<1>10. RxHand'
  <2> SUFFICES ASSUME nrx.pc = "desc"
               PROVE  Slot(nrx.idx, 1, RxqLen) = nrx.tail /\ RxGap - 1 > 0
    BY <1>1, <1>6, Zenon DEF RxHand
  <2>1. Slot(nrx.idx, 1, RxqLen) = nrx.tail
    BY DEF RxInv, RxHand
  <2>2. rxq_head # nrx.idx
    BY <1>4
  <2>3. RxGap # 1
    BY <1>2, <2>1, <2>2, Constants DEF RxGap, Gap, Slot
  <2> QED
    BY <1>2, <1>4, <2>1, <2>3
<1>11. RxBusy'
  BY <1>1 DEF RxBusy
<1>12. nrx'.taken = (RxFirst' + RxGap') - 1
  <2>1. nrx.taken = (RxFirst + RxGap) - 1
    BY DEF RxInv
  <2>2. (RxFirst + RxGap) - 1 = ((RxFirst + 1) + (RxGap - 1)) - 1
    BY <1>2
  <2> QED
    BY <1>1, <1>6, <1>7, <2>1, <2>2, Zenon
<1>13. RxSlots'
  <2> SUFFICES ASSUME NEW k \in 0..(RxqLen - 1)
               PROVE  LET i == Slot(h, k, RxqLen)
                          arrived == k < RxGap - 1 /\ ~(nrx.pc = "desc" /\ i = nrx.idx) IN
                      /\ k < RxGap - 1 => rxbuf[i] = (RxFirst + 1) + k
                      /\ rxq'[i] = IF arrived THEN (RxFirst + 1) + k ELSE 0
    BY <1>1, <1>3, <1>6, <1>7, Zenon DEF RxSlots
  <2> DEFINE i == Slot(h, k, RxqLen)
  <2>1. i = Slot(rxq_head, k + 1, RxqLen)
    BY <1>2, Constants, SlotCounts
  <2>2. CASE k = RxqLen - 1
    <3>1. i = rxq_head
      BY <1>2, <2>1, <2>2, Constants, SlotCounts
    <3>2. ~(k < RxGap - 1)
      BY <1>2, <2>2
    <3>3. rxq'[rxq_head] = 0
      BY <1>1, <1>2 DEF RxTypes
    <3> QED
      BY <3>1, <3>2, <3>3, Zenon
  <2>3. CASE k # RxqLen - 1
    <3>1. k + 1 \in 0..(RxqLen - 1) /\ 0 \in 0..(RxqLen - 1) /\ k + 1 # 0
      BY <2>3, Constants
    <3>2. Slot(rxq_head, 0, RxqLen) = rxq_head
      BY <1>2, Constants, Ranges
    <3>3. Slot(rxq_head, k + 1, RxqLen) # Slot(rxq_head, 0, RxqLen)
      BY <1>2, <3>1, Constants, SlotCounts
    <3>4. i # rxq_head /\ i \in 0..(RxqLen - 1)
      <4>1. k + 1 \in 0..RxqLen
        BY <3>1, Constants
      <4> QED
        BY <1>2, <2>1, <3>2, <3>3, <4>1, Constants, Ranges
    <3> HIDE DEF i
    <3>5. rxq'[i] = rxq[i]
      BY <1>1, <1>2, <3>4 DEF RxTypes
    <3>6. LET arrived == k + 1 < RxGap /\ ~(nrx.pc = "desc" /\ i = nrx.idx) IN
          /\ k + 1 < RxGap => rxbuf[i] = RxFirst + (k + 1)
          /\ rxq[i] = IF arrived THEN RxFirst + (k + 1) ELSE 0
      BY <2>1, <3>1, Zenon DEF RxInv, RxSlots
    <3>7. (k + 1 < RxGap <=> k < RxGap - 1) /\ RxFirst + (k + 1) = (RxFirst + 1) + k
      BY <1>2
    <3> QED
      BY <3>5, <3>6, <3>7, Zenon DEF i
  <2> QED
    BY <2>2, <2>3, Zenon
<1> QED
  BY <1>8, <1>9, <1>10, <1>11, <1>12, <1>13, Zenon DEF RxInv

(* The NIC is told of the head.                                            *)
LEMMA ReleaseRx ==
  ASSUME RxInv, rxq_release
  PROVE  RxInv'
<1>1. /\ rxq' = rxq /\ rxbuf' = rxbuf /\ rxq_head' = rxq_head /\ rx_head' = rxq_head
      /\ nrx' = nrx /\ served' = served /\ phase = "rx_bell" /\ phase' = "nicif"
  BY DEF rxq_release, Idle
<1>2. /\ RxTypes /\ rxq_head \in 0..(RxqLen - 1) /\ RxGap \in Int
      /\ Gap(rx_head, nrx.tail, RxqLen) \in Int /\ Gap(nrx.head, nrx.tail, RxqLen) \in Int
  BY NrxFields DEF RxInv
<1>3. RxFirst' = RxFirst /\ RxGap' = RxGap
  BY <1>1 DEF RxFirst, RxGap
<1>4. RxTypes'
  BY <1>1, <1>2, Zenon DEF RxTypes
<1>5. RxOrder'
  <2>1. /\ Gap(rx_head, nrx.tail, RxqLen) <= Gap(nrx.head, nrx.tail, RxqLen)
        /\ RxGap <= Gap(rx_head, nrx.tail, RxqLen)
    BY DEF RxInv, RxOrder
  <2>2. RxGap <= Gap(nrx.head, nrx.tail, RxqLen) /\ RxGap <= RxGap
    BY <1>2, <2>1
  <2>3. Gap(rx_head', nrx'.tail, RxqLen) = RxGap
    BY <1>1, Zenon DEF RxGap
  <2> QED
    BY <1>1, <1>3, <2>2, <2>3, Zenon DEF RxOrder
<1>6. RxHand' /\ RxBusy'
  <2>1. phase' # "release"
    BY <1>1
  <2> QED
    BY <1>1, <1>3, <2>1, Zenon DEF RxInv, RxHand, RxBusy
<1>7. RxSlots' /\ nrx'.taken = (RxFirst' + RxGap') - 1
  BY <1>1, <1>3, Zenon DEF RxInv, RxSlots
<1> QED
  BY <1>4, <1>5, <1>6, <1>7, Zenon DEF RxInv

(* The NIC reads the head again.                                           *)
LEMMA RefreshRx ==
  ASSUME RxInv, rx_refresh
  PROVE  RxInv'
<1>1. /\ rxq' = rxq /\ rxbuf' = rxbuf /\ rxq_head' = rxq_head /\ rx_head' = rx_head
      /\ nrx' = [nrx EXCEPT !.head = rx_head] /\ served' = served /\ phase' = phase
  BY DEF rx_refresh, NrxStep
<1>2. /\ RxTypes /\ rx_head \in 0..(RxqLen - 1) /\ Gap(rx_head, nrx.tail, RxqLen) \in Int
  BY NrxFields DEF RxInv
<1>3. /\ nrx'.tail = nrx.tail /\ nrx'.head = rx_head /\ nrx'.pc = nrx.pc
      /\ nrx'.idx = nrx.idx /\ nrx'.taken = nrx.taken
      /\ nrx' \in [tail : 0..(RxqLen - 1), head : 0..(RxqLen - 1), pc : {"poll", "desc"},
                   idx : 0..(RxqLen - 1), taken : Nat]
  BY <1>1, <1>2 DEF RxTypes
<1>4. RxFirst' = RxFirst /\ RxGap' = RxGap
  BY <1>1, <1>3, Zenon DEF RxFirst, RxGap
<1>5. RxTypes'
  BY <1>1, <1>2, <1>3, Zenon DEF RxTypes
<1>6. RxOrder'
  <2>1. Gap(rx_head, nrx.tail, RxqLen) <= Gap(rx_head, nrx.tail, RxqLen)
    BY <1>2
  <2> QED
    BY <1>1, <1>3, <1>4, <2>1, Zenon DEF RxInv, RxOrder
<1>7. RxHand' /\ RxBusy'
  BY <1>1, <1>3, <1>4, Zenon DEF RxInv, RxHand, RxBusy
<1>8. RxSlots' /\ nrx'.taken = (RxFirst' + RxGap') - 1
  BY <1>1, <1>3, <1>4, Zenon DEF RxInv, RxSlots
<1> QED
  BY <1>5, <1>6, <1>7, <1>8, Zenon DEF RxInv

(* The packet goes to the slot at the tail, which rxq_poll has left: by    *)
(* the head the NIC knows, and so by the head there is, it is not the last *)
(* free one.                                                               *)
LEMMA PayloadRx ==
  ASSUME RxInv, rx_payload
  PROVE  RxInv'
<1>1. /\ rxq' = rxq /\ rxbuf' = [rxbuf EXCEPT ![nrx.tail] = nrx.taken + 1]
      /\ rxq_head' = rxq_head /\ rx_head' = rx_head /\ served' = served /\ phase' = phase
      /\ nrx.pc = "poll" /\ Room
      /\ nrx' = [nrx EXCEPT !.pc = "desc", !.idx = nrx.tail, !.taken = @ + 1,
                            !.tail = Succ(@, RxqLen)]
  BY DEF rx_payload, NrxStep
<1>2. /\ RxTypes /\ nrx.tail \in 0..(RxqLen - 1) /\ nrx.head \in 0..(RxqLen - 1)
      /\ nrx.taken \in Nat /\ rxq_head \in 0..(RxqLen - 1) /\ rx_head \in 0..(RxqLen - 1)
      /\ RxFirst \in Nat /\ RxGap \in 0..(RxqLen - 1)
      /\ Gap(rx_head, nrx.tail, RxqLen) \in Int /\ Gap(nrx.head, nrx.tail, RxqLen) \in Int
  BY NrxFields DEF RxInv
<1> DEFINE t == Slot(nrx.tail, 1, RxqLen)
<1>3. Succ(nrx.tail, RxqLen) = t /\ t \in 0..(RxqLen - 1)
  BY <1>2, Constants, Ranges
<1>0. nrx.taken + 1 \in Nat
  BY <1>2
<1>4. /\ nrx'.tail = t /\ nrx'.head = nrx.head /\ nrx'.pc = "desc"
      /\ nrx'.idx = nrx.tail /\ nrx'.taken = nrx.taken + 1
      /\ nrx' \in [tail : 0..(RxqLen - 1), head : 0..(RxqLen - 1), pc : {"poll", "desc"},
                   idx : 0..(RxqLen - 1), taken : Nat]
  BY <1>0, <1>1, <1>2, <1>3 DEF RxTypes
<1>5. /\ Gap(rx_head, nrx.tail, RxqLen) <= Gap(nrx.head, nrx.tail, RxqLen)
      /\ RxGap <= Gap(rx_head, nrx.tail, RxqLen)
  BY DEF RxInv, RxOrder
<1>6. t # nrx.head
  BY <1>1, <1>3, Zenon DEF Room
<1>7. Gap(nrx.head, nrx.tail, RxqLen) # RxqLen - 1 /\ Gap(nrx.head, nrx.tail, RxqLen) < RxqLen
  BY <1>2, <1>6, Constants DEF Gap, Slot
<1> DEFINE g == Gap(rx_head, nrx.tail, RxqLen)
           c == Gap(nrx.head, nrx.tail, RxqLen)
<1> HIDE DEF g, c
<1>8. g < RxqLen - 1 /\ RxGap < RxqLen - 1
  BY <1>2, <1>5, <1>7, Constants DEF g, c
<1>9. t # rx_head /\ t # rxq_head
  <2>1. /\ t = rx_head => g = RxqLen - 1
        /\ t = rxq_head => RxGap = RxqLen - 1
    BY <1>2, Constants, GapGrows DEF g, RxGap
  <2> QED
    BY <1>2, <1>8, <2>1, Constants DEF g
<1>10. /\ Gap(rx_head, t, RxqLen) = g + 1 /\ Gap(nrx.head, t, RxqLen) = c + 1
       /\ Gap(rxq_head, t, RxqLen) = RxGap + 1
  BY <1>2, <1>6, <1>9, Constants, GapGrows DEF g, c, RxGap
<1>11. RxGap' = RxGap + 1 /\ RxFirst' = RxFirst
  BY <1>1, <1>4, <1>10, Zenon DEF RxGap, RxFirst
<1>12. RxTypes'
  <2>1. rxbuf' \in [0..(RxqLen - 1) -> Nat]
    BY <1>0, <1>1, <1>2 DEF RxTypes
  <2> QED
    BY <1>1, <1>2, <1>4, <2>1, Zenon DEF RxTypes
<1>13. RxOrder'
  <2>1. g + 1 <= c + 1 /\ RxGap + 1 <= g + 1
    BY <1>2, <1>5 DEF g, c
  <2> QED
    BY <1>1, <1>4, <1>10, <1>11, <2>1, Zenon DEF RxOrder
<1>14. RxGap + 1 > 0
  BY <1>2
<1>15. RxHand'
  BY <1>4, <1>11, <1>14, Zenon DEF RxHand
<1>16. RxBusy'
  <2> SUFFICES ASSUME phase = "release" PROVE rxq_head # nrx.tail
    BY <1>1, <1>4, <1>11, <1>14, Zenon DEF RxBusy
  <2>1. RxGap > 0
    BY DEF RxInv, RxBusy
  <2> QED
    BY <1>2, <2>1, Constants, GapGrows DEF RxGap
<1>17. nrx'.taken = (RxFirst' + RxGap') - 1
  <2>1. nrx.taken = (RxFirst + RxGap) - 1
    BY DEF RxInv
  <2>2. ((RxFirst + RxGap) - 1) + 1 = (RxFirst + (RxGap + 1)) - 1
    BY <1>2
  <2> QED
    BY <1>4, <1>11, <2>1, <2>2, Zenon
<1>18. RxSlots'
  <2> SUFFICES ASSUME NEW k \in 0..(RxqLen - 1)
               PROVE  LET i == Slot(rxq_head, k, RxqLen)
                          arrived == k < RxGap + 1 /\ ~(i = nrx.tail) IN
                      /\ k < RxGap + 1 => rxbuf'[i] = RxFirst + k
                      /\ rxq[i] = IF arrived THEN RxFirst + k ELSE 0
    BY <1>1, <1>4, <1>11, Zenon DEF RxSlots
  <2> DEFINE i == Slot(rxq_head, k, RxqLen)
  <2>1. Slot(rxq_head, RxGap, RxqLen) = nrx.tail
    BY <1>2, Constants, SlotGap DEF RxGap
  <2>2. /\ k < RxGap => rxbuf[i] = RxFirst + k
        /\ rxq[i] = IF k < RxGap THEN RxFirst + k ELSE 0
    <3>1. ~(nrx.pc = "desc")
      BY <1>1
    <3> QED
      BY <3>1, Zenon DEF RxInv, RxSlots
  <2>3. i \in 0..(RxqLen - 1)
    <3>1. k \in 0..RxqLen
      BY Constants
    <3> QED
      BY <1>2, <3>1, Constants, Ranges
  <2>4. CASE k = RxGap
    <3>1. i = nrx.tail
      BY <2>1, <2>4, Zenon
    <3>2. rxbuf'[nrx.tail] = nrx.taken + 1
      BY <1>1, <1>2 DEF RxTypes
    <3>3. nrx.taken + 1 = RxFirst + RxGap
      BY <1>2 DEF RxInv
    <3>4. ~(k < RxGap)
      BY <1>2, <2>4
    <3>5. rxq[i] = 0
      BY <2>2, <3>4, Zenon
    <3> QED
      BY <2>4, <3>1, <3>2, <3>3, <3>5, Zenon
  <2>5. CASE k # RxGap
    <3>1. i # nrx.tail
      BY <1>2, <2>1, <2>5, Constants, SlotCounts
    <3>2. k < RxGap + 1 <=> k < RxGap
      BY <1>2, <2>5
    <3> HIDE DEF i
    <3>3. rxbuf'[i] = rxbuf[i]
      BY <1>1, <1>2, <2>3, <3>1 DEF RxTypes
    <3> QED
      BY <2>2, <3>1, <3>2, <3>3, Zenon DEF i
  <2> QED
    BY <2>4, <2>5, Zenon
<1> QED
  BY <1>12, <1>13, <1>15, <1>16, <1>17, <1>18, Zenon DEF RxInv

(* Its descriptor follows: the packet has arrived.                          *)
LEMMA DescRx ==
  ASSUME RxInv, rx_desc
  PROVE  RxInv'
<1>1. /\ rxq' = [rxq EXCEPT ![nrx.idx] = nrx.taken] /\ rxbuf' = rxbuf
      /\ rxq_head' = rxq_head /\ rx_head' = rx_head /\ served' = served /\ phase' = phase
      /\ nrx.pc = "desc" /\ nrx' = [nrx EXCEPT !.pc = "poll"]
  BY DEF rx_desc, NrxStep
<1>2. /\ RxTypes /\ nrx.tail \in 0..(RxqLen - 1) /\ nrx.idx \in 0..(RxqLen - 1)
      /\ nrx.taken \in Nat /\ rxq_head \in 0..(RxqLen - 1)
      /\ RxFirst \in Nat /\ RxGap \in 0..(RxqLen - 1)
  BY NrxFields DEF RxInv
<1>3. /\ nrx'.tail = nrx.tail /\ nrx'.head = nrx.head /\ nrx'.pc = "poll"
      /\ nrx'.idx = nrx.idx /\ nrx'.taken = nrx.taken
      /\ nrx' \in [tail : 0..(RxqLen - 1), head : 0..(RxqLen - 1), pc : {"poll", "desc"},
                   idx : 0..(RxqLen - 1), taken : Nat]
  BY <1>1, <1>2 DEF RxTypes
<1>4. RxFirst' = RxFirst /\ RxGap' = RxGap
  BY <1>1, <1>3, Zenon DEF RxFirst, RxGap
<1>5. RxTypes'
  <2>1. rxq' \in [0..(RxqLen - 1) -> Nat]
    BY <1>1, <1>2 DEF RxTypes
  <2> QED
    BY <1>1, <1>2, <1>3, <2>1, Zenon DEF RxTypes
<1>6. RxOrder'
  BY <1>1, <1>3, <1>4, Zenon DEF RxInv, RxOrder
<1>7. ~(nrx'.pc = "desc")
  BY <1>3
<1>8. RxHand' /\ RxBusy'
  BY <1>1, <1>4, <1>7, Zenon DEF RxInv, RxHand, RxBusy
<1>9. nrx'.taken = (RxFirst' + RxGap') - 1
  BY <1>3, <1>4, Zenon DEF RxInv
<1>10. RxSlots'
  <2> SUFFICES ASSUME NEW k \in 0..(RxqLen - 1)
               PROVE  LET i == Slot(rxq_head, k, RxqLen) IN
                      /\ k < RxGap => rxbuf[i] = RxFirst + k
                      /\ rxq'[i] = IF k < RxGap THEN RxFirst + k ELSE 0
    BY <1>1, <1>4, <1>7, Zenon DEF RxSlots
  <2> DEFINE i == Slot(rxq_head, k, RxqLen)
  <2>1. /\ k < RxGap => rxbuf[i] = RxFirst + k
        /\ rxq[i] = IF k < RxGap /\ ~(nrx.pc = "desc" /\ i = nrx.idx) THEN RxFirst + k ELSE 0
    BY Zenon DEF RxInv, RxSlots
  <2>2. Slot(nrx.idx, 1, RxqLen) = nrx.tail /\ RxGap > 0
    BY <1>1, Zenon DEF RxInv, RxHand
  <2>3. RxGap - 1 \in 0..(RxqLen - 1) /\ RxGap - 1 < RxGap
    BY <1>2, <2>2, Constants
  <2>4. Slot(rxq_head, RxGap - 1, RxqLen) = nrx.idx
    BY <1>2, <2>2, Constants DEF RxGap, Gap, Slot
  <2>5. i \in 0..(RxqLen - 1)
    <3>1. k \in 0..RxqLen
      BY Constants
    <3> QED
      BY <1>2, <3>1, Constants, Ranges
  <2>6. CASE k = RxGap - 1
    <3>1. i = nrx.idx
      BY <2>4, <2>6, Zenon
    <3>2. rxq'[nrx.idx] = nrx.taken
      BY <1>1, <1>2 DEF RxTypes
    <3>3. nrx.taken = RxFirst + k /\ k < RxGap
      BY <1>2, <2>3, <2>6 DEF RxInv
    <3> QED
      BY <2>1, <3>1, <3>2, <3>3, Zenon
  <2>7. CASE k # RxGap - 1
    <3>1. i # nrx.idx
      BY <1>2, <2>3, <2>4, <2>7, Constants, SlotCounts
    <3> HIDE DEF i
    <3>2. rxq'[i] = rxq[i]
      BY <1>1, <1>2, <2>5, <3>1 DEF RxTypes
    <3> QED
      BY <2>1, <3>1, <3>2, Zenon DEF i
  <2> QED
    BY <2>6, <2>7, Zenon
<1> QED
  BY <1>5, <1>6, <1>8, <1>9, <1>10, Zenon DEF RxInv

-----------------------------------------------------------------------------
(* Both rings together.                                                    *)

LEMMA InitSlowPath == Init => SlowPathInv
<1> SUFFICES ASSUME Init PROVE SlowPathInv
  OBVIOUS
<1>1. TxTypes
  <2>1. INVALID \in Commands
    BY DEF Commands
  <2>2. 0 \in 0..(TxqLen - 1) /\ 0 \in 0..(Ids - 1) /\ Ids \in Nat
    BY Constants
  <2>3. ntx \in [head : 0..(TxqLen - 1), tail : 0..(TxqLen - 1),
                 pc : {"poll", "null", "process"}, idx : 0..(TxqLen - 1), cmd : Commands]
    BY <2>1, <2>2 DEF Init
  <2>4. txq \in [0..(TxqLen - 1) -> Commands] /\ txbuf \in [0..(TxqLen - 1) -> Nat]
    BY <2>1, <2>2 DEF Init
  <2>5. overrun \in BOOLEAN
    BY Zenon DEF Init
  <2> QED
    BY <2>2, <2>3, <2>4, <2>5, Zenon DEF Init, TxTypes
<1>2. /\ ntx.head = 0 /\ ntx.tail = 0 /\ tx_tail = 0 /\ txq_tail = 0 /\ ~InHand
      /\ issued = 0 /\ done = 0 /\ TxFirst = 0
  BY DEF Init, InHand, TxFirst
<1>3. Gap(0, 0, TxqLen) = 0 /\ Slot(0, 0, Ids) = 0 /\ Gap(0, 0, RxqLen) = 0
  BY Constants DEF Gap, Slot
<1>4. TxOrder /\ TxHand /\ TxSlots /\ TxCount
  <2>1. TxOrder
    BY <1>2, <1>3 DEF TxOrder
  <2>2. \A k \in 0..(TxqLen - 1) : ~(k < 0)
    BY Constants
  <2> QED
    BY <1>2, <1>3, <2>1, <2>2, Zenon DEF TxHand, TxSlots, TxCount
<1>5. RxTypes
  BY Constants DEF Init, RxTypes
<1>6. /\ nrx.head = 0 /\ nrx.tail = 0 /\ rx_head = 0 /\ rxq_head = 0 /\ nrx.taken = 0
      /\ nrx.pc = "poll" /\ phase = "nicif" /\ served = 0
      /\ rxq = [i \in 0..(RxqLen - 1) |-> 0]
  BY DEF Init
<1>7. RxGap = 0 /\ RxFirst = 1
  BY <1>3, <1>6 DEF RxGap, RxFirst
<1>8. RxOrder /\ RxHand /\ RxBusy /\ nrx.taken = (RxFirst + RxGap) - 1
  BY <1>3, <1>6, <1>7 DEF RxOrder, RxHand, RxBusy
<1>9. RxSlots
  <2> SUFFICES ASSUME NEW k \in 0..(RxqLen - 1)
               PROVE  ~(k < RxGap) /\ rxq[Slot(rxq_head, k, RxqLen)] = 0
    BY Zenon DEF RxSlots
  <2>1. Slot(0, k, RxqLen) = k
    BY Constants DEF Slot
  <2> QED
    BY <1>6, <1>7, <2>1
<1> QED
  BY <1>1, <1>4, <1>5, <1>8, <1>9, Zenon DEF SlowPathInv, TxInv, RxInv

(* The steps of the slow path.  Those that may queue a command do it with  *)
(* TryPut; only rxq_poll touches the receive ring.                         *)
LEMMA HostStep ==
  ASSUME SlowPathInv, Host
  PROVE  SlowPathInv'
<1> USE DEF SlowPathInv
<1>1. CASE Doorbell
  <2>1. UNCHANGED rxRing /\ phase' = phase
    BY <1>1 DEF Doorbell, rxVars, rxRing
  <2> QED
    BY <1>1, <2>1, DoorbellTx, UnchangedRx, Zenon
<1>2. CASE process_packet
  <2>1. (UNCHANGED txVars \/ TryPut("PACKET", NULL)) /\ UNCHANGED <<tx_tail, ntx, done>>
    BY <1>2 DEF process_packet
  <2> QED
    BY <1>2, <2>1, TryPutTx, ProcessRx DEF Types
<1>3. CASE rxq_invalidate
  <2>1. UNCHANGED txRing
    BY <1>3 DEF rxq_invalidate, txVars, txRing
  <2> QED
    BY <1>3, <2>1, UnchangedTx, InvalidateRx
<1>4. CASE rxq_release
  <2>1. UNCHANGED txRing
    BY <1>4 DEF rxq_release, txVars, txRing
  <2> QED
    BY <1>4, <2>1, UnchangedTx, ReleaseRx
<1>5. CASE cc_poll_start
  <2>1. UNCHANGED txRing /\ UNCHANGED rxRing
    BY <1>5 DEF cc_poll_start, txVars, txRing, rxVars, rxRing
  <2>2. phase # "release" /\ phase' # "release"
    BY <1>5 DEF cc_poll_start, Idle
  <2> QED
    BY <2>1, <2>2, UnchangedTx, UnchangedRx, Zenon
<1>6. CASE cc_poll_skip
  <2>1. UNCHANGED txRing /\ UNCHANGED rxRing
    BY <1>6 DEF cc_poll_skip, cc_poll_next, txVars, txRing, rxVars, rxRing
  <2>2. phase # "release" /\ phase' # "release"
    BY <1>6 DEF cc_poll_skip, cc_poll_next, Idle
  <2> QED
    BY <2>1, <2>2, UnchangedTx, UnchangedRx, Zenon
<1>7. CASE send_control_raw
  <2>1. TryPut("PACKET", NULL) /\ UNCHANGED <<tx_tail, ntx, done>> /\ UNCHANGED rxRing
    BY <1>7 DEF send_control_raw, rxVars, rxRing
  <2>2. phase # "release" /\ phase' # "release"
    BY <1>7 DEF send_control_raw, Idle
  <2>3. TxInv'
    BY <2>1, TryPutTx DEF Types
  <2> QED
    BY <2>1, <2>2, <2>3, UnchangedRx, Zenon
<1>8. CASE Loop
  <2>1. UNCHANGED txRing /\ UNCHANGED rxRing
    BY <1>8 DEF Loop, txVars, txRing, rxVars, rxRing
  <2>2. phase # "release" /\ phase' # "release"
    BY <1>8 DEF Loop, Idle
  <2> QED
    BY <2>1, <2>2, UnchangedTx, UnchangedRx, Zenon
<1>9. ASSUME NEW c \in Conns, cc_conn_init(c) PROVE SlowPathInv'
  <2>1. Put("FLOWHT_ADD", c) /\ UNCHANGED <<tx_tail, ntx, done>> /\ UNCHANGED rxRing
    BY <1>9 DEF cc_conn_init, rxVars, rxRing
  <2>2. phase' = phase
    BY <1>9 DEF cc_conn_init
  <2>3. TxInv'
    BY <2>1, PutTx DEF Types
  <2> QED
    BY <2>1, <2>2, <2>3, UnchangedRx, Zenon
<1>10. ASSUME NEW c \in Conns, cc_conn_remove(c) PROVE SlowPathInv'
  <2>1. Put("CONN_CLOSE", c) /\ UNCHANGED <<tx_tail, ntx, done>> /\ UNCHANGED rxRing
    BY <1>10 DEF cc_conn_remove, rxVars, rxRing
  <2>2. phase # "release" /\ phase' # "release"
    BY <1>10 DEF cc_conn_remove, Idle
  <2>3. TxInv'
    BY <2>1, PutTx DEF Types
  <2> QED
    BY <2>1, <2>2, <2>3, UnchangedRx, Zenon
<1>11. ASSUME NEW c \in Conns, NEW aged \in BOOLEAN, cc_poll_conn(c, aged) PROVE SlowPathInv'
  <2>1. UNCHANGED txVars \/ TryPut("CONN_RETX", c)
    BY <1>11, Zenon DEF cc_poll_conn, issue_retransmits
  <2>2. UNCHANGED <<tx_tail, ntx, done>> /\ UNCHANGED rxRing
    BY <1>11 DEF cc_poll_conn, cc_poll_next, rxVars, rxRing
  <2>3. phase # "release" /\ phase' # "release"
    BY <1>11 DEF cc_poll_conn, cc_poll_next, Idle
  <2>4. TxInv'
    BY <2>1, <2>2, TryPutTx DEF Types
  <2> QED
    BY <2>2, <2>3, <2>4, UnchangedRx, Zenon
<1> QED
  BY <1>1, <1>2, <1>3, <1>4, <1>5, <1>6, <1>7, <1>8, <1>9, <1>10, <1>11, Zenon DEF Host

(* The steps of the NIC's context for the transmit ring.                   *)
LEMMA NicTxStep ==
  ASSUME SlowPathInv, NicTx
  PROVE  SlowPathInv'
<1>1. UNCHANGED rxRing /\ phase' = phase
  BY DEF NicTx, tx_refresh, tx_take, tx_null, process_sptx_descriptor, NtxStep, rxVars, rxRing
<1>2. RxInv'
  BY <1>1, UnchangedRx, Zenon DEF SlowPathInv
<1>3. TxInv'
  BY RefreshTx, TakeTx, NullTx, ProcessTx DEF NicTx, SlowPathInv
<1> QED
  BY <1>2, <1>3 DEF SlowPathInv

(* The steps of the NIC's context for the receive ring.                    *)
LEMMA NicRxStep ==
  ASSUME SlowPathInv, NicRx
  PROVE  SlowPathInv'
<1>1. UNCHANGED txRing
  BY DEF NicRx, rx_refresh, rx_payload, rx_desc, NrxStep, txVars, txRing
<1>2. TxInv'
  BY <1>1, UnchangedTx DEF SlowPathInv
<1>3. RxInv'
  BY RefreshRx, PayloadRx, DescRx DEF NicRx, SlowPathInv
<1> QED
  BY <1>2, <1>3 DEF SlowPathInv

(* A step of anything else leaves both rings alone.                        *)
LEMMA QuietStep ==
  ASSUME SlowPathInv, UNCHANGED <<phase, txVars, tx_tail, rxVars, ntx, done>>
  PROVE  SlowPathInv'
<1>1. UNCHANGED txRing /\ UNCHANGED rxRing /\ phase' = phase
  BY DEF txVars, txRing, rxVars, rxRing
<1> QED
  BY <1>1, UnchangedTx, UnchangedRx, Zenon DEF SlowPathInv

LEMMA NextSlowPath == SlowPathInv /\ [Next]_vars => SlowPathInv'
<1> SUFFICES ASSUME SlowPathInv, [Next]_vars PROVE SlowPathInv'
  OBVIOUS
<1>1. CASE Host
  BY <1>1, HostStep
<1>2. CASE NicTx
  BY <1>2, NicTxStep
<1>3. CASE NicRx
  BY <1>3, NicRxStep
<1>4. ASSUME NEW c \in Conns, postprocess_tx(c) \/ postprocess_retx(c) PROVE SlowPathInv'
  BY <1>4, QuietStep, Zenon DEF postprocess_tx, postprocess_retx, FlowStep
<1>5. ASSUME NEW c \in Conns, NEW acked \in BOOLEAN, NEW zero \in BOOLEAN,
             collect_cc_stats(c, acked, zero)
      PROVE  SlowPathInv'
  BY <1>5, QuietStep, Zenon DEF collect_cc_stats, FlowStep
<1>6. CASE UNCHANGED vars
  <2>1. UNCHANGED <<phase, txVars, tx_tail, rxVars, ntx, done>>
    BY <1>6 DEF vars
  <2> QED
    BY <2>1, QuietStep
<1> QED
  BY <1>1, <1>2, <1>3, <1>4, <1>5, <1>6, Zenon DEF Next

(* The transmit ring with remainders again.                                *)
LEMMA TxDelivers == TxInv => TxInOrder
<1> SUFFICES ASSUME TxInv, ~overrun PROVE TxInOrder
  BY Zenon DEF TxInOrder
<1>1. /\ TxTypes /\ ntx.head \in 0..(TxqLen - 1) /\ txq_tail \in 0..(TxqLen - 1)
      /\ done \in 0..(Ids - 1) /\ TxFirst \in 0..(Ids - 1)
  BY NtxFields DEF TxInv, TxTypes
<1>2. TxHand /\ TxSlots /\ TxCount
  BY Zenon DEF TxInv
<1> DEFINE g == Gap(ntx.head, txq_tail, TxqLen)
           first == IF InHand THEN NextId(done) ELSE done
<1>3. (txq_tail - ntx.head) % TxqLen = g /\ g \in 0..(TxqLen - 1)
  BY <1>1, Constants, GapMod, Ranges
<1>4. first = TxFirst
  <2>1. 1 \in 0..Ids
    BY Constants
  <2>2. NextId(done) = Slot(done, 1, Ids)
    BY <1>1, <2>1, Constants, SlotMod DEF NextId
  <2> QED
    BY <2>2, Zenon DEF TxFirst
<1>5. InHand => Intact(ntx.cmd, ntx.idx, done)
  BY <1>2, Zenon DEF TxHand
<1> HIDE DEF first
<1>6. issued = (first + g) % Ids
  <2>1. g \in 0..Ids
    BY <1>3, Constants
  <2> QED
    BY <1>1, <1>2, <1>4, <2>1, Constants, SlotMod DEF TxCount
<1>7. ASSUME NEW k \in 0..(g - 1)
      PROVE  LET i == (ntx.head + k) % TxqLen IN Intact(txq[i], i, (first + k) % Ids)
  <2>1. k \in 0..(TxqLen - 1) /\ k < g /\ k \in 0..TxqLen /\ k \in 0..Ids
    BY <1>3, Constants
  <2>2. (ntx.head + k) % TxqLen = Slot(ntx.head, k, TxqLen)
    BY <1>1, <2>1, Constants, SlotMod
  <2>3. (first + k) % Ids = Slot(TxFirst, k, Ids)
    BY <1>1, <1>4, <2>1, Constants, SlotMod
  <2> QED
    BY <1>2, <2>1, <2>2, <2>3, Zenon DEF TxSlots
<1> QED
  BY <1>3, <1>5, <1>6, <1>7, Zenon DEF TxInOrder, first

(* The receive ring with remainders again.                                 *)
LEMMA RxDelivers == RxInv => RxInOrder
<1> SUFFICES ASSUME RxInv PROVE RxInOrder
  OBVIOUS
<1>1. /\ rxq_head \in 0..(RxqLen - 1) /\ nrx.tail \in 0..(RxqLen - 1)
      /\ RxGap \in 0..(RxqLen - 1) /\ RxFirst \in Nat
  BY NrxFields DEF RxInv
<1>2. (nrx.tail - rxq_head) % RxqLen = RxGap
  BY <1>1, Constants, GapMod DEF RxGap
<1>3. ASSUME NEW k \in 0..(RxqLen - 1)
      PROVE  LET i == (rxq_head + k) % RxqLen
                 arrived == k < RxGap /\ ~(nrx.pc = "desc" /\ i = nrx.idx) IN
             /\ k < RxGap => rxbuf[i] = RxFirst + k
             /\ rxq[i] = IF arrived THEN RxFirst + k ELSE 0
  <2>1. k \in 0..RxqLen
    BY Constants
  <2>2. (rxq_head + k) % RxqLen = Slot(rxq_head, k, RxqLen)
    BY <1>1, <2>1, Constants, SlotMod
  <2> QED
    BY <2>2, Zenon DEF RxInv, RxSlots
<1>4. nrx.taken = RxFirst + RxGap - 1
  <2>1. nrx.taken = (RxFirst + RxGap) - 1
    BY Zenon DEF RxInv
  <2> QED
    BY <1>1, <2>1
<1> QED
  BY <1>2, <1>3, <1>4, Zenon DEF RxInOrder, RxFirst

(* The commands of sptx_try_alloc reach poll_tx_slowpath, and the packets  *)
(* of poll_rx_slowpath reach rxq_poll, once, in order and whole, for rings *)
(* of any length and however far each side's copy of the other's position  *)
(* lags behind; for commands, until one takes the last free slot.          *)
THEOREM SlowPathRingsInOrder == Spec => []RingsInOrder
<1>1. SlowPathInv => RingsInOrder
  BY TxDelivers, RxDelivers DEF SlowPathInv, RingsInOrder
<1> QED
  BY <1>1, InitSlowPath, NextSlowPath, PTL DEF Spec

-----------------------------------------------------------------------------
(* Blocking and wake-up (Wakeup): the interrupt rate limit of the NIC      *)
(* loses no wake-up, for every poll cycle and every pair of latencies      *)
(* Wakeup admits.                                                          *)


USE DEF Flags

(* Every step keeps the variables in their types and the two phases of     *)
(* flextcp_context_canwait apart.                                          *)
LEMMA TypeStep == TypeOK /\ [WakeNext]_wakeVars => TypeOK'
<1> SUFFICES ASSUME TypeOK, [WakeNext]_wakeVars PROVE TypeOK'
  OBVIOUS
<1> USE WakeupAssumption
<1>1. CASE poll_arx
  BY <1>1 DEF poll_arx, TypeOK
<1>2. CASE loop_msix
  <2>1. quiet' \in 0..PollCycle
    BY <1>2 DEF loop_msix, TypeOK
  <2>2. intrs' = intrs \/ intrs' = intrs \cup {0}
    BY <1>2 DEF loop_msix
  <2>3. 0 \in 0..IntrTime /\ intrs \subseteq 0..IntrTime
    BY DEF TypeOK
  <2>4. intrs' \subseteq 0..IntrTime
    BY <2>2, <2>3
  <2> QED
    BY <1>2, <2>1, <2>4 DEF loop_msix, TypeOK
<1>3. CASE Interrupt
  BY <1>3 DEF Interrupt, TypeOK
<1>4. CASE SpEntry
  BY <1>4 DEF SpEntry, TypeOK, nicVars
<1>5. CASE appif_ctx_kick
  BY <1>5 DEF appif_ctx_kick, TypeOK, nicVars
<1>6. CASE Tick
  <2>1. dmas' \subseteq 0..DmaTime
    BY <1>6 DEF Tick, TypeOK
  <2>2. intrs' \subseteq 0..IntrTime
    BY <1>6 DEF Tick, TypeOK, UpTo
  <2>3. grace' \in 0..(PollCycle + 1) /\ quiet' \in 0..PollCycle
    BY <1>6 DEF Tick, TypeOK, UpTo
  <2> QED
    BY <1>6, <2>1, <2>2, <2>3 DEF Tick, TypeOK
<1>7. CASE \E age \in 0..DmaTime : Land(age)
  BY <1>7 DEF Land, TypeOK
<1>8. CASE flextcp_context_poll
  BY <1>8 DEF flextcp_context_poll, TypeOK, nicVars
<1>9. CASE flextcp_context_wait
  <2>1. flags' \subseteq Flags
    BY <1>9 DEF flextcp_context_wait, flextcp_context_canwait, TypeOK
  <2>3. ~({"WANTWAIT", "LASTWAIT"} \subseteq flags')
    BY <1>9 DEF flextcp_context_wait, flextcp_context_canwait, TypeOK
  <2>4. grace' \in 0..(PollCycle + 1)
    BY <1>9 DEF flextcp_context_wait, flextcp_context_canwait, TypeOK
  <2>2. pc' \in {"poll", "wait", "sleep"}
    BY <1>9 DEF flextcp_context_wait
  <2> QED
    BY <1>9, <2>1, <2>2, <2>3, <2>4 DEF flextcp_context_wait, TypeOK, nicVars
<1>10. CASE flextcp_context_waitclear
  BY <1>10 DEF flextcp_context_waitclear, TypeOK, nicVars
<1>11. CASE UNCHANGED wakeVars
  BY <1>11 DEF wakeVars, nicVars, TypeOK
<1> QED
  BY <1>1, <1>2, <1>3, <1>4, <1>5, <1>6, <1>7, <1>8, <1>9, <1>10, <1>11 DEF WakeNext

(* The state of Wakeup stays in its types.                                 *)
THEOREM WakeupTypes == WakeSpec => []TypeOK
<1>1. WakeInit => TypeOK
  <2> SUFFICES ASSUME WakeInit PROVE TypeOK
    OBVIOUS
  <2>1. ~({"WANTWAIT", "LASTWAIT"} \subseteq {})
    OBVIOUS
  <2>2. grace \in 0..(PollCycle + 1) /\ quiet \in 0..PollCycle
    BY WakeupAssumption DEF WakeInit
  <2> QED
    BY <2>1, <2>2 DEF WakeInit, TypeOK
<1> QED
  BY <1>1, TypeStep, PTL DEF WakeSpec

(* The invariant WakeInv is preserved by every step.                       *)
LEMMA WakeStep == TypeOK /\ TypeOK' /\ WakeInv /\ [WakeNext]_wakeVars => WakeInv'
<1> SUFFICES ASSUME TypeOK, TypeOK', WakeInv, [WakeNext]_wakeVars PROVE WakeInv'
  OBVIOUS
<1> USE WakeupAssumption DEF WakeInv, TypeOK
<1>1. CASE poll_arx
  BY <1>1 DEF poll_arx, LastIntr, Dropped, InGrace, PastGrace, Asleep, Unsignalled
<1>2. CASE loop_msix
  <2> USE <1>2 DEF loop_msix
  <2>1. CASE quiet >= PollCycle
    <3>1. 0 \in intrs' /\ quiet' = 0
      BY <2>1
    <3>2. Dropped'
      BY <3>1 DEF Dropped
    <3> QED
      BY <3>1, <3>2 DEF LastIntr, InGrace, PastGrace, Asleep, Unsignalled
  <2>2. CASE ~(quiet >= PollCycle)
    <3>1. quiet' = quiet /\ intrs' = intrs /\ dmas' = dmas /\ quiet < PollCycle
      BY <2>2
    <3>2. LastIntr' /\ Asleep'
      BY <3>1 DEF LastIntr, Asleep
    <3>3. Dropped'
      <4>1. \E i \in intrs \cup {IntrTime} : i <= quiet
        BY <3>1 DEF LastIntr
      <4> QED
        BY <3>1, <4>1 DEF Dropped
    <3>4. InGrace'
      BY <3>1 DEF InGrace, Unsignalled
    <3>5. PastGrace'
      BY <3>1 DEF PastGrace, Unsignalled
    <3> QED
      BY <3>2, <3>3, <3>4, <3>5
  <2> QED
    BY <2>1, <2>2
<1>3. CASE Interrupt
  <2> USE <1>3 DEF Interrupt
  <2>1. LastIntr' /\ Dropped'
    BY DEF LastIntr, Dropped
  <2> QED
    BY <2>1 DEF InGrace, PastGrace, Asleep, Unsignalled
<1>4. CASE SpEntry
  BY <1>4 DEF SpEntry, nicVars, LastIntr, Dropped, InGrace, PastGrace, Asleep, Unsignalled
<1>5. CASE appif_ctx_kick
  BY <1>5 DEF appif_ctx_kick, nicVars, LastIntr, Dropped, InGrace, PastGrace, Asleep,
              Unsignalled
<1>6. CASE Tick
  <2> USE <1>6 DEF Tick, UpTo
  <2>1. LastIntr'
    BY DEF LastIntr
  <2>2. Dropped'
    <3> SUFFICES ASSUME ~active, NEW a \in dmas
                 PROVE \E i \in intrs' \cup {IntrTime} : a + 1 >= i + 1 - PollCycle
      BY DEF Dropped
    <3>1. PICK i \in intrs \cup {IntrTime} : a >= i + 1 - PollCycle
      BY DEF Dropped
    <3>2. UpTo(i + 1, IntrTime) \in intrs' \cup {IntrTime}
      BY <3>1
    <3> QED
      BY <3>1, <3>2
  <2>3. Unsignalled' <=> Unsignalled
    BY DEF Unsignalled
  <2>4. InGrace'
    BY <2>3 DEF InGrace
  <2>5. PastGrace'
    BY <2>3 DEF PastGrace
  <2> QED
    BY <2>1, <2>2, <2>4, <2>5 DEF Asleep
<1>7. CASE \E age \in 0..DmaTime : Land(age)
  <2>1. PICK age \in 0..DmaTime : Land(age)
    BY <1>7
  <2>2. dmas' \subseteq dmas /\ dmas # {}
    BY <2>1 DEF Land
  <2> QED
    BY <2>1, <2>2 DEF Land, LastIntr, Dropped, InGrace, PastGrace, Asleep, Unsignalled
<1>8. CASE flextcp_context_poll
  <2> USE <1>8 DEF flextcp_context_poll, nicVars
  <2>1. LastIntr' /\ Dropped' /\ InGrace' /\ Asleep'
    BY DEF LastIntr, Dropped, InGrace, Asleep, Unsignalled
  <2>2. landed' => "EVENTS" \in flags'
    OBVIOUS
  <2>3. PastGrace'
    BY <2>2 DEF PastGrace, Unsignalled
  <2> QED
    BY <2>1, <2>3
<1>9. CASE flextcp_context_wait
  <2> USE <1>9 DEF flextcp_context_wait, flextcp_context_canwait, nicVars
  <2>1. LastIntr' /\ Dropped'
    BY DEF LastIntr, Dropped
  <2>2. InGrace'
    <3> SUFFICES ASSUME "WANTWAIT" \in flags', Unsignalled
                 PROVE /\ quiet = PollCycle \/ quiet >= IntrTime + grace'
                       /\ ~active => \A a \in dmas : a >= grace' + IntrTime + 1 - PollCycle
      BY DEF InGrace, Unsignalled
    <3>1. CASE "WANTWAIT" \in flags
      BY <3>1 DEF InGrace
    <3>2. CASE "WANTWAIT" \notin flags
      <4>1. grace' = 0 /\ intrs = {}
        BY <3>2 DEF Unsignalled
      <4>2. quiet = PollCycle \/ quiet >= IntrTime
        BY <4>1 DEF LastIntr
      <4>3. ~active => \A a \in dmas : a >= IntrTime + 1 - PollCycle
        BY <4>1 DEF Dropped
      <4> QED
        BY <4>1, <4>2, <4>3
    <3> QED
      BY <3>1, <3>2
  <2>3. PastGrace'
    BY DEF PastGrace, InGrace, Unsignalled
  <2>4. Asleep'
    BY DEF Asleep, CanWait, Flags
  <2> QED
    BY <2>1, <2>2, <2>3, <2>4
<1>10. CASE flextcp_context_waitclear
  BY <1>10 DEF flextcp_context_waitclear, nicVars, LastIntr, Dropped, InGrace, PastGrace,
               Asleep, Unsignalled
<1>11. CASE UNCHANGED wakeVars
  BY <1>11 DEF wakeVars, nicVars, LastIntr, Dropped, InGrace, PastGrace, Asleep, Unsignalled
<1> QED
  BY <1>1, <1>2, <1>3, <1>4, <1>5, <1>6, <1>7, <1>8, <1>9, <1>10, <1>11 DEF WakeNext

(* No wake-up is lost, although loop_msix of firmware/dma_rxtx.c drops     *)
(* every mark it finds within poll_cycle_app of an interrupt: a thread     *)
(* that flextcp_context_canwait has let block is signalled whenever a      *)
(* descriptor is there or on its way.                                      *)
THEOREM WakeupNotLost == WakeSpec => []NoLostWakeup
<1>1. WakeInit => WakeInv
  BY WakeupAssumption
     DEF WakeInit, WakeInv, LastIntr, Dropped, InGrace, PastGrace, Asleep, Unsignalled
<1>2. WakeInv => NoLostWakeup
  BY DEF WakeInv, PastGrace, Asleep, Unsignalled, NoLostWakeup, SignalComing
<1> QED
  BY <1>1, <1>2, WakeupTypes, WakeStep, PTL DEF WakeSpec
=============================================================================
