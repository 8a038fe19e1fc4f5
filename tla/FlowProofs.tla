----------------------------- MODULE FlowProofs -----------------------------
(***************************************************************************)
(* Theorems about the protocol stage.                                      *)
(***************************************************************************)
EXTENDS FlowProto, TLAPS

(* A flow state whose transmit and receive accounts fit their buffers.     *)
Sane(f) ==
  /\ f \in FlowState
  /\ f.tx_avail + f.tx_sent <= TxLen
  /\ f.rx_avail <= RxLen

-----------------------------------------------------------------------------
(* Words.                                                                  *)

LEMMA WordModNat == WordMod \in Nat /\ WordMod > 4 /\ TxLen \in Nat
                    /\ RxLen \in Nat /\ RxLen > 0
                    /\ 4 * TxLen < WordMod /\ 4 * RxLen < WordMod
  BY FlowsAssumption

LEMMA WordAdd ==
  ASSUME NEW a \in Word, NEW b \in Word
  PROVE  /\ Add(a, b) \in Word
         /\ Add(a, b) = IF a + b < WordMod THEN a + b ELSE a + b - WordMod
  BY WordModNat DEF Add, Word

LEMMA WordSub ==
  ASSUME NEW a \in Word, NEW b \in Word
  PROVE  /\ Sub(a, b) \in Word
         /\ Sub(a, b) = IF b <= a THEN a - b ELSE a - b + WordMod
  BY WordModNat DEF Sub, Word

LEMMA WordNat ==
  /\ \A a \in Word : a \in Nat /\ a < WordMod
  /\ \A n \in Nat : n < WordMod => n \in Word
  BY WordModNat DEF Word

(* The types of the fields of a flow state.                                *)
LEMMA FlowFields ==
  ASSUME NEW f \in FlowState
  PROVE  /\ f.tx_avail \in Word /\ f.tx_remote_avail \in Word
         /\ f.tx_sent \in Word /\ f.tx_next_seq \in Word
         /\ f.tx_next_pos \in Word /\ f.dupack_cnt \in 0..2
         /\ f.txfin \in BOOLEAN /\ f.rxfin \in BOOLEAN
         /\ f.rx_avail \in Word /\ f.rx_next_seq \in Word
         /\ f.rx_next_pos \in Word /\ f.rx_ooo_len \in Word
         /\ f.rx_ooo_start \in Word
  BY DEF FlowState

-----------------------------------------------------------------------------
(* Handlers.                                                               *)

LEMMA TxAvailBound ==
  ASSUME NEW f \in FlowState
  PROVE  TxAvail(f, 0) \in Word /\ TxAvail(f, 0) <= f.tx_avail
  <1>1. 0 \in Word  BY WordModNat DEF Word
  <1>2. Add(0, f.tx_avail) = f.tx_avail
    BY <1>1, WordAdd, WordNat, FlowFields
  <1> QED  BY <1>2, WordSub, WordNat, FlowFields DEF TxAvail, Least

LEMMA FlowsTxGood ==
  ASSUME NEW f, Sane(f), NEW force \in BOOLEAN
  PROVE  LET g == FlowsTx(f, force).fs
         IN  /\ g \in FlowState
             /\ g.tx_avail + g.tx_sent = f.tx_avail + f.tx_sent
             /\ g.rx_avail = f.rx_avail
  <1> DEFINE p == Least(TxAvail(f, 0), TcpMss)
  <1>0. f \in FlowState  BY DEF Sane
  <1>1. p \in Word /\ p <= f.tx_avail
    BY <1>0, TxAvailBound, WordNat, FlowFields, FlowsAssumption DEF Least
  <1>2. /\ Add(f.tx_next_seq, p) \in Word /\ Add(f.tx_next_pos, p) \in Word
        /\ Add(f.tx_sent, p) \in Word /\ Sub(f.tx_avail, p) \in Word
    BY <1>0, <1>1, WordAdd, WordSub, FlowFields
  <1>3. Sub(f.tx_avail, p) + Add(f.tx_sent, p) = f.tx_avail + f.tx_sent
    BY <1>0, <1>1, WordAdd, WordSub, FlowFields, WordNat, WordModNat DEF Sane
  <1> HIDE DEF p
  <1>4. CASE TxAvail(f, 0) = 0 /\ ~force
    BY <1>0, <1>4 DEF FlowsTx, Finalize
  <1>5. CASE ~(TxAvail(f, 0) = 0 /\ ~force)
    <2> DEFINE g == [f EXCEPT !.tx_next_seq = Add(@, p), !.tx_next_pos = Add(@, p),
                              !.tx_sent = Add(@, p), !.tx_avail = Sub(@, p)]
    <2>1. FlowsTx(f, force).fs = g  BY <1>5 DEF FlowsTx, p
    <2>2. g \in FlowState  BY <1>0, <1>2 DEF FlowState
    <2>3. /\ g.tx_avail = Sub(f.tx_avail, p) /\ g.tx_sent = Add(f.tx_sent, p)
          /\ g.rx_avail = f.rx_avail
      BY <1>0 DEF FlowState
    <2> QED  BY <2>1, <2>2, <2>3, <1>3
  <1> QED  BY <1>4, <1>5

LEMMA FlowsAcGood ==
  ASSUME NEW f, Sane(f), NEW rb \in Nat, NEW tb \in Nat, NEW fin \in BOOLEAN,
         f.rx_avail + rb <= RxLen, f.tx_avail + f.tx_sent + tb <= TxLen
  PROVE  LET g == FlowsAc(f, rb, tb, fin).fs
         IN  /\ g \in FlowState
             /\ g.tx_avail + g.tx_sent = f.tx_avail + f.tx_sent + tb
             /\ g.rx_avail = f.rx_avail + rb
             /\ g.tx_next_seq = f.tx_next_seq /\ g.tx_next_pos = f.tx_next_pos
             /\ g.tx_sent = f.tx_sent
  <1> DEFINE g == [f EXCEPT !.rx_avail = Add(@, rb), !.tx_avail = Add(@, tb),
                            !.txfin = @ \/ fin]
  <1>0. f \in FlowState  BY DEF Sane
  <1>1. rb \in Word /\ tb \in Word
    BY <1>0, FlowFields, WordNat, WordModNat
  <1>f. /\ f.rx_avail \in Word /\ f.rx_avail + rb < WordMod
        /\ f.tx_avail \in Word /\ f.tx_avail + tb < WordMod
    BY <1>0, FlowFields, WordNat, WordModNat
  <1>2. /\ Add(f.rx_avail, rb) \in Word /\ Add(f.rx_avail, rb) = f.rx_avail + rb
    BY <1>1, <1>f, WordAdd
  <1>3. /\ Add(f.tx_avail, tb) \in Word /\ Add(f.tx_avail, tb) = f.tx_avail + tb
    BY <1>1, <1>f, WordAdd
  <1>4. g \in FlowState  BY <1>0, <1>2, <1>3 DEF FlowState
  <1>5. /\ g.tx_avail = f.tx_avail + tb /\ g.tx_sent = f.tx_sent
        /\ g.rx_avail = f.rx_avail + rb
        /\ g.tx_next_seq = f.tx_next_seq /\ g.tx_next_pos = f.tx_next_pos
    BY <1>0, <1>2, <1>3 DEF FlowState
  <1>6. (f.tx_avail + tb) + f.tx_sent = f.tx_avail + f.tx_sent + tb
    BY <1>0, FlowFields, WordNat
  <1>7. FlowsAc(f, rb, tb, fin).fs = g  BY DEF FlowsAc, Finalize
  <1> QED  BY <1>4, <1>5, <1>6, <1>7

LEMMA ResetGood ==
  ASSUME NEW f, Sane(f)
  PROVE  LET g == ResetRetransmit(f)
         IN  /\ g \in FlowState
             /\ g.tx_avail + g.tx_sent = f.tx_avail + f.tx_sent
             /\ g.rx_avail = f.rx_avail
             /\ g.tx_sent = 0
             /\ g.tx_next_seq = Sub(f.tx_next_seq, f.tx_sent)
             /\ g.tx_next_pos = Sub(f.tx_next_pos, f.tx_sent)
  <1> DEFINE g == ResetRetransmit(f)
  <1>0. f \in FlowState  BY DEF Sane
  <1>1. /\ Add(f.tx_avail, f.tx_sent) \in Word
        /\ Add(f.tx_avail, f.tx_sent) = f.tx_avail + f.tx_sent
    BY <1>0, FlowFields, WordAdd, WordNat, WordModNat DEF Sane
  <1>2. /\ Add(f.tx_remote_avail, f.tx_sent) \in Word
        /\ Sub(f.tx_next_seq, f.tx_sent) \in Word
        /\ Sub(f.tx_next_pos, f.tx_sent) \in Word
        /\ 0 \in Word /\ 0 \in 0..2
    BY <1>0, FlowFields, WordAdd, WordSub, WordNat, WordModNat
  <1>3. g \in FlowState  BY <1>0, <1>1, <1>2 DEF FlowState, ResetRetransmit
  <1>4. /\ g.tx_avail = f.tx_avail + f.tx_sent /\ g.tx_sent = 0
        /\ g.rx_avail = f.rx_avail
        /\ g.tx_next_seq = Sub(f.tx_next_seq, f.tx_sent)
        /\ g.tx_next_pos = Sub(f.tx_next_pos, f.tx_sent)
    BY <1>0, <1>1 DEF FlowState, ResetRetransmit
  <1>5. f.tx_avail + f.tx_sent + 0 = f.tx_avail + f.tx_sent
    BY <1>0, FlowFields, WordNat
  <1> QED  BY <1>3, <1>4, <1>5

(* A valid acknowledgement covers only bytes in the transmit buffer.       *)
LEMMA AckBumpBound ==
  ASSUME NEW f, Sane(f), NEW ack \in Word
  PROVE  AckBump(f, ack) \in Word /\ AckBump(f, ack) <= f.tx_avail + f.tx_sent
  <1>0. f \in FlowState  BY DEF Sane
  <1>1. Hole(f, ack) \in Word
    BY <1>0, FlowFields, WordSub DEF Hole
  <1>2. Add(f.tx_sent, f.tx_avail) = f.tx_avail + f.tx_sent
    BY <1>0, FlowFields, WordAdd, WordNat, WordModNat DEF Sane
  <1> QED
    BY <1>0, <1>1, <1>2, FlowFields, WordNat, WordModNat DEF AckBump, AckValid

LEMMA AckBytesGood ==
  ASSUME NEW f, Sane(f), NEW b \in Word, b <= f.tx_avail + f.tx_sent
  PROVE  LET g == AckBytes(f, b)
         IN  /\ g \in FlowState
             /\ g.tx_avail + g.tx_sent = f.tx_avail + f.tx_sent - b
             /\ g.rx_avail = f.rx_avail /\ g.rx_next_seq = f.rx_next_seq
             /\ g.rx_next_pos = f.rx_next_pos /\ g.rx_ooo_len = f.rx_ooo_len
             /\ g.rx_ooo_start = f.rx_ooo_start
  <1> DEFINE g == AckBytes(f, b)  a == Sub(b, f.tx_sent)
  <1>0. f \in FlowState  BY DEF Sane
  <1>z. 0 \in Word /\ 0 \in 0..2  BY WordNat, WordModNat
  <1>1. CASE b < f.tx_sent
    <2>1. Sub(f.tx_sent, b) \in Word /\ Sub(f.tx_sent, b) = f.tx_sent - b
      BY <1>0, <1>1, FlowFields, WordSub, WordNat
    <2>2. g = [f EXCEPT !.tx_sent = Sub(f.tx_sent, b), !.dupack_cnt = 0]
      BY <1>0, <1>1 DEF AckBytes, FlowState
    <2>3. g \in FlowState  BY <1>0, <1>z, <2>1, <2>2 DEF FlowState
    <2>4. /\ g.tx_avail = f.tx_avail /\ g.tx_sent = f.tx_sent - b
          /\ g.rx_avail = f.rx_avail /\ g.rx_next_seq = f.rx_next_seq
          /\ g.rx_next_pos = f.rx_next_pos /\ g.rx_ooo_len = f.rx_ooo_len
          /\ g.rx_ooo_start = f.rx_ooo_start
      BY <1>0, <2>1, <2>2 DEF FlowState
    <2>5. f.tx_avail + (f.tx_sent - b) = f.tx_avail + f.tx_sent - b
      BY <1>0, FlowFields, WordNat
    <2> QED  BY <2>3, <2>4, <2>5
  <1>2. CASE ~(b < f.tx_sent)
    <2>1. a \in Word /\ a = b - f.tx_sent /\ a <= f.tx_avail
      BY <1>0, <1>2, FlowFields, WordSub, WordNat
    <2> HIDE DEF a
    <2>f. /\ f.tx_avail \in Word /\ f.tx_next_seq \in Word
          /\ f.tx_next_pos \in Word
      BY <1>0, FlowFields
    <2>2. /\ Add(f.tx_next_seq, a) \in Word /\ Add(f.tx_next_pos, a) \in Word
          /\ Sub(f.tx_avail, a) \in Word /\ Sub(f.tx_avail, a) = f.tx_avail - a
      BY <2>1, <2>f, WordAdd, WordSub, WordNat
    <2>3. g = [f EXCEPT !.tx_next_seq = Add(f.tx_next_seq, a),
                        !.tx_next_pos = Add(f.tx_next_pos, a),
                        !.tx_avail = Sub(f.tx_avail, a),
                        !.tx_sent = 0, !.dupack_cnt = 0]
      BY <1>0, <1>2 DEF AckBytes, FlowState, a
    <2>4. g \in FlowState  BY <1>0, <1>z, <2>2, <2>3 DEF FlowState
    <2>5. /\ g.tx_avail = f.tx_avail - a /\ g.tx_sent = 0
          /\ g.rx_avail = f.rx_avail /\ g.rx_next_seq = f.rx_next_seq
          /\ g.rx_next_pos = f.rx_next_pos /\ g.rx_ooo_len = f.rx_ooo_len
          /\ g.rx_ooo_start = f.rx_ooo_start
      BY <1>0, <2>2, <2>3 DEF FlowState
    <2>n. f.tx_avail \in Nat /\ f.tx_sent \in Nat /\ b \in Nat
      BY <1>0, FlowFields, WordNat
    <2>6. f.tx_avail - a + 0 = f.tx_avail + f.tx_sent - b
      BY <2>1, <2>n
    <2> QED  BY <2>4, <2>5, <2>6
  <1> QED  BY <1>1, <1>2

LEMMA FinalizeFs ==
  ASSUME NEW o, NEW f, NEW fl, NEW rb, NEW tb, NEW d
  PROVE  LET r == Finalize(o, f, fl, rb, tb, d)
         IN  /\ r.fs = f /\ r.res.rx_bump = rb /\ r.res.tx_bump = tb
             /\ r.res.dma = d
             /\ \A x : x # "QM" => (x \in r.res.flags <=> x \in fl)
  BY DEF Finalize

(* What a received packet does to the accounts: the application is told of *)
(* every byte that leaves the transmit buffer or enters the receive        *)
(* buffer.                                                                 *)
RxGood(f, r) ==
  /\ r.fs \in FlowState
  /\ r.res.tx_bump \in Nat /\ r.res.rx_bump \in Nat
  /\ r.fs.tx_avail + r.fs.tx_sent = f.tx_avail + f.tx_sent - r.res.tx_bump
  /\ r.res.tx_bump <= f.tx_avail + f.tx_sent
  /\ r.fs.rx_avail = f.rx_avail - r.res.rx_bump
  /\ r.res.rx_bump <= f.rx_avail
  /\ "DMA_ACDESC" \notin r.res.flags => r.res.tx_bump = 0 /\ r.res.rx_bump = 0
  /\ "DMA_PAYLOAD" \in r.res.flags =>
       r.res.dma.off \in Nat /\ r.res.dma.pos \in Int

PacketType == [seq : Word, plen : Word, fin : BOOLEAN, ack : Word, win : Word]

(* A handler that ends with the accounts of g, reached from f by telling   *)
(* the application of tb and rb bytes.                                     *)
LEMMA FinalizeGood ==
  ASSUME NEW f, Sane(f), NEW g \in FlowState, NEW fl, NEW rb \in Nat, NEW tb \in Nat,
         NEW d, d.off \in Nat, d.pos \in Int,
         g.tx_avail + g.tx_sent = f.tx_avail + f.tx_sent - tb,
         g.rx_avail = f.rx_avail - rb,
         tb <= f.tx_avail + f.tx_sent, rb <= f.rx_avail,
         "DMA_ACDESC" \notin fl => tb = 0 /\ rb = 0
  PROVE  RxGood(f, Finalize(f, g, fl, rb, tb, d))
  <1> DEFINE r == Finalize(f, g, fl, rb, tb, d)
  <1>1. /\ r.fs = g /\ r.res.rx_bump = rb /\ r.res.tx_bump = tb /\ r.res.dma = d
        /\ ("DMA_ACDESC" \in r.res.flags <=> "DMA_ACDESC" \in fl)
    BY FinalizeFs
  <1> HIDE DEF r
  <1> QED  BY <1>1 DEF RxGood, r

(* The state after the acknowledgement a packet carries.                   *)
LEMMA AckedGood ==
  ASSUME NEW f, Sane(f), NEW ack \in Word
  PROVE  LET b == AckBump(f, ack)
             g == IF b # 0 THEN AckBytes(f, b) ELSE f
         IN  /\ g \in FlowState
             /\ b \in Nat /\ b <= f.tx_avail + f.tx_sent
             /\ g.tx_avail + g.tx_sent = f.tx_avail + f.tx_sent - b
             /\ g.rx_avail = f.rx_avail /\ g.rx_next_seq = f.rx_next_seq
             /\ g.rx_next_pos = f.rx_next_pos /\ g.rx_ooo_len = f.rx_ooo_len
             /\ g.rx_ooo_start = f.rx_ooo_start
  <1> DEFINE b == AckBump(f, ack)
  <1>1. b \in Word /\ b <= f.tx_avail + f.tx_sent  BY AckBumpBound
  <1>2. b \in Nat  BY <1>1, WordNat
  <1> HIDE DEF b
  <1>3. CASE b # 0  BY <1>1, <1>2, <1>3, AckBytesGood DEF b
  <1>4. CASE b = 0
    <2>1. f \in FlowState /\ f.tx_avail \in Nat /\ f.tx_sent \in Nat
      BY FlowFields, WordNat DEF Sane
    <2> QED  BY <1>1, <1>4, <2>1 DEF b
  <1> QED  BY <1>3, <1>4

LEMMA FlowsAckGood ==
  ASSUME NEW f, Sane(f), NEW pkt \in PacketType
  PROVE  RxGood(f, FlowsAck(f, pkt))
  <1> DEFINE b     == AckBump(f, pkt.ack)
             dup   == AckValid(f, pkt.ack) /\ b = 0
             acked_ == IF b # 0 THEN AckBytes(f, b) ELSE
                       IF dup THEN [f EXCEPT !.dupack_cnt = @ + 1] ELSE f
             flags == AckFlags(acked_, b)
             fresh == [acked_ EXCEPT !.tx_remote_avail = pkt.win]
             fin   == pkt.fin /\ ~f.rxfin /\ f.rx_ooo_len = 0
             third == InWindow(f, pkt.seq) /\ dup /\ ThirdDup(f)
  <1>0. /\ f \in FlowState /\ f.tx_avail \in Nat /\ f.tx_sent \in Nat
        /\ f.rx_avail \in Nat
    BY FlowFields, WordNat DEF Sane
  <1>p. pkt.ack \in Word /\ pkt.win \in Word  BY DEF PacketType
  <1>b. b \in Nat /\ b <= f.tx_avail + f.tx_sent  BY <1>p, AckedGood
  <1>d. NoDma.off \in Nat /\ NoDma.pos \in Int  BY DEF NoDma
  <1>1. CASE ~InWindow(f, pkt.seq)
    <2>1. FlowsAck(f, pkt) = Finalize(f, f, {"TX"}, 0, 0, NoDma)
      BY <1>1 DEF FlowsAck
    <2>2. /\ f.tx_avail + f.tx_sent = f.tx_avail + f.tx_sent - 0
          /\ f.rx_avail = f.rx_avail - 0
          /\ 0 <= f.tx_avail + f.tx_sent /\ 0 <= f.rx_avail
      BY <1>0
    <2>3. RxGood(f, Finalize(f, f, {"TX"}, 0, 0, NoDma))
      BY <1>0, <1>d, <2>2, FinalizeGood
    <2> QED  BY <2>1, <2>3
  <1>2. CASE third
    <2>1. FlowsAck(f, pkt) =
            Finalize(f, ResetRetransmit(f), {"RETX"}, 0, 0, NoDma)
      BY <1>2 DEF FlowsAck
    <2> DEFINE g == ResetRetransmit(f)
    <2>2. /\ g \in FlowState /\ g.rx_avail = f.rx_avail - 0
          /\ g.tx_avail + g.tx_sent = f.tx_avail + f.tx_sent - 0
      BY <1>0, ResetGood
    <2> HIDE DEF g
    <2>z. 0 <= f.tx_avail + f.tx_sent /\ 0 <= f.rx_avail /\ 0 \in Nat
      BY <1>0
    <2>3. RxGood(f, Finalize(f, g, {"RETX"}, 0, 0, NoDma))
      BY <1>d, <2>2, <2>z, FinalizeGood
    <2> QED  BY <2>1, <2>3 DEF g
  <1>3. CASE InWindow(f, pkt.seq) /\ ~third
    <2>1. /\ acked_ \in FlowState
          /\ acked_.tx_avail + acked_.tx_sent = f.tx_avail + f.tx_sent - b
          /\ acked_.rx_avail = f.rx_avail /\ acked_.rx_next_seq = f.rx_next_seq
      <3>1. CASE b # 0  BY <1>p, <3>1, AckedGood
      <3>2. CASE b = 0 /\ dup
        <4> DEFINE g == [f EXCEPT !.dupack_cnt = f.dupack_cnt + 1]
        <4>1. f.dupack_cnt \in 0..2 /\ ~(f.dupack_cnt >= 2)
          BY <1>0, <1>3, <3>2, FlowFields DEF ThirdDup
        <4>2. f.dupack_cnt + 1 \in 0..2  BY <4>1
        <4>3. acked_ = g  BY <1>0, <3>2
        <4>4. g \in FlowState /\ g.tx_avail = f.tx_avail /\ g.tx_sent = f.tx_sent
              /\ g.rx_avail = f.rx_avail /\ g.rx_next_seq = f.rx_next_seq
          BY <1>0, <4>2 DEF FlowState
        <4>5. f.tx_avail + f.tx_sent = f.tx_avail + f.tx_sent - b
          BY <1>0, <3>2
        <4> HIDE DEF acked_, g
        <4> QED  BY <4>3, <4>4, <4>5
      <3>3. CASE b = 0 /\ ~dup
        <4>1. acked_ = f  BY <3>3
        <4>2. f.tx_avail + f.tx_sent = f.tx_avail + f.tx_sent - b
          BY <1>0, <3>3
        <4> HIDE DEF acked_
        <4> QED  BY <1>0, <4>1, <4>2
      <3> QED  BY <3>1, <3>2, <3>3
    <2>2. "DMA_ACDESC" \notin flags => b = 0  BY DEF AckFlags
    <2>3. /\ fresh \in FlowState
          /\ fresh.tx_avail = acked_.tx_avail /\ fresh.tx_sent = acked_.tx_sent
          /\ fresh.rx_avail = acked_.rx_avail
          /\ fresh.rx_next_seq = acked_.rx_next_seq
      <3> HIDE DEF acked_
      <3> QED  BY <1>p, <2>1 DEF FlowState
    <2>4. /\ TakeFin(fresh) \in FlowState
          /\ TakeFin(fresh).tx_avail = fresh.tx_avail
          /\ TakeFin(fresh).tx_sent = fresh.tx_sent
          /\ TakeFin(fresh).rx_avail = fresh.rx_avail
      <3> HIDE DEF fresh
      <3>1. fresh.rx_next_seq \in Word /\ 1 \in Word
        BY <2>3, FlowFields, WordNat, WordModNat
      <3>2. Add(fresh.rx_next_seq, 1) \in Word  BY <3>1, WordAdd
      <3> QED  BY <2>3, <3>2 DEF FlowState, TakeFin
    <2>5. FlowsAck(f, pkt) =
            IF pkt.seq # f.rx_next_seq
            THEN Finalize(f, acked_, flags \cup {"TX"}, 0, b, NoDma)
            ELSE IF fin
            THEN Finalize(f, TakeFin(fresh), flags \cup {"FIN", "TX", "DMA_ACDESC"},
                          0, b, NoDma)
            ELSE Finalize(f, fresh, flags, 0, b, NoDma)
      BY <1>3 DEF FlowsAck
    <2> HIDE DEF acked_, fresh, flags, b
    <2>6. f.rx_avail = f.rx_avail - 0 /\ 0 <= f.rx_avail  BY <1>0
    <2>f. /\ fresh.tx_avail + fresh.tx_sent = f.tx_avail + f.tx_sent - b
          /\ fresh.rx_avail = f.rx_avail - 0
      BY <2>1, <2>3, <2>6
    <2>t. /\ TakeFin(fresh).tx_avail + TakeFin(fresh).tx_sent
                = f.tx_avail + f.tx_sent - b
          /\ TakeFin(fresh).rx_avail = f.rx_avail - 0
      BY <2>4, <2>f
    <2>u. /\ "DMA_ACDESC" \notin flags => b = 0 /\ 0 = 0
          /\ "DMA_ACDESC" \in flags \cup {"FIN", "TX", "DMA_ACDESC"}
      BY <2>2
    <2>7. RxGood(f, Finalize(f, acked_, flags \cup {"TX"}, 0, b, NoDma))
      BY <1>0, <1>b, <1>d, <2>1, <2>2, <2>6, FinalizeGood
    <2>8. RxGood(f, Finalize(f, TakeFin(fresh),
                             flags \cup {"FIN", "TX", "DMA_ACDESC"}, 0, b, NoDma))
      BY <1>b, <1>d, <2>4, <2>6, <2>t, <2>u, FinalizeGood
    <2>9. RxGood(f, Finalize(f, fresh, flags, 0, b, NoDma))
      BY <1>b, <1>d, <2>3, <2>6, <2>f, <2>u, FinalizeGood
    <2> QED  BY <2>5, <2>7, <2>8, <2>9
  <1> QED  BY <1>1, <1>2, <1>3

-----------------------------------------------------------------------------
(* Payload.                                                                *)

(* What tcp_trim_rxbuf leaves is part of the segment, and when it starts   *)
(* at the next expected byte it fits the free part of the buffer.          *)
LEMMA TrimGood ==
  ASSUME NEW f \in FlowState, NEW seq \in Word, NEW len \in Word
  PROVE  LET t == Trim(f, seq, len)
         IN  ~t.drop =>
               /\ t.front \in Word /\ t.back \in Word
               /\ t.front + t.back <= len
               /\ Add(seq, t.front) = f.rx_next_seq =>
                    len - (t.front + t.back) <= f.rx_avail
  <1> DEFINE old == Sub(f.rx_next_seq, seq)  ahead == Sub(seq, f.rx_next_seq)
             t == Trim(f, seq, len)
  <1>0. f.rx_next_seq \in Word /\ f.rx_avail \in Word  BY FlowFields
  <1>1. old \in Word /\ ahead \in Word  BY <1>0, WordSub
  <1>n. /\ old \in Nat /\ ahead \in Nat /\ len \in Nat /\ len < WordMod
        /\ f.rx_avail \in Nat /\ WordMod \in Nat
    BY <1>0, <1>1, WordNat, WordModNat
  <1>2. CASE old <= len
    <2>1. /\ t.front = old
          /\ t.back = IF len - old <= f.rx_avail THEN 0 ELSE len - old - f.rx_avail
      BY <1>2 DEF Trim
    <2>2. /\ t.back \in Nat /\ t.back < WordMod /\ t.front + t.back <= len
          /\ len - (t.front + t.back) <= f.rx_avail
      <3> HIDE DEF t, old
      <3> QED  BY <1>n, <1>2, <2>1
    <2> QED  BY <1>1, <2>1, <2>2, WordNat
  <1>3. CASE ~(old <= len)
    <2>1. /\ t.front = 0 /\ (~t.drop => ~(ahead >= f.rx_avail))
          /\ t.back = IF f.rx_avail - ahead >= len THEN 0
                      ELSE len - (f.rx_avail - ahead)
      BY <1>3 DEF Trim
    <2>2. 0 \in Word  BY WordNat, WordModNat
    <2>3. Add(seq, 0) = seq  BY <2>2, WordAdd, WordNat
    <2>4. seq # f.rx_next_seq
      <3>1. seq = f.rx_next_seq => old = 0  BY <1>0, WordSub, WordNat
      <3> HIDE DEF old
      <3> QED  BY <3>1, <1>3, <1>n
    <2>5. ~t.drop => t.back \in Nat /\ t.back < WordMod /\ t.front + t.back <= len
      <3> HIDE DEF t, ahead
      <3>1. SUFFICES ASSUME ~t.drop
                     PROVE  t.back \in Nat /\ t.back < WordMod /\ t.back <= len
        BY <2>1, <3>1
      <3> QED  BY <1>n, <2>1, <3>1
    <2>6. Add(seq, t.front) # f.rx_next_seq  BY <2>1, <2>3, <2>4
    <2> QED  BY <2>1, <2>2, <2>5, <2>6, WordNat
  <1> QED  BY <1>2, <1>3

LEMMA AdvanceGood ==
  ASSUME NEW f \in FlowState, NEW n \in Word, n <= f.rx_avail
  PROVE  LET g == Advance(f, n)
         IN  /\ g \in FlowState /\ g.rx_avail = f.rx_avail - n
             /\ g.tx_avail = f.tx_avail /\ g.tx_sent = f.tx_sent
             /\ g.rx_ooo_len = f.rx_ooo_len /\ g.rx_ooo_start = f.rx_ooo_start
  <1>0. /\ f.rx_avail \in Word /\ f.rx_next_seq \in Word /\ f.rx_next_pos \in Word
    BY FlowFields
  <1>1. /\ Sub(f.rx_avail, n) \in Word /\ Sub(f.rx_avail, n) = f.rx_avail - n
        /\ Add(f.rx_next_seq, n) \in Word /\ Add(f.rx_next_pos, n) \in Word
    BY <1>0, WordAdd, WordSub
  <1> QED  BY <1>1 DEF Advance, FlowState

(* The bytes of the out-of-order interval that become in order fit.        *)
LEMMA TrimOooGood ==
  ASSUME NEW f \in FlowState
  PROVE  LET g == TrimOoo(f)
         IN  /\ g \in FlowState /\ g.rx_avail = f.rx_avail
             /\ g.tx_avail = f.tx_avail /\ g.tx_sent = f.tx_sent
             /\ Joins(g) \in Word /\ Joins(g) <= g.rx_avail
  <1> DEFINE t == Trim(f, f.rx_ooo_start, f.rx_ooo_len)  g == TrimOoo(f)
  <1>0. /\ f.rx_ooo_start \in Word /\ f.rx_ooo_len \in Word /\ f.rx_avail \in Word
        /\ f.rx_avail \in Nat /\ f.rx_ooo_len \in Nat
    BY FlowFields, WordNat
  <1>z. 0 \in Word  BY WordNat, WordModNat
  <1>1. CASE f.rx_ooo_len = 0
    <2>1. g = f  BY <1>1 DEF TrimOoo
    <2>2. Joins(f) = 0  BY <1>1 DEF Joins
    <2> QED  BY <1>0, <1>z, <2>1, <2>2
  <1>2. CASE f.rx_ooo_len # 0 /\ t.drop
    <2>1. g = [f EXCEPT !.rx_ooo_len = 0]  BY <1>2 DEF TrimOoo
    <2>2. /\ g \in FlowState /\ g.rx_avail = f.rx_avail /\ g.rx_ooo_len = 0
          /\ g.tx_avail = f.tx_avail /\ g.tx_sent = f.tx_sent
      BY <1>z, <2>1 DEF FlowState
    <2>3. Joins(g) = 0  BY <2>2 DEF Joins
    <2> QED  BY <1>0, <1>z, <2>2, <2>3
  <1>3. CASE f.rx_ooo_len # 0 /\ ~t.drop
    <2> DEFINE n == Sub(Sub(f.rx_ooo_len, t.front), t.back)
               st == Add(f.rx_ooo_start, t.front)
    <2>1. /\ t.front \in Word /\ t.back \in Word
          /\ t.front + t.back <= f.rx_ooo_len
          /\ st = f.rx_next_seq => f.rx_ooo_len - (t.front + t.back) <= f.rx_avail
      BY <1>0, <1>3, TrimGood
    <2>2. st \in Word  BY <1>0, <2>1, WordAdd
    <2> HIDE DEF t, st
    <2>3. t.front \in Nat /\ t.back \in Nat  BY <2>1, WordNat
    <2>4. /\ Sub(f.rx_ooo_len, t.front) \in Word
          /\ Sub(f.rx_ooo_len, t.front) = f.rx_ooo_len - t.front
      BY <1>0, <2>1, <2>3, WordSub
    <2>5. n \in Word /\ n = f.rx_ooo_len - t.front - t.back
      BY <1>0, <2>1, <2>3, <2>4, WordSub
    <2>6. n = f.rx_ooo_len - (t.front + t.back)  BY <1>0, <2>3, <2>5
    <2>7. g = [f EXCEPT !.rx_ooo_start = st, !.rx_ooo_len = n]
      BY <1>3 DEF TrimOoo, t, st
    <2> HIDE DEF n, g
    <2>8. /\ g \in FlowState /\ g.rx_avail = f.rx_avail /\ g.rx_ooo_len = n
          /\ g.rx_ooo_start = st /\ g.rx_next_seq = f.rx_next_seq
          /\ g.tx_avail = f.tx_avail /\ g.tx_sent = f.tx_sent
      BY <2>2, <2>5, <2>7 DEF FlowState
    <2>9. Joins(g) \in Word /\ Joins(g) <= f.rx_avail
      BY <1>0, <1>z, <2>1, <2>5, <2>6, <2>8 DEF Joins
    <2> QED  BY <2>8, <2>9 DEF g
  <1> QED  BY <1>1, <1>2, <1>3

LEMMA JoinOooGood ==
  ASSUME NEW f \in FlowState, Joins(f) \in Word, Joins(f) <= f.rx_avail
  PROVE  LET g == JoinOoo(f)
         IN  /\ g \in FlowState /\ g.rx_avail = f.rx_avail - Joins(f)
             /\ g.tx_avail = f.tx_avail /\ g.tx_sent = f.tx_sent
  <1>0. f.rx_avail \in Nat  BY FlowFields, WordNat
  <1>1. CASE Joins(f) = 0
    BY <1>0, <1>1 DEF JoinOoo
  <1>2. CASE Joins(f) # 0
    <2> DEFINE a == Advance(f, Joins(f))
    <2>1. /\ a \in FlowState /\ a.rx_avail = f.rx_avail - Joins(f)
          /\ a.tx_avail = f.tx_avail /\ a.tx_sent = f.tx_sent
      BY AdvanceGood
    <2>2. JoinOoo(f) = [a EXCEPT !.rx_ooo_len = 0]  BY <1>2 DEF JoinOoo
    <2> HIDE DEF a
    <2>3. 0 \in Word  BY WordNat, WordModNat
    <2> QED  BY <2>1, <2>2, <2>3 DEF FlowState
  <1> QED  BY <1>1, <1>2

LEMMA StoreOooGood ==
  ASSUME NEW f \in FlowState, NEW seq \in Word, NEW len \in Word
  PROVE  LET g == StoreOoo(f, seq, len)
         IN  /\ g \in FlowState /\ g.rx_avail = f.rx_avail
             /\ g.tx_avail = f.tx_avail /\ g.tx_sent = f.tx_sent
  <1>1. Add(f.rx_ooo_len, len) \in Word  BY FlowFields, WordAdd
  <1> QED  BY <1>1 DEF StoreOoo, FlowState

LEMMA TakeFinGood ==
  ASSUME NEW f \in FlowState
  PROVE  LET g == TakeFin(f)
         IN  /\ g \in FlowState /\ g.rx_avail = f.rx_avail
             /\ g.tx_avail = f.tx_avail /\ g.tx_sent = f.tx_sent
  <1>1. f.rx_next_seq \in Word /\ 1 \in Word
    BY FlowFields, WordNat, WordModNat
  <1>2. Add(f.rx_next_seq, 1) \in Word  BY <1>1, WordAdd
  <1> QED  BY <1>2 DEF TakeFin, FlowState

(* The two outcomes of flows_seg, from the state a that the segment's      *)
(* acknowledgement of b bytes left.                                        *)
Acked(f, a, b) ==
  /\ a \in FlowState /\ b \in Nat /\ b <= f.tx_avail + f.tx_sent
  /\ a.tx_avail + a.tx_sent = f.tx_avail + f.tx_sent - b
  /\ a.rx_avail = f.rx_avail

LEMMA SegOutOfOrderGood ==
  ASSUME NEW f, Sane(f), NEW a, NEW b, Acked(f, a, b),
         NEW fl, "DMA_ACDESC" \notin fl => b = 0,
         NEW seq \in Word, NEW front \in Word, NEW len \in Word
  PROVE  RxGood(f, SegOutOfOrder(f, a, fl, b, seq, front, len))
  <1>0. f.rx_avail \in Nat /\ f.rx_avail = f.rx_avail - 0 /\ 0 <= f.rx_avail
    BY FlowFields, WordNat DEF Sane
  <1>1. CASE len # 0 /\ (OooFront(f, seq, len) \/ OooBack(f, seq))
    <2> DEFINE g == StoreOoo(a, seq, len)  fp == fl \cup {"DMA_PAYLOAD"}
               d == [pos |-> Add(f.rx_next_pos, Sub(seq, f.rx_next_seq)),
                     off |-> front, len |-> len]
    <2>1. /\ g \in FlowState /\ g.rx_avail = f.rx_avail - 0
          /\ g.tx_avail + g.tx_sent = f.tx_avail + f.tx_sent - b
      BY <1>0, StoreOooGood DEF Acked
    <2>2. d.off \in Nat /\ d.pos \in Int
      <3>1. Add(f.rx_next_pos, Sub(seq, f.rx_next_seq)) \in Word
        BY FlowFields, WordAdd, WordSub DEF Sane
      <3> QED  BY <3>1, WordNat
    <2>3. "DMA_ACDESC" \notin fp => b = 0 /\ 0 = 0  OBVIOUS
    <2>4. SegOutOfOrder(f, a, fl, b, seq, front, len) = Finalize(f, g, fp, 0, b, d)
      BY <1>1 DEF SegOutOfOrder
    <2> HIDE DEF g, d, fp
    <2>5. RxGood(f, Finalize(f, g, fp, 0, b, d))
      BY <1>0, <2>1, <2>2, <2>3, FinalizeGood DEF Acked
    <2> QED  BY <2>4, <2>5
  <1>2. CASE ~(len # 0 /\ (OooFront(f, seq, len) \/ OooBack(f, seq)))
    <2>1. SegOutOfOrder(f, a, fl, b, seq, front, len) = Finalize(f, a, fl, 0, b, NoDma)
      BY <1>2 DEF SegOutOfOrder
    <2>2. NoDma.off \in Nat /\ NoDma.pos \in Int  BY DEF NoDma
    <2>3. RxGood(f, Finalize(f, a, fl, 0, b, NoDma))
      BY <1>0, <2>2, FinalizeGood DEF Acked
    <2> QED  BY <2>1, <2>3
  <1> QED  BY <1>1, <1>2

LEMMA SegInOrderGood ==
  ASSUME NEW f, Sane(f), NEW a, NEW b, Acked(f, a, b),
         NEW fl, "DMA_ACDESC" \notin fl => b = 0,
         NEW pkt \in PacketType, NEW front \in Word,
         NEW len \in Word, len <= f.rx_avail
  PROVE  RxGood(f, SegInOrder(f, a, fl, b, pkt, front, len))
  <1> DEFINE fresh   == [a EXCEPT !.tx_remote_avail = pkt.win]
             adv     == Advance(fresh, len)
             trimmed == TrimOoo(adv)
             joined  == IF len = 0 THEN fresh ELSE JoinOoo(trimmed)
             rb      == IF len = 0 THEN 0 ELSE len + Joins(trimmed)
             moved   == IF len = 0 THEN fl ELSE fl \cup {"DMA_PAYLOAD", "DMA_ACDESC"}
             dma     == IF len = 0 THEN NoDma
                        ELSE [pos |-> f.rx_next_pos, off |-> front, len |-> len]
             fin     == pkt.fin /\ ~f.rxfin /\ FinInOrder(joined, pkt)
  <1>0. /\ f.rx_avail \in Nat /\ f.rx_avail = f.rx_avail - 0 /\ 0 <= f.rx_avail
        /\ len \in Nat /\ a.rx_avail = f.rx_avail /\ a \in FlowState
        /\ b \in Nat /\ b <= f.tx_avail + f.tx_sent
        /\ a.tx_avail + a.tx_sent = f.tx_avail + f.tx_sent - b
    BY FlowFields, WordNat DEF Sane, Acked
  <1>1. /\ fresh \in FlowState /\ fresh.rx_avail = f.rx_avail
        /\ fresh.tx_avail = a.tx_avail /\ fresh.tx_sent = a.tx_sent
    BY <1>0 DEF FlowState, PacketType
  <1> HIDE DEF fresh
  <1>2. /\ adv \in FlowState /\ adv.rx_avail = f.rx_avail - len
        /\ adv.tx_avail = a.tx_avail /\ adv.tx_sent = a.tx_sent
    BY <1>1, AdvanceGood
  <1> HIDE DEF adv
  <1>3. /\ trimmed \in FlowState /\ trimmed.rx_avail = f.rx_avail - len
        /\ trimmed.tx_avail = a.tx_avail /\ trimmed.tx_sent = a.tx_sent
        /\ Joins(trimmed) \in Word /\ Joins(trimmed) <= trimmed.rx_avail
    BY <1>2, TrimOooGood
  <1> HIDE DEF trimmed
  <1>4. Joins(trimmed) \in Nat  BY <1>3, WordNat
  <1>5. LET g == JoinOoo(trimmed)
        IN  /\ g \in FlowState /\ g.rx_avail = f.rx_avail - len - Joins(trimmed)
            /\ g.tx_avail = a.tx_avail /\ g.tx_sent = a.tx_sent
    BY <1>3, JoinOooGood
  <1>6. /\ joined \in FlowState /\ rb \in Nat /\ rb <= f.rx_avail
        /\ joined.rx_avail = f.rx_avail - rb
        /\ joined.tx_avail = a.tx_avail /\ joined.tx_sent = a.tx_sent
    <2>1. CASE len = 0  BY <1>0, <1>1, <2>1
    <2>2. CASE len # 0
      <3>1. f.rx_avail - len - Joins(trimmed) = f.rx_avail - (len + Joins(trimmed))
        BY <1>0, <1>4
      <3>2. len + Joins(trimmed) \in Nat /\ len + Joins(trimmed) <= f.rx_avail
        BY <1>0, <1>3, <1>4
      <3> QED  BY <1>5, <2>2, <3>1, <3>2
    <2> QED  BY <2>1, <2>2
  <1>7. /\ dma.off \in Nat /\ dma.pos \in Int
        /\ NoDma.off \in Nat /\ NoDma.pos \in Int
    BY FlowFields, WordNat DEF NoDma, Sane
  <1>8. "DMA_ACDESC" \notin moved => b = 0 /\ rb = 0  OBVIOUS
  <1>9. SegInOrder(f, a, fl, b, pkt, front, len) =
          IF f.rxfin /\ len # 0 THEN Finalize(f, fresh, fl, 0, b, NoDma)
          ELSE IF fin
          THEN Finalize(f, TakeFin(joined), moved \cup {"FIN", "DMA_ACDESC"}, rb, b, dma)
          ELSE Finalize(f, joined, moved, rb, b, dma)
    BY DEF SegInOrder, fresh, adv, trimmed
  <1> HIDE DEF joined, rb, moved, dma
  <1>10. /\ TakeFin(joined) \in FlowState
         /\ TakeFin(joined).rx_avail = f.rx_avail - rb
         /\ TakeFin(joined).tx_avail + TakeFin(joined).tx_sent
              = f.tx_avail + f.tx_sent - b
    BY <1>0, <1>6, TakeFinGood
  <1>11. joined.tx_avail + joined.tx_sent = f.tx_avail + f.tx_sent - b
         /\ fresh.tx_avail + fresh.tx_sent = f.tx_avail + f.tx_sent - b
         /\ fresh.rx_avail = f.rx_avail - 0
    BY <1>0, <1>1, <1>6
  <1>12. RxGood(f, Finalize(f, fresh, fl, 0, b, NoDma))
    BY <1>0, <1>1, <1>7, <1>11, FinalizeGood
  <1>13. RxGood(f, Finalize(f, TakeFin(joined), moved \cup {"FIN", "DMA_ACDESC"},
                            rb, b, dma))
    BY <1>0, <1>6, <1>7, <1>10, FinalizeGood
  <1>14. RxGood(f, Finalize(f, joined, moved, rb, b, dma))
    BY <1>0, <1>6, <1>7, <1>8, <1>11, FinalizeGood
  <1> QED  BY <1>9, <1>12, <1>13, <1>14

LEMMA FlowsSegGood ==
  ASSUME NEW f, Sane(f), NEW pkt \in PacketType
  PROVE  RxGood(f, FlowsSeg(f, pkt))
  <1> DEFINE t     == Trim(f, pkt.seq, pkt.plen)
             b     == AckBump(f, pkt.ack)
             a     == IF b # 0 THEN AckBytes(f, b) ELSE f
             flags == {"TX"} \cup AckFlags(a, b)
             len   == pkt.plen - (t.front + t.back)
             seq   == Add(pkt.seq, t.front)
  <1>0. /\ f \in FlowState /\ f.tx_avail \in Nat /\ f.tx_sent \in Nat
        /\ f.rx_avail \in Nat
    BY FlowFields, WordNat DEF Sane
  <1>p. pkt.ack \in Word /\ pkt.seq \in Word /\ pkt.plen \in Word
    BY DEF PacketType
  <1>1. Acked(f, a, b)  BY <1>p, AckedGood DEF Acked
  <1>2. "DMA_ACDESC" \notin flags => b = 0  BY DEF AckFlags
  <1>3. FlowsSeg(f, pkt) =
          IF t.drop THEN Finalize(f, f, {"TX"}, 0, 0, NoDma)
          ELSE IF seq # f.rx_next_seq
          THEN SegOutOfOrder(f, a, flags, b, seq, t.front, len)
          ELSE SegInOrder(f, a, flags, b, pkt, t.front, len)
    BY DEF FlowsSeg
  <1>4. CASE t.drop
    <2>1. /\ f.tx_avail + f.tx_sent = f.tx_avail + f.tx_sent - 0
          /\ f.rx_avail = f.rx_avail - 0
          /\ 0 <= f.tx_avail + f.tx_sent /\ 0 <= f.rx_avail
      BY <1>0
    <2>2. NoDma.off \in Nat /\ NoDma.pos \in Int  BY DEF NoDma
    <2>3. RxGood(f, Finalize(f, f, {"TX"}, 0, 0, NoDma))
      BY <1>0, <2>1, <2>2, FinalizeGood
    <2> QED  BY <1>3, <1>4, <2>3
  <1>5. CASE ~t.drop
    <2>1. /\ t.front \in Word /\ t.back \in Word
          /\ t.front + t.back <= pkt.plen
          /\ seq = f.rx_next_seq => len <= f.rx_avail
      BY <1>0, <1>p, <1>5, TrimGood
    <2>2. seq \in Word  BY <1>p, <2>1, WordAdd
    <2> HIDE DEF t, seq
    <2>3. /\ t.front \in Nat /\ t.back \in Nat
          /\ pkt.plen \in Nat /\ pkt.plen < WordMod
      BY <1>p, <2>1, WordNat
    <2>4. len \in Nat /\ len < WordMod  BY <2>1, <2>3, WordModNat
    <2>5. len \in Word  BY <2>4, WordNat
    <2> HIDE DEF a, b, flags, len
    <2>6. CASE seq # f.rx_next_seq
      BY <1>1, <1>2, <1>3, <1>5, <2>1, <2>2, <2>5, <2>6, SegOutOfOrderGood
    <2>7. CASE seq = f.rx_next_seq
      BY <1>1, <1>2, <1>3, <1>5, <2>1, <2>5, <2>7, SegInOrderGood
    <2> QED  BY <2>6, <2>7
  <1> QED  BY <1>4, <1>5

LEMMA FlowsRxGood ==
  ASSUME NEW f, Sane(f), NEW pkt \in PacketType
  PROVE  RxGood(f, FlowsRx(f, pkt))
  BY FlowsAckGood, FlowsSegGood DEF FlowsRx

-----------------------------------------------------------------------------
(* The accounting invariant.  TypeOK alone is not inductive: that the      *)
(* words stay small enough not to wrap follows from the accounts on both   *)
(* sides agreeing.                                                         *)
Accounts ==
  /\ TypeOK
  /\ TxAccounting /\ RxAccounting
  /\ acked <= written /\ written - acked <= TxLen
  /\ read <= delivered /\ delivered - read <= RxLen

LEMMA AccountsSane == Accounts => Sane(fs)
  <1> SUFFICES ASSUME Accounts PROVE Sane(fs)  OBVIOUS
  <1>1. /\ fs \in FlowState /\ written \in Nat /\ acked \in Nat
        /\ delivered \in Nat /\ read \in Nat
    BY DEF Accounts, TypeOK
  <1> QED  BY <1>1, WordModNat DEF Accounts, TxAccounting, RxAccounting, Sane

LEMMA InitAccounts == Init => Accounts
  <1> SUFFICES ASSUME Init PROVE Accounts  OBVIOUS
  <1>1. /\ 0 \in Word /\ RxLen \in Word /\ 0 \in 0..2
        /\ Isn \in Word /\ PeerIsn \in Word /\ AppBytes \in Nat
    BY WordNat, WordModNat, FlowProtoAssumption
  <1>2. /\ fs \in FlowState /\ fs.tx_avail = 0 /\ fs.tx_sent = 0
        /\ fs.rx_avail = RxLen
    BY <1>1 DEF Init, NewFlow, FlowState
  <1>3. TypeOK
    <2>1. 0 \in 0..AppBytes /\ 0 \in Nat /\ FALSE \in BOOLEAN  BY <1>1
    <2>2. rxbuf \in [0..(RxLen - 1) -> Nat \cup {Empty}]  BY DEF Init
    <2> QED  BY <1>2, <2>1, <2>2 DEF Init, TypeOK
  <1> QED
    BY <1>2, <1>3, WordModNat DEF Init, Accounts, TxAccounting, RxAccounting

LEMMA ReceiveAccounts ==
  ASSUME Accounts, NEW from \in Nat, NEW plen \in Word, NEW fin \in BOOLEAN,
         NEW ack \in 0..sndMax, NEW win \in Windows,
         Receive(from, plen, fin, ack, win)
  PROVE  Accounts'
  <1> DEFINE pkt == Packet(from, plen, fin, ack, win)  r == FlowsRx(fs, pkt)
  <1>t. /\ fs \in FlowState /\ written \in 0..AppBytes /\ acked \in 0..AppBytes
        /\ sndMax \in 0..AppBytes /\ peerAck \in 0..AppBytes
        /\ delivered \in Nat /\ read \in Nat /\ eof \in BOOLEAN
        /\ rxbuf \in [0..(RxLen - 1) -> Nat \cup {Empty}]
        /\ AppBytes \in Nat
    BY FlowProtoAssumption DEF Accounts, TypeOK
  <1>0. pkt \in PacketType
    <2>1. /\ PeerIsn \in Int /\ Isn \in Int /\ from \in Int /\ ack \in Int
          /\ win \in Word
      BY <1>t, FlowProtoAssumption, WordNat
    <2>2. Add(PeerIsn, from) \in Word /\ Add(Isn, ack) \in Word
      BY <2>1, WordModNat DEF Add, Word
    <2> QED  BY <2>1, <2>2 DEF Packet, PacketType
  <1>1. RxGood(fs, r)  BY <1>0, AccountsSane, FlowsRxGood
  <1>2. /\ fs' = r.fs /\ PlacePayload(r.res, from) /\ Notify(r.res)
        /\ peerAck' = IF peerAck < ack THEN ack ELSE peerAck
        /\ written' = written /\ sndMax' = sndMax /\ read' = read
    BY DEF Receive
  <1> HIDE DEF r, pkt
  <1>n. /\ fs.tx_avail \in Nat /\ fs.tx_sent \in Nat /\ fs.rx_avail \in Nat
    BY <1>t, FlowFields, WordNat
  <1>3. /\ acked' = acked + r.res.tx_bump
        /\ delivered' = delivered + r.res.rx_bump
    BY <1>1, <1>2, <1>t DEF Notify, RxGood
  <1>4. eof' \in BOOLEAN  BY <1>2, <1>t DEF Notify
  <1>5. rxbuf' \in [0..(RxLen - 1) -> Nat \cup {Empty}]
    <2>1. CASE "DMA_PAYLOAD" \notin r.res.flags
      BY <1>2, <1>t, <2>1 DEF PlacePayload
    <2>2. CASE "DMA_PAYLOAD" \in r.res.flags
      <3>1. r.res.dma.off \in Nat  BY <1>1, <2>2 DEF RxGood
      <3> DEFINE at(p) == (p - r.res.dma.pos) % RxLen
                 val(p) == IF at(p) < r.res.dma.len
                           THEN from + r.res.dma.off + at(p) ELSE rxbuf[p]
      <3>2. rxbuf' = [p \in 0..(RxLen - 1) |-> val(p)]
        BY <1>2, <2>2 DEF PlacePayload
      <3>3. ASSUME NEW p \in 0..(RxLen - 1)
            PROVE  val(p) \in Nat \cup {Empty}
        <4>1. r.res.dma.pos \in Int
          <5> QED  BY <1>1, <2>2 DEF RxGood
        <4>2. at(p) \in Nat  BY <4>1, WordModNat
        <4>3. rxbuf[p] \in Nat \cup {Empty}  BY <1>t
        <4> HIDE DEF at
        <4>4. from + r.res.dma.off + at(p) \in Nat  BY <3>1, <4>2
        <4> QED  BY <4>3, <4>4
      <3> HIDE DEF val
      <3> QED  BY <3>2, <3>3
    <2> QED  BY <2>1, <2>2
  <1>6. /\ fs' \in FlowState
        /\ fs'.tx_avail + fs'.tx_sent = written - acked'
        /\ fs'.rx_avail = RxLen - (delivered' - read)
        /\ acked' \in Nat /\ acked' <= written
        /\ acked <= acked'
        /\ delivered' \in Nat /\ delivered' - read <= RxLen /\ read <= delivered'
    <2> DEFINE tb == r.res.tx_bump  rb == r.res.rx_bump
    <2>1. /\ tb \in Nat /\ rb \in Nat
          /\ tb <= fs.tx_avail + fs.tx_sent /\ rb <= fs.rx_avail
          /\ r.fs \in FlowState
          /\ r.fs.tx_avail + r.fs.tx_sent = fs.tx_avail + fs.tx_sent - tb
          /\ r.fs.rx_avail = fs.rx_avail - rb
      BY <1>1 DEF RxGood
    <2>2. /\ fs.tx_avail + fs.tx_sent = written - acked
          /\ fs.rx_avail = RxLen - (delivered - read)
          /\ read <= delivered
      BY DEF Accounts, TxAccounting, RxAccounting
    <2>3. /\ acked' = acked + tb /\ delivered' = delivered + rb
      BY <1>3
    <2>a. fs' = r.fs  BY <1>2
    <2>4. /\ fs' \in FlowState
          /\ fs'.tx_avail + fs'.tx_sent = written - acked - tb
          /\ fs'.rx_avail = RxLen - (delivered - read) - rb
      <3> HIDE DEF tb, rb
      <3>1. r.fs.tx_avail + r.fs.tx_sent = written - acked - tb
        <4> DEFINE s == fs.tx_avail + fs.tx_sent
        <4>1. s = written - acked  BY <2>2
        <4>2. r.fs.tx_avail + r.fs.tx_sent = s - tb
          <5>1. fs.tx_avail \in Nat /\ fs.tx_sent \in Nat  BY <1>n
          <5> QED  BY <2>1, <5>1
        <4> HIDE DEF s
        <4> QED  BY <4>1, <4>2
      <3>2. r.fs.rx_avail = RxLen - (delivered - read) - rb
        BY <2>1, <2>2
      <3> QED  BY <2>1, <2>a, <3>1, <3>2, Zenon
    <2>5. /\ written \in Nat /\ acked \in Nat /\ delivered \in Nat /\ read \in Nat
          /\ tb <= written - acked /\ rb <= RxLen - (delivered - read)
      BY <1>t, <2>1, <2>2
    <2> HIDE DEF tb, rb
    <2>6. /\ written - acked - tb = written - acked'
          /\ RxLen - (delivered - read) - rb = RxLen - (delivered' - read)
          /\ acked' \in Nat /\ acked' <= written /\ acked <= acked'
          /\ delivered' \in Nat /\ delivered' - read <= RxLen /\ read <= delivered'
      BY <2>1, <2>2, <2>3, <2>5, WordModNat
    <2> QED  BY <2>4, <2>6
  <1>7. written - acked' <= TxLen /\ acked' \in 0..AppBytes /\ peerAck' \in 0..AppBytes
    <2>1. written - acked <= TxLen  BY DEF Accounts
    <2>2. written \in Nat /\ acked \in Nat /\ written <= AppBytes  BY <1>t
    <2>3. written - acked' <= TxLen /\ acked' \in 0..AppBytes
      <3>1. acked' \in Nat /\ acked' <= written /\ acked <= acked'  BY <1>6
      <3>2. ASSUME NEW a \in Nat, a <= written, acked <= a
            PROVE  written - a <= TxLen /\ a \in 0..AppBytes
        BY <1>t, <2>1, <2>2, <3>2, WordModNat
      <3> QED  BY <3>1, <3>2
    <2>4. peerAck' \in 0..AppBytes  BY <1>2, <1>t
    <2> QED  BY <2>3, <2>4
  <1> QED
    BY <1>2, <1>4, <1>5, <1>6, <1>7, <1>t
       DEF Accounts, TypeOK, TxAccounting, RxAccounting

LEMMA TransmitAccounts ==
  ASSUME Accounts, NEW force \in BOOLEAN, Transmit(force)
  PROVE  Accounts'
  <1> DEFINE g == FlowsTx(fs, force).fs
  <1>t. /\ fs \in FlowState /\ written \in 0..AppBytes /\ acked \in 0..AppBytes
        /\ sndMax \in 0..AppBytes /\ AppBytes \in Nat
    BY FlowProtoAssumption DEF Accounts, TypeOK
  <1>1. /\ g \in FlowState /\ g.tx_avail + g.tx_sent = fs.tx_avail + fs.tx_sent
        /\ g.rx_avail = fs.rx_avail
    BY AccountsSane, FlowsTxGood
  <1>2. /\ fs' = g
        /\ sndMax' = IF sndMax < acked + g.tx_sent THEN acked + g.tx_sent ELSE sndMax
        /\ UNCHANGED <<written, acked, peerAck, delivered, read, eof, rxbuf>>
    BY DEF Transmit
  <1> HIDE DEF g
  <1>3. sndMax' \in 0..AppBytes
    <2>1. g.tx_avail \in Nat /\ g.tx_sent \in Nat  BY <1>1, FlowFields, WordNat
    <2>2. g.tx_avail + g.tx_sent = written - acked
      BY <1>1 DEF Accounts, TxAccounting
    <2>3. acked + g.tx_sent \in 0..AppBytes  BY <1>t, <2>1, <2>2
    <2> QED  BY <1>2, <1>t, <2>3
  <1> QED
    BY <1>1, <1>2, <1>3 DEF Accounts, TypeOK, TxAccounting, RxAccounting

LEMMA RetransmitAccounts ==
  ASSUME Accounts, Retransmit
  PROVE  Accounts'
  <1> DEFINE g == ResetRetransmit(fs)
  <1>1. /\ g \in FlowState /\ g.tx_avail + g.tx_sent = fs.tx_avail + fs.tx_sent
        /\ g.rx_avail = fs.rx_avail
    BY AccountsSane, ResetGood
  <1>2. /\ fs' = g
        /\ UNCHANGED <<written, acked, sndMax, peerAck, delivered, read, eof, rxbuf>>
    BY FinalizeFs DEF Retransmit, FlowsRetx, txVars
  <1> HIDE DEF g
  <1> QED  BY <1>1, <1>2 DEF Accounts, TypeOK, TxAccounting, RxAccounting

LEMMA AppAccounts ==
  ASSUME Accounts, NEW rb \in 0..(delivered - read),
         NEW tb \in 0..(TxLen - (written - acked)),
         written + tb <= AppBytes, AppBump(rb, tb)
  PROVE  Accounts'
  <1> DEFINE g == FlowsAc(fs, rb, tb, FALSE).fs
  <1>t. /\ fs \in FlowState /\ written \in Nat /\ acked \in Nat
        /\ delivered \in Nat /\ read \in Nat /\ AppBytes \in Nat
    BY FlowProtoAssumption DEF Accounts, TypeOK
  <1>n. /\ fs.tx_avail \in Nat /\ fs.tx_sent \in Nat /\ fs.rx_avail \in Nat
    BY <1>t, FlowFields, WordNat
  <1>a. /\ fs.tx_avail + fs.tx_sent = written - acked
        /\ fs.rx_avail = RxLen - (delivered - read)
        /\ acked <= written /\ read <= delivered
        /\ written - acked <= TxLen /\ delivered - read <= RxLen
    BY DEF Accounts, TxAccounting, RxAccounting
  <1>0. /\ rb \in Nat /\ tb \in Nat /\ fs.rx_avail + rb <= RxLen
        /\ fs.tx_avail + fs.tx_sent + tb <= TxLen
    BY <1>t, <1>n, <1>a, WordModNat
  <1>1. /\ g \in FlowState
        /\ g.tx_avail + g.tx_sent = fs.tx_avail + fs.tx_sent + tb
        /\ g.rx_avail = fs.rx_avail + rb
    BY <1>0, AccountsSane, FlowsAcGood
  <1>2. /\ fs' = g /\ written' = written + tb /\ read' = read + rb
        /\ UNCHANGED <<acked, sndMax, peerAck, delivered, eof, rxbuf>>
    BY DEF AppBump
  <1> HIDE DEF g
  <1>3. /\ g.tx_avail + g.tx_sent = (written + tb) - acked
        /\ g.rx_avail = RxLen - (delivered - (read + rb))
    BY <1>0, <1>1, <1>a, <1>t, <1>n, WordModNat
  <1>4. /\ written + tb \in 0..AppBytes /\ read + rb \in Nat
        /\ acked <= written + tb /\ (written + tb) - acked <= TxLen
        /\ read + rb <= delivered /\ delivered - (read + rb) <= RxLen
    BY <1>0, <1>a, <1>t, WordModNat
  <1> QED
    BY <1>1, <1>2, <1>3, <1>4 DEF Accounts, TypeOK, TxAccounting, RxAccounting

(* Every step of the connection keeps the accounts.                        *)
LEMMA NextAccounts == Accounts /\ [Next]_vars => Accounts'
  <1> SUFFICES ASSUME Accounts, [Next]_vars PROVE Accounts'  OBVIOUS
  <1>c. /\ PeerBytes \in Nat /\ MaxSeg \in Nat
        /\ \A n \in Nat : n <= PeerBytes => n \in Word
    BY FlowProtoAssumption, WordModNat, WordNat
  <1>1. CASE RecvSeg
    <2>1. PICK from \in 0..(PeerBytes - 1), plen \in 1..MaxSeg, fin \in BOOLEAN,
               ack \in 0..sndMax, win \in Windows :
                 from + plen <= PeerBytes /\ Receive(from, plen, fin, ack, win)
      BY <1>1 DEF RecvSeg
    <2>2. from \in Nat /\ plen \in Nat /\ plen <= PeerBytes  BY <1>c, <2>1
    <2> QED  BY <1>c, <2>1, <2>2, ReceiveAccounts
  <1>2. CASE RecvAck
    <2>1. PICK from \in 0..(PeerBytes + 1), fin \in BOOLEAN,
               ack \in 0..sndMax, win \in Windows : Receive(from, 0, fin, ack, win)
      BY <1>2 DEF RecvAck
    <2>2. from \in Nat /\ 0 \in Word  BY <1>c, <2>1
    <2> QED  BY <2>1, <2>2, ReceiveAccounts
  <1>3. CASE Retransmit  BY <1>3, RetransmitAccounts
  <1>4. CASE App  BY <1>4, AppAccounts DEF App
  <1>5. CASE \E force \in BOOLEAN : Transmit(force)
    BY <1>5, TransmitAccounts
  <1>6. CASE UNCHANGED vars
    BY <1>6 DEF vars, Accounts, TypeOK, TxAccounting, RxAccounting
  <1> QED  BY <1>1, <1>2, <1>3, <1>4, <1>5, <1>6 DEF Next

(* The state of a connection stays within its types: in particular no      *)
(* account of flows.c ever wraps.                                          *)
THEOREM FlowTypes == Spec => []TypeOK
  <1>1. Spec => []Accounts  BY InitAccounts, NextAccounts, PTL DEF Spec
  <1>2. Accounts => TypeOK  BY DEF Accounts
  <1> QED  BY <1>1, <1>2, PTL

(* For every buffer length, segment size and sequence of packets, each     *)
(* byte of the transmit buffer is accounted for exactly once: tx_avail and *)
(* tx_sent sum up to what the application wrote and was not told is        *)
(* acknowledged.                                                           *)
THEOREM FlowTxAccounting == Spec => []TxAccounting
  <1>1. Spec => []Accounts  BY InitAccounts, NextAccounts, PTL DEF Spec
  <1>2. Accounts => TxAccounting  BY DEF Accounts
  <1> QED  BY <1>1, <1>2, PTL

(* For every buffer length and sequence of packets, in order or not, the   *)
(* window rx_avail is exactly the room the application has left or handed  *)
(* back, so that the peer is never invited to overwrite unread bytes.      *)
THEOREM FlowRxAccounting == Spec => []RxAccounting
  <1>1. Spec => []Accounts  BY InitAccounts, NextAccounts, PTL DEF Spec
  <1>2. Accounts => RxAccounting  BY DEF Accounts
  <1> QED  BY <1>1, <1>2, PTL

-----------------------------------------------------------------------------
(* Positions of the transmit side.                                         *)

(* tx_next_seq and tx_next_pos point at byte n + tx_sent of the stream.    *)
AlignedTo(f, n) ==
  /\ f.tx_next_seq = Add(Isn, n + f.tx_sent)
  /\ f.tx_next_pos = Add(0, n + f.tx_sent)

(* Two states with the same transmit side.                                 *)
TxSame(f, g) ==
  /\ g.tx_avail = f.tx_avail /\ g.tx_sent = f.tx_sent
  /\ g.tx_next_seq = f.tx_next_seq /\ g.tx_next_pos = f.tx_next_pos

LEMMA AddAdd ==
  ASSUME NEW a \in Word, NEW n \in Nat, NEW m \in Nat, n + m < WordMod
  PROVE  Add(Add(a, n), m) = Add(a, n + m)
  <1>1. n \in Word /\ m \in Word /\ n + m \in Word  BY WordNat, WordModNat
  <1>2. /\ Add(a, n) \in Word
        /\ Add(a, n) = IF a + n < WordMod THEN a + n ELSE a + n - WordMod
    BY <1>1, WordAdd
  <1>3. Add(a, n + m) = IF a + (n + m) < WordMod THEN a + (n + m)
                        ELSE a + (n + m) - WordMod
    BY <1>1, WordAdd
  <1>4. Add(Add(a, n), m) = IF Add(a, n) + m < WordMod THEN Add(a, n) + m
                            ELSE Add(a, n) + m - WordMod
    BY <1>1, <1>2, WordAdd
  <1>5. a \in Nat /\ a < WordMod /\ WordMod \in Nat  BY WordNat, WordModNat
  <1> QED  BY <1>2, <1>3, <1>4, <1>5

LEMMA SubAdd ==
  ASSUME NEW a \in Word, NEW n \in Nat, NEW m \in Nat, n + m < WordMod
  PROVE  Sub(Add(a, n + m), m) = Add(a, n)
  <1>1. n \in Word /\ m \in Word /\ n + m \in Word  BY WordNat, WordModNat
  <1>2. Add(a, n) = IF a + n < WordMod THEN a + n ELSE a + n - WordMod
    BY <1>1, WordAdd
  <1>3. /\ Add(a, n + m) \in Word
        /\ Add(a, n + m) = IF a + (n + m) < WordMod THEN a + (n + m)
                           ELSE a + (n + m) - WordMod
    BY <1>1, WordAdd
  <1>4. Sub(Add(a, n + m), m) = IF m <= Add(a, n + m) THEN Add(a, n + m) - m
                                ELSE Add(a, n + m) - m + WordMod
    BY <1>1, <1>3, WordSub
  <1>5. a \in Nat /\ a < WordMod /\ WordMod \in Nat  BY WordNat, WordModNat
  <1> QED  BY <1>2, <1>3, <1>4, <1>5

LEMMA TxAlignedTo == ASSUME NEW n \in Nat PROVE Add(0, n) = n % WordMod
  BY DEF Add

LEMMA Constants0 == Isn \in Word /\ 0 \in Word
  BY FlowProtoAssumption, WordNat, WordModNat

LEMMA AlignedTransmit ==
  ASSUME NEW f, Sane(f), NEW n \in Nat, NEW force \in BOOLEAN,
         n + (f.tx_avail + f.tx_sent) < WordMod, AlignedTo(f, n)
  PROVE  AlignedTo(FlowsTx(f, force).fs, n)
  <1> DEFINE p == Least(TxAvail(f, 0), TcpMss)
  <1>0. f \in FlowState  BY DEF Sane
  <1>1. p \in Word /\ p <= f.tx_avail
    BY <1>0, TxAvailBound, WordNat, FlowFields, FlowsAssumption DEF Least
  <1>n. p \in Nat /\ f.tx_avail \in Nat /\ f.tx_sent \in Nat
    BY <1>0, <1>1, FlowFields, WordNat
  <1>2. Add(f.tx_sent, p) = f.tx_sent + p
    <2>1. f.tx_sent + p < WordMod  BY <1>1, <1>n, WordModNat DEF Sane
    <2> QED  BY <1>0, <1>1, <2>1, FlowFields, WordAdd
  <1> HIDE DEF p
  <1>3. CASE TxAvail(f, 0) = 0 /\ ~force
    BY <1>3 DEF FlowsTx, Finalize
  <1>4. CASE ~(TxAvail(f, 0) = 0 /\ ~force)
    <2> DEFINE g == [f EXCEPT !.tx_next_seq = Add(@, p), !.tx_next_pos = Add(@, p),
                              !.tx_sent = Add(@, p), !.tx_avail = Sub(@, p)]
    <2>1. FlowsTx(f, force).fs = g  BY <1>4 DEF FlowsTx, p
    <2>2. /\ g.tx_sent = f.tx_sent + p
          /\ g.tx_next_seq = Add(f.tx_next_seq, p)
          /\ g.tx_next_pos = Add(f.tx_next_pos, p)
      BY <1>0, <1>2 DEF FlowState
    <2>3. n + f.tx_sent \in Nat /\ (n + f.tx_sent) + p < WordMod
          /\ (n + f.tx_sent) + p = n + (f.tx_sent + p)
      BY <1>1, <1>n, WordModNat
    <2>4. /\ Add(Add(Isn, n + f.tx_sent), p) = Add(Isn, (n + f.tx_sent) + p)
          /\ Add(Add(0, n + f.tx_sent), p) = Add(0, (n + f.tx_sent) + p)
      BY <1>n, <2>3, AddAdd, Constants0
    <2> HIDE DEF g
    <2> QED  BY <2>1, <2>2, <2>3, <2>4 DEF AlignedTo
  <1> QED  BY <1>3, <1>4

LEMMA AlignedReset ==
  ASSUME NEW f, Sane(f), NEW n \in Nat,
         n + (f.tx_avail + f.tx_sent) < WordMod, AlignedTo(f, n)
  PROVE  AlignedTo(ResetRetransmit(f), n)
  <1> DEFINE g == ResetRetransmit(f)
  <1>0. f \in FlowState /\ f.tx_avail \in Nat /\ f.tx_sent \in Nat
    BY FlowFields, WordNat DEF Sane
  <1>1. /\ g.tx_sent = 0
        /\ g.tx_next_seq = Sub(f.tx_next_seq, f.tx_sent)
        /\ g.tx_next_pos = Sub(f.tx_next_pos, f.tx_sent)
    BY ResetGood
  <1>2. n + f.tx_sent < WordMod /\ n + 0 = n  BY <1>0, WordModNat
  <1>3. /\ Sub(Add(Isn, n + f.tx_sent), f.tx_sent) = Add(Isn, n)
        /\ Sub(Add(0, n + f.tx_sent), f.tx_sent) = Add(0, n)
    BY <1>0, <1>2, SubAdd, Constants0
  <1> HIDE DEF g
  <1> QED  BY <1>1, <1>2, <1>3 DEF AlignedTo, g

LEMMA AlignedAck ==
  ASSUME NEW f, Sane(f), NEW n \in Nat, NEW b \in Word, b <= f.tx_avail + f.tx_sent,
         n + (f.tx_avail + f.tx_sent) < WordMod, AlignedTo(f, n)
  PROVE  AlignedTo(AckBytes(f, b), n + b)
  <1> DEFINE g == AckBytes(f, b)  a == Sub(b, f.tx_sent)
  <1>0. /\ f \in FlowState /\ f.tx_avail \in Nat /\ f.tx_sent \in Nat /\ b \in Nat
        /\ f.tx_sent \in Word
    BY FlowFields, WordNat DEF Sane
  <1>1. CASE b < f.tx_sent
    <2>1. Sub(f.tx_sent, b) = f.tx_sent - b  BY <1>0, <1>1, WordSub
    <2>2. /\ g.tx_sent = f.tx_sent - b /\ g.tx_next_seq = f.tx_next_seq
          /\ g.tx_next_pos = f.tx_next_pos
      BY <1>0, <1>1, <2>1 DEF AckBytes, FlowState
    <2>3. n + f.tx_sent = (n + b) + (f.tx_sent - b)  BY <1>0
    <2> HIDE DEF g
    <2> QED  BY <2>2, <2>3 DEF AlignedTo, g
  <1>2. CASE ~(b < f.tx_sent)
    <2>1. a = b - f.tx_sent  BY <1>0, <1>2, WordSub
    <2> HIDE DEF a
    <2>2. /\ g.tx_sent = 0 /\ g.tx_next_seq = Add(f.tx_next_seq, a)
          /\ g.tx_next_pos = Add(f.tx_next_pos, a)
      BY <1>0, <1>2 DEF AckBytes, FlowState, a
    <2>3. /\ n + f.tx_sent \in Nat /\ a \in Nat /\ (n + f.tx_sent) + a < WordMod
          /\ (n + f.tx_sent) + a = (n + b) + 0
      BY <1>0, <1>2, <2>1, WordModNat
    <2>4. /\ Add(Add(Isn, n + f.tx_sent), a) = Add(Isn, (n + f.tx_sent) + a)
          /\ Add(Add(0, n + f.tx_sent), a) = Add(0, (n + f.tx_sent) + a)
      BY <2>3, AddAdd, Constants0
    <2> HIDE DEF g
    <2> QED  BY <2>2, <2>3, <2>4 DEF AlignedTo, g
  <1> QED  BY <1>1, <1>2

(* The receive path changes the transmit side in one of three ways only.   *)
RxTx(f, ack, r) ==
  \/ r.res.tx_bump = 0 /\ (TxSame(f, r.fs) \/ TxSame(ResetRetransmit(f), r.fs))
  \/ r.res.tx_bump = AckBump(f, ack) /\ TxSame(AckBytes(f, AckBump(f, ack)), r.fs)

LEMMA FinalizeParts ==
  ASSUME NEW o, NEW f, NEW fl, NEW rb, NEW tb, NEW d
  PROVE  /\ Finalize(o, f, fl, rb, tb, d).fs = f
         /\ Finalize(o, f, fl, rb, tb, d).res.tx_bump = tb
  BY FinalizeFs

LEMMA TxSameSelf ==
  ASSUME NEW f PROVE TxSame(f, f)
  BY DEF TxSame

LEMMA RxOpsSame ==
  ASSUME NEW f \in FlowState
  PROVE  /\ \A w : TxSame(f, [f EXCEPT !.tx_remote_avail = w])
         /\ \A n : TxSame(f, Advance(f, n))
         /\ TxSame(f, TakeFin(f)) /\ TxSame(f, TrimOoo(f)) /\ TxSame(f, JoinOoo(f))
         /\ \A q, n : TxSame(f, StoreOoo(f, q, n))
  <1>1. \A w : TxSame(f, [f EXCEPT !.tx_remote_avail = w])
    BY DEF TxSame, FlowState
  <1>2. \A n : TxSame(f, Advance(f, n))  BY DEF TxSame, FlowState, Advance
  <1>3. TxSame(f, TakeFin(f))  BY DEF TxSame, FlowState, TakeFin
  <1>4. TxSame(f, TrimOoo(f))
    <2> DEFINE t == Trim(f, f.rx_ooo_start, f.rx_ooo_len)
    <2>1. TrimOoo(f) = IF f.rx_ooo_len = 0 THEN f
                       ELSE IF t.drop THEN [f EXCEPT !.rx_ooo_len = 0]
                       ELSE [f EXCEPT !.rx_ooo_start = Add(@, t.front),
                                 !.rx_ooo_len   = Sub(Sub(@, t.front), t.back)]
      BY DEF TrimOoo
    <2> HIDE DEF t
    <2> QED  BY <2>1 DEF TxSame, FlowState
  <1>5. TxSame(f, JoinOoo(f))
    BY DEF TxSame, FlowState, JoinOoo, Advance
  <1>6. \A q, n : TxSame(f, StoreOoo(f, q, n))
    BY DEF TxSame, FlowState, StoreOoo
  <1> QED  BY <1>1, <1>2, <1>3, <1>4, <1>5, <1>6

LEMMA TxSameTrans ==
  ASSUME NEW f, NEW g, NEW h, TxSame(f, g), TxSame(g, h)
  PROVE  TxSame(f, h)
  BY DEF TxSame

LEMMA FinalizeTx ==
  ASSUME NEW f, NEW ack, NEW g, NEW fl, NEW rb, NEW d,
         TxSame(IF AckBump(f, ack) # 0 THEN AckBytes(f, AckBump(f, ack)) ELSE f, g)
  PROVE  RxTx(f, ack, Finalize(f, g, fl, rb, AckBump(f, ack), d))
  <1> DEFINE r == Finalize(f, g, fl, rb, AckBump(f, ack), d)
  <1>1. r.fs = g /\ r.res.tx_bump = AckBump(f, ack)  BY FinalizeParts
  <1> HIDE DEF r
  <1>2. RxTx(f, ack, r)  BY <1>1 DEF RxTx
  <1> QED  BY <1>2 DEF r

LEMMA FlowsAckTx ==
  ASSUME NEW f, Sane(f), NEW pkt \in PacketType
  PROVE  RxTx(f, pkt.ack, FlowsAck(f, pkt))
  <1> DEFINE b     == AckBump(f, pkt.ack)
             base  == IF b # 0 THEN AckBytes(f, b) ELSE f
             dup   == AckValid(f, pkt.ack) /\ b = 0
             acked_ == IF b # 0 THEN AckBytes(f, b) ELSE
                       IF dup THEN [f EXCEPT !.dupack_cnt = @ + 1] ELSE f
             flags == AckFlags(acked_, b)
             fresh == [acked_ EXCEPT !.tx_remote_avail = pkt.win]
             fin   == pkt.fin /\ ~f.rxfin /\ f.rx_ooo_len = 0
             third == InWindow(f, pkt.seq) /\ dup /\ ThirdDup(f)
  <1>0. f \in FlowState /\ pkt.ack \in Word /\ pkt.win \in Word
    BY DEF Sane, PacketType
  <1>1. CASE ~InWindow(f, pkt.seq)
    <2> DEFINE r == Finalize(f, f, {"TX"}, 0, 0, NoDma)
    <2>1. FlowsAck(f, pkt) = r  BY <1>1 DEF FlowsAck
    <2>2. r.fs = f /\ r.res.tx_bump = 0  BY FinalizeParts
    <2> HIDE DEF r
    <2> QED  BY <2>1, <2>2, TxSameSelf DEF RxTx
  <1>2. CASE third
    <2> DEFINE r == Finalize(f, ResetRetransmit(f), {"RETX"}, 0, 0, NoDma)
    <2>1. FlowsAck(f, pkt) = r  BY <1>2 DEF FlowsAck
    <2>2. r.fs = ResetRetransmit(f) /\ r.res.tx_bump = 0  BY FinalizeParts
    <2> HIDE DEF r
    <2> QED  BY <2>1, <2>2, TxSameSelf DEF RxTx
  <1>3. CASE InWindow(f, pkt.seq) /\ ~third
    <2>1. acked_ \in FlowState /\ TxSame(base, acked_)
      <3>1. CASE b # 0
        <4>1. AckBytes(f, b) \in FlowState  BY <1>0, <3>1, AckedGood
        <4> QED  BY <3>1, <4>1 DEF TxSame
      <3>2. CASE b = 0 /\ dup
        <4>1. f.dupack_cnt \in 0..2 /\ ~(f.dupack_cnt >= 2)
          BY <1>0, <1>3, <3>2, FlowFields DEF ThirdDup
        <4>2. f.dupack_cnt + 1 \in 0..2  BY <4>1
        <4>3. acked_ = [f EXCEPT !.dupack_cnt = f.dupack_cnt + 1]  BY <1>0, <3>2
        <4>4. base = f  BY <3>2
        <4> HIDE DEF acked_, base
        <4> QED  BY <1>0, <4>2, <4>3, <4>4 DEF FlowState, TxSame
      <3>3. CASE b = 0 /\ ~dup
        BY <1>0, <3>3 DEF TxSame
      <3> QED  BY <3>1, <3>2, <3>3
    <2>2. FlowsAck(f, pkt) =
            IF pkt.seq # f.rx_next_seq
            THEN Finalize(f, acked_, flags \cup {"TX"}, 0, b, NoDma)
            ELSE IF fin
            THEN Finalize(f, TakeFin(fresh), flags \cup {"FIN", "TX", "DMA_ACDESC"},
                          0, b, NoDma)
            ELSE Finalize(f, fresh, flags, 0, b, NoDma)
      BY <1>3 DEF FlowsAck
    <2> HIDE DEF acked_, flags
    <2>3. fresh \in FlowState  BY <1>0, <2>1 DEF FlowState
    <2>4. TxSame(acked_, fresh)  BY <2>1, RxOpsSame
    <2> HIDE DEF fresh
    <2>5. TxSame(fresh, TakeFin(fresh))  BY <2>3, RxOpsSame
    <2>6. TxSame(base, fresh)  BY <2>1, <2>4, TxSameTrans
    <2>7. TxSame(base, TakeFin(fresh))  BY <2>5, <2>6, TxSameTrans
    <2>8. CASE pkt.seq # f.rx_next_seq  BY <2>1, <2>2, <2>8, FinalizeTx
    <2>9. CASE pkt.seq = f.rx_next_seq /\ fin  BY <2>2, <2>7, <2>9, FinalizeTx
    <2>10. CASE pkt.seq = f.rx_next_seq /\ ~fin  BY <2>2, <2>6, <2>10, FinalizeTx
    <2> QED  BY <2>8, <2>9, <2>10
  <1> QED  BY <1>1, <1>2, <1>3

LEMMA SegTx ==
  ASSUME NEW f, Sane(f), NEW pkt \in PacketType
  PROVE  RxTx(f, pkt.ack, FlowsSeg(f, pkt))
  <1> DEFINE t     == Trim(f, pkt.seq, pkt.plen)
             b     == AckBump(f, pkt.ack)
             a     == IF b # 0 THEN AckBytes(f, b) ELSE f
             flags == {"TX"} \cup AckFlags(a, b)
             len   == pkt.plen - (t.front + t.back)
             seq   == Add(pkt.seq, t.front)
  <1>0. f \in FlowState /\ pkt.ack \in Word /\ pkt.win \in Word
    BY DEF Sane, PacketType
  <1>p. pkt.plen \in Word /\ pkt.seq \in Word  BY DEF PacketType
  <1>1. Acked(f, a, b)  BY <1>0, AckedGood DEF Acked
  <1>2. a \in FlowState  BY <1>1 DEF Acked
  <1>3. FlowsSeg(f, pkt) =
          IF t.drop THEN Finalize(f, f, {"TX"}, 0, 0, NoDma)
          ELSE IF seq # f.rx_next_seq
          THEN SegOutOfOrder(f, a, flags, b, seq, t.front, len)
          ELSE SegInOrder(f, a, flags, b, pkt, t.front, len)
    BY DEF FlowsSeg
  <1>s. TxSame(a, a)  BY DEF TxSame
  <1>4. CASE t.drop
    <2> DEFINE r == Finalize(f, f, {"TX"}, 0, 0, NoDma)
    <2>1. FlowsSeg(f, pkt) = r  BY <1>3, <1>4
    <2>2. r.fs = f /\ r.res.tx_bump = 0  BY FinalizeParts
    <2> HIDE DEF r
    <2> QED  BY <2>1, <2>2, TxSameSelf DEF RxTx
  <1>5. CASE ~t.drop /\ seq # f.rx_next_seq
    <2>1. TxSame(a, StoreOoo(a, seq, len))  BY <1>2, RxOpsSame
    <2> HIDE DEF flags, len, seq, t
    <2>2. FlowsSeg(f, pkt) = SegOutOfOrder(f, a, flags, b, seq, t.front, len)
      BY <1>3, <1>5
    <2> QED  BY <1>s, <2>1, <2>2, FinalizeTx DEF SegOutOfOrder
  <1>6. CASE ~t.drop /\ seq = f.rx_next_seq
    <2> DEFINE fresh   == [a EXCEPT !.tx_remote_avail = pkt.win]
               adv     == Advance(fresh, len)
               trimmed == TrimOoo(adv)
               joined  == IF len = 0 THEN fresh ELSE JoinOoo(trimmed)
    <2>1. FlowsSeg(f, pkt) = SegInOrder(f, a, flags, b, pkt, t.front, len)
      BY <1>3, <1>6
    <2>2. /\ t.front \in Word /\ t.back \in Word /\ t.front + t.back <= pkt.plen
          /\ len <= f.rx_avail
      BY <1>0, <1>p, <1>6, TrimGood
    <2> HIDE DEF t
    <2>3. len \in Word
      <3>1. /\ t.front \in Nat /\ t.back \in Nat
            /\ pkt.plen \in Nat /\ pkt.plen < WordMod
        BY <1>p, <2>2, WordNat
      <3>2. len \in Nat /\ len < WordMod  BY <2>2, <3>1, WordModNat
      <3> QED  BY <3>2, WordNat
    <2> HIDE DEF a, flags, len, seq, b
    <2>4. /\ fresh \in FlowState /\ TxSame(a, fresh) /\ fresh.rx_avail = f.rx_avail
      BY <1>0, <1>1, <1>2, RxOpsSame DEF FlowState, Acked
    <2> HIDE DEF fresh
    <2>5. adv \in FlowState /\ TxSame(fresh, adv)
      BY <2>2, <2>3, <2>4, AdvanceGood, RxOpsSame
    <2> HIDE DEF adv
    <2>6. /\ trimmed \in FlowState /\ TxSame(adv, trimmed)
          /\ Joins(trimmed) \in Word /\ Joins(trimmed) <= trimmed.rx_avail
      BY <2>5, TrimOooGood, RxOpsSame
    <2> HIDE DEF trimmed
    <2>7. JoinOoo(trimmed) \in FlowState /\ TxSame(trimmed, JoinOoo(trimmed))
      BY <2>6, JoinOooGood, RxOpsSame
    <2>8. TxSame(a, trimmed)  BY <2>4, <2>5, <2>6, TxSameTrans
    <2>9. joined \in FlowState /\ TxSame(a, joined)
      BY <2>4, <2>7, <2>8, TxSameTrans
    <2>10. TxSame(a, TakeFin(joined))
      <3> HIDE DEF joined
      <3> QED  BY <2>9, RxOpsSame, TxSameTrans
    <2> DEFINE rb    == IF len = 0 THEN 0 ELSE len + Joins(trimmed)
               moved == IF len = 0 THEN flags
                        ELSE flags \cup {"DMA_PAYLOAD", "DMA_ACDESC"}
               dma   == IF len = 0 THEN NoDma
                        ELSE [pos |-> f.rx_next_pos, off |-> t.front, len |-> len]
               fin   == pkt.fin /\ ~f.rxfin /\ FinInOrder(joined, pkt)
    <2>11. FlowsSeg(f, pkt) =
             IF f.rxfin /\ len # 0 THEN Finalize(f, fresh, flags, 0, b, NoDma)
             ELSE IF fin
             THEN Finalize(f, TakeFin(joined), moved \cup {"FIN", "DMA_ACDESC"},
                           rb, b, dma)
             ELSE Finalize(f, joined, moved, rb, b, dma)
      BY <2>1 DEF SegInOrder, fresh, adv, trimmed
    <2> HIDE DEF joined, rb, moved, dma, fin
    <2>12. /\ RxTx(f, pkt.ack, Finalize(f, fresh, flags, 0, b, NoDma))
           /\ RxTx(f, pkt.ack, Finalize(f, TakeFin(joined),
                       moved \cup {"FIN", "DMA_ACDESC"}, rb, b, dma))
           /\ RxTx(f, pkt.ack, Finalize(f, joined, moved, rb, b, dma))
      BY <2>4, <2>9, <2>10, FinalizeTx DEF a, b
    <2> QED  BY <2>11, <2>12
  <1> QED  BY <1>4, <1>5, <1>6

LEMMA FlowsRxTx ==
  ASSUME NEW f, Sane(f), NEW pkt \in PacketType
  PROVE  RxTx(f, pkt.ack, FlowsRx(f, pkt))
  BY FlowsAckTx, SegTx DEF FlowsRx

LEMMA Distance ==
  ASSUME NEW a \in Word, NEW n \in Nat, NEW m \in Nat, n < WordMod, m < WordMod
  PROVE  Sub(Add(a, n), Add(a, m)) = IF m <= n THEN n - m ELSE n - m + WordMod
  <1>1. n \in Word /\ m \in Word  BY WordNat
  <1>2. /\ Add(a, n) \in Word /\ Add(a, m) \in Word
        /\ Add(a, n) = IF a + n < WordMod THEN a + n ELSE a + n - WordMod
        /\ Add(a, m) = IF a + m < WordMod THEN a + m ELSE a + m - WordMod
    BY <1>1, WordAdd
  <1>3. Sub(Add(a, n), Add(a, m)) =
          IF Add(a, m) <= Add(a, n) THEN Add(a, n) - Add(a, m)
          ELSE Add(a, n) - Add(a, m) + WordMod
    BY <1>2, WordSub
  <1>4. a \in Nat /\ a < WordMod /\ WordMod \in Nat  BY WordNat, WordModNat
  <1> QED  BY <1>2, <1>3, <1>4

(* The invariant behind AckSound: an acknowledgement is compared with the  *)
(* first unacknowledged byte, which must be known exactly.                 *)
Positions == Accounts /\ TxAligned /\ AckSound

LEMMA PositionsAligned ==
  ASSUME Accounts
  PROVE  /\ acked \in Nat /\ written \in Nat /\ written <= AppBytes
         /\ fs.tx_avail \in Nat /\ fs.tx_sent \in Nat
         /\ fs.tx_avail + fs.tx_sent = written - acked
         /\ acked + (fs.tx_avail + fs.tx_sent) < WordMod
         /\ TxAligned <=> AlignedTo(fs, acked)
  <1>1. /\ acked \in Nat /\ written \in Nat /\ written <= AppBytes
        /\ fs \in FlowState /\ AppBytes \in Nat /\ AppBytes + TxLen < WordMod
    BY FlowProtoAssumption DEF Accounts, TypeOK
  <1>2. fs.tx_avail \in Nat /\ fs.tx_sent \in Nat  BY <1>1, FlowFields, WordNat
  <1>3. fs.tx_avail + fs.tx_sent = written - acked
    BY DEF Accounts, TxAccounting
  <1>4. acked + (fs.tx_avail + fs.tx_sent) < WordMod
    BY <1>1, <1>2, <1>3, WordModNat
  <1>5. acked + fs.tx_sent \in Nat  BY <1>1, <1>2
  <1>6. Add(0, acked + fs.tx_sent) = (acked + fs.tx_sent) % WordMod
    BY <1>5, TxAlignedTo
  <1>7. TxAligned <=> AlignedTo(fs, acked)
    BY <1>6 DEF TxAligned, AlignedTo
  <1> QED  BY <1>1, <1>2, <1>3, <1>4, <1>7

(* TxAligned of the next state, from what the step does to the state.      *)
LEMMA AlignedNext ==
  ASSUME Accounts', AlignedTo(fs', acked')
  PROVE  TxAligned'
  <1>1. acked' \in Nat /\ fs' \in FlowState  BY DEF Accounts, TypeOK
  <1>2. fs'.tx_sent \in Nat  BY <1>1, FlowFields, WordNat
  <1>3. Add(0, acked' + fs'.tx_sent) = (acked' + fs'.tx_sent) % WordMod
    BY <1>1, <1>2, TxAlignedTo
  <1> QED  BY <1>3 DEF TxAligned, AlignedTo

LEMMA ReceivePositions ==
  ASSUME Positions, NEW from \in Nat, NEW plen \in Word, NEW fin \in BOOLEAN,
         NEW ack \in 0..sndMax, NEW win \in Windows,
         Receive(from, plen, fin, ack, win)
  PROVE  Positions'
  <1> DEFINE pkt == Packet(from, plen, fin, ack, win)  r == FlowsRx(fs, pkt)
             tb == r.res.tx_bump
  <1>0. Accounts /\ Accounts'  BY ReceiveAccounts DEF Positions
  <1>1. /\ acked \in Nat /\ written \in Nat /\ written <= AppBytes
        /\ fs.tx_avail \in Nat /\ fs.tx_sent \in Nat
        /\ fs.tx_avail + fs.tx_sent = written - acked
        /\ acked + (fs.tx_avail + fs.tx_sent) < WordMod
        /\ AlignedTo(fs, acked) /\ Sane(fs)
    BY <1>0, PositionsAligned, AccountsSane DEF Positions
  <1>t. /\ sndMax \in 0..AppBytes /\ peerAck \in 0..AppBytes /\ AppBytes \in Nat
        /\ acked <= peerAck /\ acked <= written /\ AppBytes + TxLen < WordMod
        /\ written - acked <= TxLen
    BY <1>0, FlowProtoAssumption DEF Accounts, TypeOK, Positions, AckSound
  <1>a. ack \in Nat /\ ack <= AppBytes  BY <1>t
  <1>p. pkt \in PacketType /\ pkt.ack = Add(Isn, ack)
    <2>1. /\ PeerIsn \in Int /\ Isn \in Int /\ from \in Int /\ ack \in Int
          /\ win \in Word
      BY <1>a, FlowProtoAssumption, WordNat
    <2>2. Add(PeerIsn, from) \in Word /\ Add(Isn, ack) \in Word
      BY <2>1, WordModNat DEF Add, Word
    <2> QED  BY <2>1, <2>2 DEF Packet, PacketType
  <1>2. RxGood(fs, r) /\ RxTx(fs, pkt.ack, r)
    BY <1>1, <1>p, FlowsRxGood, FlowsRxTx
  <1>3. /\ fs' = r.fs /\ Notify(r.res)
        /\ peerAck' = IF peerAck < ack THEN ack ELSE peerAck
    BY DEF Receive
  <1> HIDE DEF r, pkt
  <1>4. tb \in Nat /\ acked' = acked + tb
    <2>1. /\ tb \in Nat
          /\ "DMA_ACDESC" \notin r.res.flags => tb = 0
      BY <1>2 DEF RxGood
    <2>2. CASE "DMA_ACDESC" \in r.res.flags
      BY <1>3, <2>1, <2>2 DEF Notify
    <2>3. CASE "DMA_ACDESC" \notin r.res.flags
      <3>1. acked' = acked  BY <1>3, <2>3 DEF Notify
      <3>2. tb = 0  BY <2>1, <2>3
      <3> HIDE DEF tb
      <3> QED  BY <1>1, <3>1, <3>2
    <2> QED  BY <2>2, <2>3
  <1>b. /\ AckBump(fs, pkt.ack) \in Word
        /\ AckBump(fs, pkt.ack) <= fs.tx_avail + fs.tx_sent
    <2>1. pkt.ack \in Word  BY <1>p DEF PacketType
    <2> QED  BY <1>1, <2>1, AckBumpBound
  <1>5. AlignedTo(fs', acked')
    <2>1. ASSUME NEW h, TxSame(h, fs'), AlignedTo(h, acked')
          PROVE  AlignedTo(fs', acked')
      BY <2>1 DEF TxSame, AlignedTo
    <2>2. AlignedTo(ResetRetransmit(fs), acked)  BY <1>1, AlignedReset
    <2>3. AlignedTo(AckBytes(fs, AckBump(fs, pkt.ack)), acked + AckBump(fs, pkt.ack))
      BY <1>1, <1>b, AlignedAck
    <2>4. CASE tb = 0 /\ (TxSame(fs, fs') \/ TxSame(ResetRetransmit(fs), fs'))
      <3>1. acked' = acked
        <4>1. acked \in Nat /\ tb = 0 /\ acked' = acked + tb  BY <1>1, <1>4, <2>4
        <4> HIDE DEF tb
        <4> QED  BY <4>1
      <3> QED  BY <1>1, <2>1, <2>2, <2>4, <3>1
    <2>5. CASE tb = AckBump(fs, pkt.ack)
               /\ TxSame(AckBytes(fs, AckBump(fs, pkt.ack)), fs')
      BY <1>4, <2>1, <2>3, <2>5
    <2> QED  BY <1>2, <1>3, <2>4, <2>5 DEF RxTx
  <1>6. acked' <= peerAck'
    <2>1. CASE tb = 0
      <3>1. acked' = acked  BY <1>1, <1>4, <2>1
      <3> QED  BY <1>1, <1>3, <1>t, <1>a, <3>1
    <2>2. CASE tb # 0
      <3>1. tb = AckBump(fs, pkt.ack)  BY <1>2, <2>2 DEF RxTx
      <3>2. tb = Hole(fs, pkt.ack)  BY <2>2, <3>1 DEF AckBump
      <3>3. Sub(fs.tx_next_seq, fs.tx_sent) = Add(Isn, acked)
        <4>1. acked + fs.tx_sent < WordMod  BY <1>1, WordModNat
        <4> QED  BY <1>1, <4>1, SubAdd, Constants0 DEF AlignedTo
      <3>4. tb = Sub(Add(Isn, ack), Add(Isn, acked))
        BY <1>p, <3>2, <3>3 DEF Hole
      <3>5. ack < WordMod /\ acked < WordMod  BY <1>1, <1>a, <1>t, WordModNat
      <3>6. tb = IF acked <= ack THEN ack - acked ELSE ack - acked + WordMod
        BY <1>1, <1>a, <3>4, <3>5, Distance, Constants0
      <3>7. tb <= written - acked  BY <1>1, <1>b, <3>1
      <3> HIDE DEF tb
      <3>8. acked <= ack
        BY <1>1, <1>a, <1>t, <3>6, <3>7, WordModNat
      <3>9. acked' = ack  BY <1>1, <1>4, <1>a, <3>6, <3>8
      <3> QED  BY <1>3, <1>a, <1>t, <3>9
    <2> QED  BY <2>1, <2>2
  <1> QED  BY <1>0, <1>5, <1>6, AlignedNext DEF Positions, AckSound

LEMMA NextPositions == Positions /\ [Next]_vars => Positions'
  <1> SUFFICES ASSUME Positions, [Next]_vars PROVE Positions'  OBVIOUS
  <1>0. Accounts /\ Accounts'  BY NextAccounts DEF Positions
  <1>c. /\ PeerBytes \in Nat /\ MaxSeg \in Nat
        /\ \A n \in Nat : n <= PeerBytes => n \in Word
    BY FlowProtoAssumption, WordModNat, WordNat
  <1>f. /\ acked \in Nat /\ AlignedTo(fs, acked) /\ Sane(fs)
        /\ acked + (fs.tx_avail + fs.tx_sent) < WordMod
    BY <1>0, PositionsAligned, AccountsSane DEF Positions
  <1>1. CASE RecvSeg
    <2>1. PICK from \in 0..(PeerBytes - 1), plen \in 1..MaxSeg, fin \in BOOLEAN,
               ack \in 0..sndMax, win \in Windows :
                 from + plen <= PeerBytes /\ Receive(from, plen, fin, ack, win)
      BY <1>1 DEF RecvSeg
    <2>2. from \in Nat /\ plen \in Nat /\ plen <= PeerBytes  BY <1>c, <2>1
    <2> QED  BY <1>c, <2>1, <2>2, ReceivePositions
  <1>2. CASE RecvAck
    <2>1. PICK from \in 0..(PeerBytes + 1), fin \in BOOLEAN,
               ack \in 0..sndMax, win \in Windows : Receive(from, 0, fin, ack, win)
      BY <1>2 DEF RecvAck
    <2>2. from \in Nat /\ 0 \in Word  BY <1>c, <2>1
    <2> QED  BY <2>1, <2>2, ReceivePositions
  <1>3. CASE Retransmit
    <2>1. fs' = ResetRetransmit(fs) /\ acked' = acked /\ peerAck' = peerAck
      BY <1>3, FinalizeFs DEF Retransmit, FlowsRetx, txVars
    <2>2. AlignedTo(fs', acked')  BY <1>f, <2>1, AlignedReset
    <2> QED  BY <1>0, <2>1, <2>2, AlignedNext DEF Positions, AckSound
  <1>4. CASE App
    <2>1. PICK rb \in 0..(delivered - read), tb \in 0..(TxLen - (written - acked)) :
            written + tb <= AppBytes /\ AppBump(rb, tb)
      BY <1>4 DEF App
    <2>2. fs' = FlowsAc(fs, rb, tb, FALSE).fs /\ acked' = acked /\ peerAck' = peerAck
      BY <2>1 DEF AppBump
    <2>3. TxSame([fs EXCEPT !.tx_avail = fs'.tx_avail], fs')
      <3>1. fs \in FlowState  BY <1>f DEF Sane
      <3> QED  BY <2>2, <3>1 DEF TxSame, FlowState, FlowsAc, Finalize
    <2>4. AlignedTo(fs', acked')
      <3>1. fs \in FlowState  BY <1>f DEF Sane
      <3> QED  BY <1>f, <2>2, <2>3, <3>1 DEF TxSame, AlignedTo, FlowState
    <2> QED  BY <1>0, <2>2, <2>4, AlignedNext DEF Positions, AckSound
  <1>5. CASE \E force \in BOOLEAN : Transmit(force)
    <2>1. PICK force \in BOOLEAN : Transmit(force)  BY <1>5
    <2>2. fs' = FlowsTx(fs, force).fs /\ acked' = acked /\ peerAck' = peerAck
      BY <2>1 DEF Transmit
    <2>3. AlignedTo(fs', acked')  BY <1>f, <2>2, AlignedTransmit
    <2> QED  BY <1>0, <2>2, <2>3, AlignedNext DEF Positions, AckSound
  <1>6. CASE UNCHANGED vars
    BY <1>0, <1>6 DEF vars, Positions, TxAligned, AckSound
  <1> QED  BY <1>1, <1>2, <1>3, <1>4, <1>5, <1>6 DEF Next

LEMMA InitPositions == Init => Positions
  <1> SUFFICES ASSUME Init PROVE Positions  OBVIOUS
  <1>1. Accounts  BY InitAccounts
  <1>2. /\ fs.tx_next_seq = Isn /\ fs.tx_next_pos = 0 /\ fs.tx_sent = 0 /\ acked = 0
        /\ peerAck = 0
    BY DEF Init, NewFlow
  <1>3. Add(Isn, 0) = Isn /\ Add(0, 0) = 0
    BY Constants0, WordAdd, WordNat, WordModNat
  <1>4. AlignedTo(fs, acked)  BY <1>2, <1>3 DEF AlignedTo
  <1> QED  BY <1>1, <1>2, <1>4, PositionsAligned DEF Positions, AckSound

(* For every packet sequence, what flows_tx sends next is the byte its     *)
(* sequence number names.                                                  *)
THEOREM FlowTxAligned == Spec => []TxAligned
  <1>1. Spec => []Positions  BY InitPositions, NextPositions, PTL DEF Spec
  <1>2. Positions => TxAligned  BY DEF Positions
  <1> QED  BY <1>1, <1>2, PTL

(* For every window and buffer length, and however old or duplicated the   *)
(* acknowledgements are, the application is never told that a byte is      *)
(* acknowledged before the peer acknowledged it.                           *)
THEOREM FlowAckSound == Spec => []AckSound
  <1>1. Spec => []Positions  BY InitPositions, NextPositions, PTL DEF Spec
  <1>2. Positions => AckSound  BY DEF Positions
  <1> QED  BY <1>1, <1>2, PTL
=============================================================================
