---------------------------- MODULE StreamProofs ----------------------------
(***************************************************************************)
(* The receive side of the protocol stage, and the theorem that a          *)
(* connection implements the abstract byte stream.                         *)
(***************************************************************************)
EXTENDS FlowProofs, Sequences

(* The receive side of state f stands at byte d of the peer's stream; e    *)
(* says whether the FIN, which takes one sequence number, was accepted.    *)
RxAt(f, d, e) ==
  /\ f.rx_next_seq = Add(PeerIsn, IF e THEN d + 1 ELSE d)
  /\ f.rx_next_pos = d
  /\ f.rxfin = e
  /\ d <= PeerBytes
  /\ e => d = PeerBytes /\ f.rx_ooo_len = 0

(* The out-of-order interval starts at byte s of the stream, beyond the    *)
(* next expected byte d, and ends inside the window and the stream.        *)
OooAt(f, d, s) ==
  /\ f.rx_ooo_start = Add(PeerIsn, s) /\ d < s
  /\ s + f.rx_ooo_len <= d + f.rx_avail
  /\ s + f.rx_ooo_len <= PeerBytes

(* The receive buffer buf holds bytes first..last-1 of the peer's stream.  *)
Held(buf, first, last) ==
  \A b \in Nat : first <= b /\ b < last => buf[b % RxLen] = b

(* Two states with the same receive side.                                  *)
RxSame(f, g) ==
  /\ g.rx_avail = f.rx_avail /\ g.rx_next_seq = f.rx_next_seq
  /\ g.rx_next_pos = f.rx_next_pos /\ g.rxfin = f.rxfin
  /\ g.rx_ooo_len = f.rx_ooo_len /\ g.rx_ooo_start = f.rx_ooo_start

-----------------------------------------------------------------------------
(* Numbers.                                                                *)

LEMMA PeerNat ==
  /\ PeerIsn \in Word /\ PeerBytes \in Nat /\ MaxSeg \in Nat
  /\ PeerBytes + MaxSeg + RxLen + 1 < WordMod
  BY FlowProtoAssumption, Zenon

(* Different bytes of a stream have different sequence numbers.            *)
LEMMA AddInj ==
  ASSUME NEW a \in Word, NEW n \in Nat, NEW m \in Nat, n < WordMod, m < WordMod,
         Add(a, n) = Add(a, m)
  PROVE  n = m
  <1>1. n \in Word /\ m \in Word  BY WordNat, Zenon
  <1>2. /\ Add(a, n) = IF a + n < WordMod THEN a + n ELSE a + n - WordMod
        /\ Add(a, m) = IF a + m < WordMod THEN a + m ELSE a + m - WordMod
    BY <1>1, WordAdd, Zenon
  <1>3. a \in Nat /\ a < WordMod /\ WordMod \in Nat  BY WordNat, WordModNat, Zenon
  <1>4. (IF a + n < WordMod THEN a + n ELSE a + n - WordMod)
          = IF a + m < WordMod THEN a + m ELSE a + m - WordMod
    BY <1>2, Zenon
  <1> QED  BY <1>3, <1>4

LEMMA AddZero ==
  ASSUME NEW a \in Word
  PROVE  Add(a, 0) = a
  <1>1. 0 \in Word /\ a \in Nat /\ a < WordMod  BY WordNat, WordModNat
  <1> QED  BY <1>1, WordAdd

(* Positions of the buffer: b and x less than a buffer length apart.       *)
LEMMA ModQuotient ==
  ASSUME NEW n \in Nat, n > 0, NEW b \in Nat
  PROVE  \E q \in Int : b = n * q + (b % n) /\ 0 <= b % n /\ b % n < n
  OBVIOUS

LEMMA ModUnique ==
  ASSUME NEW n \in Nat, n > 0, NEW a \in Int, NEW q \in Int, NEW r \in Int,
         a = n * q + r, 0 <= r, r < n
  PROVE  a % n = r
  OBVIOUS

(* In a window of one buffer length from byte w, payload of n bytes placed *)
(* at position x covers byte b's place exactly when b is one of them.      *)
LEMMA PlaceOf ==
  ASSUME NEW w \in Nat, NEW x \in Nat, NEW n \in Nat, NEW b \in Nat,
         w <= x, x + n <= w + RxLen, w <= b, b < w + RxLen
  PROVE  LET i == ((b % RxLen) - x) % RxLen
         IN  /\ i < n <=> (x <= b /\ b < x + n)
             /\ i < n => x + i = b
  <1> DEFINE p == b % RxLen  i == (p - x) % RxLen
  <1>0. RxLen \in Nat /\ RxLen > 0  BY WordModNat, Zenon
  <1>1. PICK q \in Int : b = RxLen * q + p /\ 0 <= p /\ p < RxLen
    BY <1>0, ModQuotient, Zenon
  <1>2. p \in Int  BY <1>0
  <1> HIDE DEF p
  <1>3. CASE x <= b /\ b < x + RxLen
    <2>1. p - x = RxLen * (-q) + (b - x)  BY <1>0, <1>1, <1>2
    <2>2. i = b - x  BY <1>0, <1>2, <1>3, <2>1, ModUnique
    <2> QED  BY <1>3, <2>2 DEF p
  <1>4. CASE b < x
    <2>1. p - x = RxLen * (-q - 1) + (b - x + RxLen)  BY <1>0, <1>1, <1>2
    <2>r. /\ -q - 1 \in Int /\ b - x + RxLen \in Int /\ p - x \in Int
          /\ 0 <= b - x + RxLen /\ b - x + RxLen < RxLen
      BY <1>0, <1>2, <1>4
    <2>2. i = b - x + RxLen  BY <1>0, <2>1, <2>r, ModUnique, Zenon
    <2> QED  BY <1>0, <1>4, <2>2 DEF p
  <1> QED  BY <1>0, <1>3, <1>4

(* tcp_trim_rxbuf in terms of the stream: n bytes at byte x against a      *)
(* receive side that expects byte d.                                       *)
LEMMA TrimAt ==
  ASSUME NEW f \in FlowState, NEW d \in Nat, NEW x \in Nat, NEW n \in Nat,
         f.rx_next_seq = Add(PeerIsn, d), f.rx_avail <= RxLen,
         d <= PeerBytes + 1, x + n <= PeerBytes
  PROVE  LET t == Trim(f, Add(PeerIsn, x), n)
         IN  /\ x <= d /\ d <= x + n =>
                  /\ ~t.drop /\ t.front = d - x
                  /\ t.back = IF x + n - d <= f.rx_avail THEN 0
                              ELSE x + n - d - f.rx_avail
             /\ x + n < d => t.drop
             /\ d < x =>
                  /\ t.drop <=> x - d >= f.rx_avail
                  /\ t.front = 0
                  /\ t.back = IF f.rx_avail - (x - d) >= n THEN 0
                              ELSE n - (f.rx_avail - (x - d))
  <1> DEFINE old == Sub(f.rx_next_seq, Add(PeerIsn, x))
             ahead == Sub(Add(PeerIsn, x), f.rx_next_seq)
             t == Trim(f, Add(PeerIsn, x), n)
  <1>0. /\ PeerIsn \in Word /\ PeerBytes \in Nat /\ MaxSeg \in Nat /\ RxLen \in Nat
        /\ PeerBytes + MaxSeg + RxLen + 1 < WordMod /\ WordMod \in Nat
        /\ f.rx_avail \in Nat
    BY PeerNat, WordModNat, FlowFields, WordNat, Zenon
  <1>1. d < WordMod /\ x < WordMod  BY <1>0
  <1>2. /\ old = IF x <= d THEN d - x ELSE d - x + WordMod
        /\ ahead = IF d <= x THEN x - d ELSE x - d + WordMod
    BY <1>0, <1>1, Distance
  <1>3. t = IF old <= n
            THEN [drop |-> FALSE, front |-> old,
                  back |-> IF n - old <= f.rx_avail THEN 0 ELSE n - old - f.rx_avail]
            ELSE [drop |-> ahead >= f.rx_avail, front |-> 0,
                  back |-> IF f.rx_avail - ahead >= n THEN 0
                           ELSE n - (f.rx_avail - ahead)]
    BY Zenon DEF Trim
  <1> HIDE DEF old, ahead, t
  <1>4. CASE x <= d /\ d <= x + n
    <2>1. old = d - x /\ old <= n /\ n - old = x + n - d  BY <1>2, <1>4
    <2> QED  BY <1>0, <1>3, <1>4, <2>1 DEF t
  <1>5. CASE x + n < d
    <2>1. old = d - x /\ ~(old <= n) /\ ahead = x - d + WordMod  BY <1>2, <1>5
    <2>2. ahead >= f.rx_avail  BY <1>0, <1>5, <2>1
    <2>3. t.drop  BY <1>3, <2>1, <2>2, Zenon
    <2> QED  BY <1>5, <2>3 DEF t
  <1>6. CASE d < x
    <2>1. old = d - x + WordMod /\ ahead = x - d  BY <1>2, <1>6
    <2>2. ~(old <= n)  BY <1>0, <1>6, <2>1
    <2>3. /\ t.drop <=> x - d >= f.rx_avail
          /\ t.front = 0
          /\ t.back = IF f.rx_avail - (x - d) >= n THEN 0
                      ELSE n - (f.rx_avail - (x - d))
      BY <1>3, <2>1, <2>2, Zenon
    <2> QED  BY <1>6, <2>3 DEF t
  <1> QED  BY <1>4, <1>5, <1>6, Zenon

-----------------------------------------------------------------------------
(* What the steps of a handler do to the receive side.                     *)

LEMMA RxSameOps ==
  ASSUME NEW f \in FlowState
  PROVE  /\ \A w : RxSame(f, [f EXCEPT !.tx_remote_avail = w])
         /\ \A k : RxSame(f, [f EXCEPT !.dupack_cnt = k])
         /\ RxSame(f, ResetRetransmit(f))
         /\ \A b : RxSame(f, AckBytes(f, b))
         /\ RxSame(f, f)
  BY Zenon DEF RxSame, FlowState, ResetRetransmit, AckBytes

LEMMA AdvanceRx ==
  ASSUME NEW f \in FlowState, NEW n
  PROVE  LET g == Advance(f, n)
         IN  /\ g.rx_next_seq = Add(f.rx_next_seq, n)
             /\ g.rx_next_pos = Add(f.rx_next_pos, n) /\ g.rxfin = f.rxfin
             /\ g.rx_ooo_len = f.rx_ooo_len /\ g.rx_ooo_start = f.rx_ooo_start
  BY Zenon DEF FlowState, Advance

LEMMA TakeFinRx ==
  ASSUME NEW f \in FlowState
  PROVE  LET g == TakeFin(f)
         IN  /\ g.rx_next_seq = Add(f.rx_next_seq, 1)
             /\ g.rx_next_pos = f.rx_next_pos /\ g.rxfin = TRUE
             /\ g.rx_ooo_len = f.rx_ooo_len /\ g.rx_ooo_start = f.rx_ooo_start
             /\ g.rx_avail = f.rx_avail
  BY Zenon DEF FlowState, TakeFin

(* Sequence number and position move together.                             *)
LEMMA MoveOn ==
  ASSUME NEW d \in Nat, NEW k \in Nat, d + k <= PeerBytes + 1
  PROVE  /\ Add(Add(PeerIsn, d), k) = Add(PeerIsn, d + k)
         /\ Add(d, k) = d + k
  <1>1. /\ PeerIsn \in Word /\ d + k < WordMod /\ d \in Word /\ k \in Word
    BY PeerNat, WordModNat, WordNat
  <1> QED  BY <1>1, AddAdd, WordAdd

(* The interval after rx_next_seq moved to byte d: what reaches up to d    *)
(* joins the stream, what is superfluous is forgotten, what lies beyond d  *)
(* is kept.                                                                *)
LEMMA Reassemble ==
  ASSUME NEW f \in FlowState, NEW d \in Nat, NEW s \in Nat,
         f.rx_next_seq = Add(PeerIsn, d), f.rx_next_pos = d,
         f.rx_avail <= RxLen, d <= PeerBytes,
         f.rx_ooo_len # 0 =>
           /\ f.rx_ooo_start = Add(PeerIsn, s)
           /\ s + f.rx_ooo_len <= d + f.rx_avail
           /\ s + f.rx_ooo_len <= PeerBytes
  PROVE  LET g == JoinOoo(TrimOoo(f))
             k == Joins(TrimOoo(f))
         IN  /\ k \in Nat /\ d + k <= PeerBytes
             /\ g.rx_next_seq = Add(PeerIsn, d + k) /\ g.rx_next_pos = d + k
             /\ g.rxfin = f.rxfin
             /\ k # 0 => s <= d /\ d + k = s + f.rx_ooo_len
             /\ g.rx_ooo_len # 0 =>
                  /\ k = 0 /\ d < s /\ f.rx_ooo_len # 0
                  /\ g.rx_ooo_len = f.rx_ooo_len /\ g.rx_ooo_start = f.rx_ooo_start
  <1> DEFINE l == f.rx_ooo_len
             t == Trim(f, f.rx_ooo_start, l)
             h == TrimOoo(f)
             k == Joins(h)
             g == JoinOoo(h)
  <1>0. /\ PeerIsn \in Word /\ PeerBytes \in Nat /\ RxLen \in Nat
        /\ PeerBytes + MaxSeg + RxLen + 1 < WordMod /\ WordMod \in Nat /\ MaxSeg \in Nat
        /\ f.rx_avail \in Nat /\ l \in Nat /\ l \in Word /\ f.rx_ooo_start \in Word
    BY PeerNat, WordModNat, FlowFields, WordNat, Zenon
  <1>h. h = IF l = 0 THEN f
            ELSE IF t.drop THEN [f EXCEPT !.rx_ooo_len = 0]
            ELSE [f EXCEPT !.rx_ooo_start = Add(f.rx_ooo_start, t.front),
                           !.rx_ooo_len   = Sub(Sub(l, t.front), t.back)]
    BY Zenon DEF TrimOoo, FlowState
  <1>H. /\ h \in FlowState /\ h.rx_next_seq = f.rx_next_seq
        /\ h.rx_next_pos = f.rx_next_pos /\ h.rxfin = f.rxfin
    <2>1. h \in FlowState  BY TrimOooGood, Zenon
    <2>2. /\ h.rx_next_seq = f.rx_next_seq
          /\ h.rx_next_pos = f.rx_next_pos /\ h.rxfin = f.rxfin
      <3> HIDE DEF t, h, l
      <3> QED  BY <1>h, Zenon DEF FlowState
    <2> QED  BY <2>1, <2>2, Zenon
  (* Nothing joins. *)
  <1>n. ASSUME k = 0 PROVE g = h /\ d + k = d
    BY <1>n DEF JoinOoo
  <1>1. CASE l = 0
    <2>1. h = f  BY <1>h, <1>1, Zenon
    <2>2. k = 0  BY <1>1, <2>1, Zenon DEF Joins
    <2>3. g = f /\ d + k = d  BY <1>n, <2>1, <2>2, Zenon
    <2> HIDE DEF g, k
    <2> QED  BY <1>1, <2>2, <2>3 DEF g, k
  <1>2. CASE l # 0
    <2>0. /\ f.rx_ooo_start = Add(PeerIsn, s) /\ s + l <= d + f.rx_avail
          /\ s + l <= PeerBytes
      BY <1>2, Zenon
    <2>t. /\ s <= d /\ d <= s + l =>
               /\ ~t.drop /\ t.front = d - s
               /\ t.back = IF s + l - d <= f.rx_avail THEN 0
                           ELSE s + l - d - f.rx_avail
          /\ s + l < d => t.drop
          /\ d < s =>
               /\ t.drop <=> s - d >= f.rx_avail
               /\ t.front = 0
               /\ t.back = IF f.rx_avail - (s - d) >= l THEN 0
                           ELSE l - (f.rx_avail - (s - d))
      <3>1. t = Trim(f, Add(PeerIsn, s), l)  BY <2>0, Zenon
      <3>2. d <= PeerBytes + 1  BY <1>0
      <3> HIDE DEF t, l
      <3> QED  BY <1>0, <2>0, <3>1, <3>2, TrimAt
    <2> HIDE DEF t, h
    <2>1. CASE s + l < d
      <3>1. h = [f EXCEPT !.rx_ooo_len = 0]  BY <1>2, <1>h, <2>1, <2>t, Zenon
      <3>2. h.rx_ooo_len = 0  BY <3>1, Zenon DEF FlowState
      <3>3. k = 0  BY <3>2, Zenon DEF Joins
      <3>4. g = h /\ d + k = d  BY <1>n, <3>3, Zenon
      <3> HIDE DEF g, k
      <3> QED  BY <1>H, <3>2, <3>3, <3>4 DEF g, k, h
    <2>2. CASE s <= d /\ d <= s + l
      <3>1. ~t.drop /\ t.front = d - s /\ t.back = 0
        BY <1>0, <2>0, <2>2, <2>t
      <3>2. Sub(l, d - s) = s + l - d /\ Sub(l, d - s) \in Word
        <4>1. d - s \in Word  BY <1>0, <2>0, <2>2, WordNat
        <4>2. Sub(l, d - s) = l - (d - s) /\ Sub(l, d - s) \in Word
          BY <1>0, <2>2, <4>1, WordSub
        <4> QED  BY <1>0, <4>2
      <3>3. Sub(Sub(l, d - s), 0) = s + l - d
        <4>1. 0 \in Word  BY WordNat, WordModNat
        <4>2. s + l - d \in Nat  BY <1>0, <2>2
        <4> QED  BY <3>2, <4>1, <4>2, WordSub
      <3>4. Add(f.rx_ooo_start, d - s) = Add(PeerIsn, d)
        <4>1. d - s \in Nat /\ s + (d - s) = d  BY <2>2
        <4> QED  BY <1>0, <2>0, <4>1, MoveOn
      <3>5. h.rx_ooo_len = s + l - d /\ h.rx_ooo_start = h.rx_next_seq
        <4>1. h = [f EXCEPT !.rx_ooo_start = Add(PeerIsn, d), !.rx_ooo_len = s + l - d]
          BY <1>2, <1>h, <3>1, <3>3, <3>4, Zenon
        <4> QED  BY <1>H, <4>1, Zenon DEF FlowState
      <3>6. k = s + l - d /\ k \in Nat /\ d + k = s + l
        <4>1. s + l - d \in Nat  BY <1>0, <2>2
        <4>2. k = s + l - d  BY <3>5, <4>1 DEF Joins
        <4> HIDE DEF k
        <4> QED  BY <1>0, <4>1, <4>2
      <3>7. CASE k = 0
        <4>1. g = h /\ d + k = d /\ h.rx_ooo_len = 0  BY <1>n, <3>5, <3>6, <3>7, Zenon
        <4> HIDE DEF g, k
        <4> QED  BY <1>H, <3>7, <4>1 DEF g, k, h
      <3>8. CASE k # 0
        <4> DEFINE a == Advance(h, k)
        <4>1. g = [a EXCEPT !.rx_ooo_len = 0]  BY <3>8, Zenon DEF JoinOoo
        <4> HIDE DEF k, g
        <4>2. /\ a.rx_next_seq = Add(h.rx_next_seq, k)
              /\ a.rx_next_pos = Add(h.rx_next_pos, k) /\ a.rxfin = h.rxfin
          BY <1>H, AdvanceRx, Zenon
        <4>4. /\ g.rx_next_seq = Add(h.rx_next_seq, k)
              /\ g.rx_next_pos = Add(h.rx_next_pos, k)
              /\ g.rxfin = h.rxfin /\ g.rx_ooo_len = 0
          <5>1. g = [h EXCEPT !.rx_avail = Sub(@, k), !.rx_next_seq = Add(@, k),
                              !.rx_next_pos = Add(@, k), !.rx_ooo_len = 0]
            BY <4>1, Zenon DEF Advance
          <5> QED  BY <1>H, <5>1, Zenon DEF FlowState
        <4>5. d + k <= PeerBytes  BY <2>0, <3>6, Zenon
        <4>6. /\ g.rx_next_seq = Add(PeerIsn, d + k) /\ g.rx_next_pos = d + k
          BY <1>0, <1>H, <3>6, <4>4, <4>5, MoveOn
        <4> QED  BY <1>H, <2>2, <3>6, <4>4, <4>5, <4>6 DEF g, k, h
      <3> QED  BY <3>7, <3>8, Zenon
    <2>3. CASE d < s
      <3>1. ~t.drop /\ t.front = 0 /\ t.back = 0
        BY <1>0, <1>2, <2>0, <2>3, <2>t
      <3>2. Sub(Sub(l, 0), 0) = l /\ Add(f.rx_ooo_start, 0) = f.rx_ooo_start
        <4>1. 0 \in Word  BY WordNat, WordModNat
        <4>2. Sub(l, 0) = l  BY <1>0, <4>1, WordSub
        <4> QED  BY <1>0, <4>2, AddZero, Zenon
      <3>3. h.rx_ooo_len = l /\ h.rx_ooo_start = f.rx_ooo_start
        BY <1>2, <1>h, <3>1, <3>2, Zenon DEF FlowState
      <3>4. h.rx_ooo_start # h.rx_next_seq
        <4>1. s < WordMod /\ d < WordMod /\ s # d  BY <1>0, <2>0, <2>3
        <4> QED  BY <1>0, <1>H, <2>0, <3>3, <4>1, AddInj, Zenon
      <3>5. k = 0  BY <3>4, Zenon DEF Joins
      <3>6. g = h /\ d + k = d  BY <1>n, <3>5, Zenon
      <3> HIDE DEF g, k
      <3> QED  BY <1>2, <1>H, <2>3, <3>3, <3>5, <3>6 DEF g, k, h
    <2> QED  BY <1>0, <2>1, <2>2, <2>3
  <1> QED  BY <1>1, <1>2, Zenon

-----------------------------------------------------------------------------
(* What a received packet does to the receive side.                        *)

(* Byte b is among the n bytes placed from byte x on, or in the            *)
(* out-of-order interval of f, which starts at byte s.                     *)
Arrived(f, s, x, n, b) ==
  \/ x <= b /\ b < x + n
  \/ f.rx_ooo_len # 0 /\ s <= b /\ b < s + f.rx_ooo_len

(* A packet that carries the stream from byte from on, received by f at    *)
(* byte d, with the outcome r.  The FIN is reported at the end of the      *)
(* stream only; payload is placed inside the free part of the buffer,      *)
(* where its stream offset says; and what becomes in order, or is kept out *)
(* of order, has arrived.                                                  *)
RxOut(f, d, e, s, from, r) ==
  LET g   == r.fs
      k   == r.res.rx_bump
      x   == from + r.res.dma.off
      n   == r.res.dma.len
      fin == "FIN" \in r.res.flags
  IN  /\ k \in Nat /\ (e => k = 0) /\ (fin => ~e)
      /\ fin => "DMA_ACDESC" \in r.res.flags
      /\ RxAt(g, d + k, e \/ fin)
      /\ "DMA_PAYLOAD" \notin r.res.flags =>
           /\ k = 0
           /\ g.rx_ooo_len = f.rx_ooo_len /\ g.rx_ooo_start = f.rx_ooo_start
      /\ "DMA_PAYLOAD" \in r.res.flags =>
           /\ x \in Nat /\ n \in Nat /\ r.res.dma.pos = x
           /\ d <= x /\ x + n <= d + f.rx_avail
           /\ \A b \in Nat : d <= b /\ b < d + k => Arrived(f, s, x, n, b)
           /\ g.rx_ooo_len # 0 =>
                \E z \in Nat :
                  /\ OooAt(g, d + k, z)
                  /\ \A b \in Nat : z <= b /\ b < z + g.rx_ooo_len =>
                       Arrived(f, s, x, n, b)

(* Where the receive side of a connection stands before a packet.          *)
RxBefore(f, d, e, s) ==
  /\ Sane(f) /\ d \in Nat /\ s \in Nat /\ e \in BOOLEAN
  /\ RxAt(f, d, e)
  /\ f.rx_ooo_len # 0 => OooAt(f, d, s)

(* A packet from which neither payload nor a FIN is taken.                 *)
LEMMA OutSame ==
  ASSUME NEW f, NEW d, NEW e, NEW s, RxBefore(f, d, e, s), NEW from,
         NEW g, RxSame(f, g), NEW fl, "FIN" \notin fl, "DMA_PAYLOAD" \notin fl,
         NEW tb, NEW dma
  PROVE  RxOut(f, d, e, s, from, Finalize(f, g, fl, 0, tb, dma))
  <1> DEFINE r == Finalize(f, g, fl, 0, tb, dma)
  <1>1. /\ r.fs = g /\ r.res.rx_bump = 0
        /\ "FIN" \notin r.res.flags /\ "DMA_PAYLOAD" \notin r.res.flags
    BY FinalizeFs
  <1> HIDE DEF r
  <1>2. d \in Nat /\ d + 0 = d /\ e \in BOOLEAN  BY DEF RxBefore
  <1>3. RxAt(g, d, e)  BY Zenon DEF RxBefore, RxAt, RxSame
  <1>4. RxOut(f, d, e, s, from, r)
    BY <1>1, <1>2, <1>3 DEF RxOut, RxSame
  <1> QED  BY <1>4, Zenon DEF r

(* A FIN at the end of the stream, without payload.                        *)
LEMMA OutFin ==
  ASSUME NEW f, NEW d, NEW e, NEW s, RxBefore(f, d, e, s), NEW from,
         NEW g \in FlowState, RxSame(f, g), NEW fl, "FIN" \in fl,
         "DMA_ACDESC" \in fl, "DMA_PAYLOAD" \notin fl,
         NEW tb, NEW dma, ~e, d = PeerBytes, f.rx_ooo_len = 0
  PROVE  RxOut(f, d, e, s, from, Finalize(f, TakeFin(g), fl, 0, tb, dma))
  <1> DEFINE r == Finalize(f, TakeFin(g), fl, 0, tb, dma)
  <1>1. /\ r.fs = TakeFin(g) /\ r.res.rx_bump = 0
        /\ "FIN" \in r.res.flags /\ "DMA_PAYLOAD" \notin r.res.flags
        /\ "DMA_ACDESC" \in r.res.flags
    BY FinalizeFs
  <1> HIDE DEF r
  <1>2. d \in Nat /\ d + 0 = d /\ e \in BOOLEAN  BY DEF RxBefore
  <1>3. /\ r.fs.rx_next_seq = Add(g.rx_next_seq, 1)
        /\ r.fs.rx_next_pos = g.rx_next_pos /\ r.fs.rxfin = TRUE
        /\ r.fs.rx_ooo_len = g.rx_ooo_len /\ r.fs.rx_ooo_start = g.rx_ooo_start
    BY <1>1, TakeFinRx, Zenon
  <1>4. Add(Add(PeerIsn, d), 1) = Add(PeerIsn, d + 1)
    BY <1>2, MoveOn, PeerNat
  <1>5. RxAt(r.fs, d, TRUE)
    BY <1>2, <1>3, <1>4, Zenon DEF RxBefore, RxAt, RxSame
  <1>6. RxAt(r.fs, d + r.res.rx_bump, e \/ "FIN" \in r.res.flags)
    <2>1. (e \/ "FIN" \in r.res.flags) = TRUE  BY <1>1, Zenon
    <2>2. d + r.res.rx_bump = d  BY <1>1, <1>2, Zenon
    <2> QED  BY <1>5, <2>1, <2>2, Zenon
  <1>7. RxOut(f, d, e, s, from, r)
    BY <1>1, <1>2, <1>3, <1>6 DEF RxOut, RxSame
  <1> QED  BY <1>7, Zenon DEF r

(* A packet without payload.                                               *)
LEMMA FlowsAckOut ==
  ASSUME NEW f, NEW d, NEW e, NEW s, RxBefore(f, d, e, s),
         NEW from \in 0..(PeerBytes + 1), NEW fin \in BOOLEAN, NEW ack \in Nat,
         NEW win \in Word, fin => from = PeerBytes
  PROVE  RxOut(f, d, e, s, from, FlowsAck(f, Packet(from, 0, fin, ack, win)))
  <1> DEFINE pkt   == Packet(from, 0, fin, ack, win)
             b     == AckBump(f, pkt.ack)
             dup   == AckValid(f, pkt.ack) /\ b = 0
             acked_ == IF b # 0 THEN AckBytes(f, b) ELSE
                       IF dup THEN [f EXCEPT !.dupack_cnt = @ + 1] ELSE f
             flags == AckFlags(acked_, b)
             fresh == [acked_ EXCEPT !.tx_remote_avail = pkt.win]
             takes == pkt.fin /\ ~f.rxfin /\ f.rx_ooo_len = 0
             third == InWindow(f, pkt.seq) /\ dup /\ ThirdDup(f)
  <1>0. /\ f \in FlowState /\ Sane(f) /\ d \in Nat /\ e \in BOOLEAN /\ RxAt(f, d, e)
    BY Zenon DEF RxBefore, Sane
  <1>p. pkt.seq = Add(PeerIsn, from) /\ pkt.fin = fin /\ pkt.win = win
        /\ pkt.ack = Add(Isn, ack)
    BY Zenon DEF Packet
  <1> HIDE DEF pkt
  <1>w. pkt.ack \in Word
    BY <1>p, FlowProtoAssumption, WordModNat DEF Add, Word
  <1>1. CASE ~InWindow(f, pkt.seq)
    <2>1. FlowsAck(f, pkt) = Finalize(f, f, {"TX"}, 0, 0, NoDma)
      BY <1>1, Zenon DEF FlowsAck
    <2>2. RxSame(f, f)  BY Zenon DEF RxSame
    <2>3. "FIN" \notin {"TX"} /\ "DMA_PAYLOAD" \notin {"TX"}  BY Zenon
    <2> QED  BY <2>1, <2>2, <2>3, OutSame DEF pkt
  <1>2. CASE third
    <2>1. FlowsAck(f, pkt) = Finalize(f, ResetRetransmit(f), {"RETX"}, 0, 0, NoDma)
      BY <1>2, Zenon DEF FlowsAck
    <2>2. RxSame(f, ResetRetransmit(f))  BY <1>0, RxSameOps, Zenon
    <2>3. "FIN" \notin {"RETX"} /\ "DMA_PAYLOAD" \notin {"RETX"}  BY Zenon
    <2> QED  BY <2>1, <2>2, <2>3, OutSame DEF pkt
  <1>3. CASE InWindow(f, pkt.seq) /\ ~third
    <2>1. acked_ \in FlowState /\ RxSame(f, acked_)
      <3>1. CASE b # 0
        <4>1. acked_ = AckBytes(f, b)  BY <3>1, Zenon
        <4>2. acked_ \in FlowState  BY <1>0, <1>w, <3>1, AckedGood
        <4> QED  BY <1>0, <4>1, <4>2, RxSameOps, Zenon
      <3>2. CASE b = 0 /\ dup
        <4>1. f.dupack_cnt \in 0..2 /\ ~(f.dupack_cnt >= 2)
          BY <1>0, <1>3, <3>2, FlowFields, Zenon DEF ThirdDup
        <4>2. f.dupack_cnt + 1 \in 0..2  BY <4>1
        <4>3. acked_ = [f EXCEPT !.dupack_cnt = f.dupack_cnt + 1]  BY <1>0, <3>2, Zenon
        <4>4. RxSame(f, [f EXCEPT !.dupack_cnt = f.dupack_cnt + 1])
          BY <1>0, RxSameOps, Zenon
        <4> HIDE DEF acked_
        <4> QED  BY <1>0, <4>2, <4>3, <4>4, Zenon DEF FlowState
      <3>3. CASE b = 0 /\ ~dup
        <4>1. acked_ = f  BY <3>3, Zenon
        <4> QED  BY <1>0, <4>1, RxSameOps, Zenon
      <3> QED  BY <3>1, <3>2, <3>3, Zenon
    <2>2. FlowsAck(f, pkt) =
            IF pkt.seq # f.rx_next_seq
            THEN Finalize(f, acked_, flags \cup {"TX"}, 0, b, NoDma)
            ELSE IF takes
            THEN Finalize(f, TakeFin(fresh), flags \cup {"FIN", "TX", "DMA_ACDESC"},
                          0, b, NoDma)
            ELSE Finalize(f, fresh, flags, 0, b, NoDma)
      BY <1>3, Zenon DEF FlowsAck
    <2>f. "FIN" \notin flags /\ "DMA_PAYLOAD" \notin flags  BY Zenon DEF AckFlags
    <2> HIDE DEF acked_, flags
    <2>3. fresh \in FlowState  BY <1>p, <2>1, Zenon DEF FlowState
    <2>4. RxSame(f, fresh)
      <3>1. RxSame(acked_, fresh)  BY <2>1, RxSameOps, Zenon
      <3> QED  BY <2>1, <3>1, Zenon DEF RxSame
    <2> HIDE DEF fresh, takes
    <2>5. CASE pkt.seq # f.rx_next_seq
      <3>1. "FIN" \notin flags \cup {"TX"} /\ "DMA_PAYLOAD" \notin flags \cup {"TX"}
        BY <2>f, Zenon
      <3> QED  BY <2>1, <2>2, <2>5, <3>1, OutSame DEF pkt
    <2>6. CASE pkt.seq = f.rx_next_seq /\ takes
      <3> DEFINE fl == flags \cup {"FIN", "TX", "DMA_ACDESC"}
      <3>1. "FIN" \in fl /\ "DMA_ACDESC" \in fl /\ "DMA_PAYLOAD" \notin fl
        BY <2>f, Zenon
      <3> HIDE DEF fl
      <3>2. ~e /\ from = PeerBytes /\ f.rx_ooo_len = 0
        BY <1>0, <1>p, <2>6, Zenon DEF takes, RxAt
      <3>3. Add(PeerIsn, from) = Add(PeerIsn, d)
        BY <1>0, <1>p, <2>6, <3>2, Zenon DEF RxAt
      <3>4. d <= PeerBytes  BY <1>0, Zenon DEF RxAt
      <3>5. d < WordMod /\ from < WordMod /\ from \in Nat
        BY <1>0, <3>2, <3>4, PeerNat, WordModNat
      <3>6. d = PeerBytes  BY <1>0, <3>2, <3>3, <3>5, AddInj, PeerNat, Zenon
      <3>7. FlowsAck(f, pkt) = Finalize(f, TakeFin(fresh), fl, 0, b, NoDma)
        BY <2>2, <2>6, Zenon DEF fl
      <3> QED  BY <2>3, <2>4, <3>1, <3>2, <3>6, <3>7, OutFin, Zenon DEF pkt
    <2>7. CASE pkt.seq = f.rx_next_seq /\ ~takes
      BY <2>2, <2>4, <2>7, <2>f, OutSame, Zenon DEF pkt
    <2> QED  BY <2>5, <2>6, <2>7, Zenon
  <1> QED  BY <1>1, <1>2, <1>3, Zenon

(* Payload ahead of the next expected byte.                                *)
LEMMA SegOutOfOrderOut ==
  ASSUME NEW f, NEW d, NEW e, NEW s, RxBefore(f, d, e, s), ~e,
         NEW from \in Nat, NEW len \in Nat, d < from, len # 0,
         from + len <= d + f.rx_avail, from + len <= PeerBytes,
         NEW a \in FlowState, RxSame(f, a),
         NEW fl, "FIN" \notin fl, "DMA_PAYLOAD" \notin fl, NEW b
  PROVE  RxOut(f, d, e, s, from,
               SegOutOfOrder(f, a, fl, b, Add(PeerIsn, from), 0, len))
  <1> DEFINE seq == Add(PeerIsn, from)
             l   == f.rx_ooo_len
             g   == StoreOoo(a, seq, len)
             dma == [pos |-> Add(f.rx_next_pos, Sub(seq, f.rx_next_seq)),
                     off |-> 0, len |-> len]
             r   == Finalize(f, g, fl \cup {"DMA_PAYLOAD"}, 0, b, dma)
  <1>0. /\ f \in FlowState /\ d \in Nat /\ s \in Nat /\ e = FALSE
        /\ f.rx_next_seq = Add(PeerIsn, d) /\ f.rx_next_pos = d /\ d <= PeerBytes
        /\ f.rxfin = FALSE /\ RxAt(f, d, e)
        /\ l # 0 => OooAt(f, d, s)
    BY Zenon DEF RxBefore, RxAt, Sane
  <1>1. /\ PeerIsn \in Word /\ PeerBytes \in Nat /\ MaxSeg \in Nat
        /\ PeerBytes + MaxSeg + RxLen + 1 < WordMod /\ WordMod \in Nat
        /\ RxLen \in Nat /\ f.rx_avail \in Nat /\ l \in Nat /\ l \in Word
    BY <1>0, PeerNat, WordModNat, FlowFields, WordNat, Zenon
  <1>2. CASE ~(OooFront(f, seq, len) \/ OooBack(f, seq))
    <2>1. SegOutOfOrder(f, a, fl, b, seq, 0, len) = Finalize(f, a, fl, 0, b, NoDma)
      BY <1>2, Zenon DEF SegOutOfOrder
    <2> QED  BY <2>1, OutSame, Zenon
  <1>3. CASE OooFront(f, seq, len) \/ OooBack(f, seq)
    <2>1. SegOutOfOrder(f, a, fl, b, seq, 0, len) = r
      BY <1>3, Zenon DEF SegOutOfOrder
    <2>d. dma.off = 0 /\ dma.len = len /\ dma.pos = from
      <3>1. Sub(seq, f.rx_next_seq) = from - d
        <4>1. from < WordMod /\ d < WordMod  BY <1>0, <1>1
        <4> QED  BY <1>0, <1>1, <4>1, Distance
      <3>2. from - d \in Nat /\ d + (from - d) = from /\ from <= PeerBytes + 1
        BY <1>0, <1>1
      <3>3. Add(d, from - d) = from  BY <1>0, <3>2, MoveOn
      <3> QED  BY <1>0, <3>1, <3>3, Zenon
    <2>2. /\ r.fs = g /\ r.res.rx_bump = 0 /\ r.res.dma = dma
          /\ "FIN" \notin r.res.flags /\ "DMA_PAYLOAD" \in r.res.flags
      <3>1. "FIN" \notin fl \cup {"DMA_PAYLOAD"}
            /\ "DMA_PAYLOAD" \in fl \cup {"DMA_PAYLOAD"}
        BY Zenon
      <3> QED  BY <3>1, FinalizeFs
    <2>3. /\ g.rx_avail = f.rx_avail /\ g.rx_next_seq = f.rx_next_seq
          /\ g.rx_next_pos = f.rx_next_pos /\ g.rxfin = f.rxfin
      <3>1. /\ g.rx_avail = a.rx_avail /\ g.rx_next_seq = a.rx_next_seq
            /\ g.rx_next_pos = a.rx_next_pos /\ g.rxfin = a.rxfin
        BY Zenon DEF StoreOoo, FlowState
      <3> QED  BY <3>1, Zenon DEF RxSame
    <2>4. OooFront(a, seq, len) <=> OooFront(f, seq, len)
      BY Zenon DEF OooFront, RxSame
    <2>5. OooBack(a, seq) <=> OooBack(f, seq)
      BY Zenon DEF OooBack, RxSame
    <2>w. len \in Word /\ l + len < WordMod => Add(l, len) = l + len
      BY <1>1, WordNat, WordAdd, Zenon
    <2>x. len \in Word /\ 0 \in Word  BY <1>1, WordNat, WordModNat
    <2>6. \E z \in Nat :
            /\ OooAt(g, d, z)
            /\ \A y \in Nat : z <= y /\ y < z + g.rx_ooo_len =>
                 Arrived(f, s, from, len, y)
      <3>1. CASE l = 0
        <4>1. OooFront(a, seq, len)  BY <2>4, <3>1, Zenon DEF OooFront
        <4>2. g.rx_ooo_len = Add(a.rx_ooo_len, len) /\ g.rx_ooo_start = seq
          BY <4>1, Zenon DEF StoreOoo, FlowState
        <4>3. a.rx_ooo_len = 0  BY <3>1, Zenon DEF RxSame
        <4>4. g.rx_ooo_len = len  BY <1>1, <2>w, <2>x, <3>1, <4>2, <4>3
        <4> HIDE DEF g
        <4>5. OooAt(g, d, from)  BY <1>1, <2>3, <4>2, <4>4, Zenon DEF OooAt
        <4>6. \A y \in Nat : from <= y /\ y < from + g.rx_ooo_len =>
                Arrived(f, s, from, len, y)
          BY <4>4, Zenon DEF Arrived
        <4> QED  BY <4>5, <4>6, Zenon
      <3>2. CASE l # 0 /\ Add(seq, len) = f.rx_ooo_start
        <4>0. /\ f.rx_ooo_start = Add(PeerIsn, s) /\ d < s
              /\ s + l <= d + f.rx_avail /\ s + l <= PeerBytes
          BY <1>0, <3>2, Zenon DEF OooAt
        <4>1. OooFront(a, seq, len)  BY <2>4, <3>2, Zenon DEF OooFront
        <4>2. g.rx_ooo_len = Add(a.rx_ooo_len, len) /\ g.rx_ooo_start = seq
          BY <4>1, Zenon DEF StoreOoo, FlowState
        <4>3. from + len = s
          <5>1. from + len <= PeerBytes + 1 /\ from + len < WordMod /\ s < WordMod
            BY <1>0, <1>1, <4>0
          <5>2. Add(PeerIsn, from + len) = Add(PeerIsn, s)
            BY <3>2, <4>0, <5>1, MoveOn, Zenon
          <5> QED  BY <1>0, <1>1, <5>1, <5>2, AddInj
        <4>4. g.rx_ooo_len = l + len
          <5>1. l + len < WordMod  BY <1>0, <1>1, <4>0, <4>3
          <5>2. a.rx_ooo_len = l  BY Zenon DEF RxSame
          <5> QED  BY <2>w, <2>x, <4>2, <5>1, <5>2, Zenon
        <4> HIDE DEF g
        <4>5. OooAt(g, d, from)
          BY <1>0, <1>1, <2>3, <4>0, <4>2, <4>3, <4>4 DEF OooAt
        <4>6. \A y \in Nat : from <= y /\ y < from + g.rx_ooo_len =>
                Arrived(f, s, from, len, y)
          BY <1>0, <1>1, <3>2, <4>3, <4>4 DEF Arrived
        <4> QED  BY <4>5, <4>6, Zenon
      <3>3. CASE l # 0 /\ Add(seq, len) # f.rx_ooo_start
        <4>0. /\ f.rx_ooo_start = Add(PeerIsn, s) /\ d < s
              /\ s + l <= d + f.rx_avail /\ s + l <= PeerBytes
          BY <1>0, <3>3, Zenon DEF OooAt
        <4>1. ~OooFront(a, seq, len) /\ OooBack(a, seq) /\ OooBack(f, seq)
          BY <1>3, <2>4, <2>5, <3>3, Zenon DEF OooFront
        <4>2. g.rx_ooo_len = Add(a.rx_ooo_len, len) /\ g.rx_ooo_start = a.rx_ooo_start
          BY <4>1, Zenon DEF StoreOoo, FlowState
        <4>3. s + l = from
          <5>1. s + l <= PeerBytes + 1 /\ s + l < WordMod /\ from < WordMod
            BY <1>0, <1>1, <4>0
          <5>2. Add(PeerIsn, s + l) = Add(PeerIsn, from)
            BY <1>0, <1>1, <4>0, <4>1, <5>1, MoveOn DEF OooBack
          <5> QED  BY <1>0, <1>1, <5>1, <5>2, AddInj
        <4>4. g.rx_ooo_len = l + len /\ g.rx_ooo_start = Add(PeerIsn, s)
          <5>1. l + len < WordMod  BY <1>0, <1>1, <4>0, <4>3
          <5>2. a.rx_ooo_len = l /\ a.rx_ooo_start = f.rx_ooo_start
            BY Zenon DEF RxSame
          <5> QED  BY <2>w, <2>x, <4>0, <4>2, <5>1, <5>2
        <4> HIDE DEF g
        <4>5. OooAt(g, d, s)
          BY <1>0, <1>1, <2>3, <4>0, <4>3, <4>4 DEF OooAt
        <4>6. \A y \in Nat : s <= y /\ y < s + g.rx_ooo_len =>
                Arrived(f, s, from, len, y)
          BY <1>0, <1>1, <3>3, <4>3, <4>4 DEF Arrived
        <4> QED  BY <1>0, <4>5, <4>6, Zenon
      <3> QED  BY <3>1, <3>2, <3>3, Zenon
    <2> HIDE DEF r, g, dma
    <2>7. RxAt(r.fs, d + r.res.rx_bump, e \/ "FIN" \in r.res.flags)
      <3>1. RxAt(g, d, e)  BY <1>0, <2>3, Zenon DEF RxAt
      <3>2. (e \/ "FIN" \in r.res.flags) = e  BY <1>0, <2>2, Zenon
      <3>3. d + r.res.rx_bump = d  BY <1>0, <2>2
      <3> QED  BY <2>2, <3>1, <3>2, <3>3, Zenon
    <2>8. RxOut(f, d, e, s, from, r)
      <3>1. from + r.res.dma.off = from /\ r.res.dma.len = len
            /\ r.res.dma.pos = from /\ d + r.res.rx_bump = d
        BY <1>0, <2>2, <2>d
      <3>2. \A y \in Nat : ~(d <= y /\ y < d)  BY <1>0
      <3> QED  BY <1>0, <2>2, <2>6, <2>7, <3>1, <3>2 DEF RxOut
    <2> QED  BY <2>1, <2>8, Zenon
  <1> QED  BY <1>2, <1>3, Zenon

(* Payload at the next expected byte.                                      *)
LEMMA SegInOrderOut ==
  ASSUME NEW f, NEW d, NEW e, NEW s, RxBefore(f, d, e, s), ~e,
         NEW from \in Nat, NEW front \in Nat, from + front = d,
         NEW len \in Nat, len <= f.rx_avail, d + len <= PeerBytes,
         NEW a \in FlowState, RxSame(f, a),
         NEW fl, "FIN" \notin fl, "DMA_PAYLOAD" \notin fl, NEW b,
         NEW pkt, pkt.win \in Word, pkt.seq = Add(PeerIsn, from),
         pkt.plen \in Nat, from + pkt.plen <= PeerBytes,
         pkt.fin => from + pkt.plen = PeerBytes
  PROVE  RxOut(f, d, e, s, from, SegInOrder(f, a, fl, b, pkt, front, len))
  <1> DEFINE fresh   == [a EXCEPT !.tx_remote_avail = pkt.win]
             adv     == Advance(fresh, len)
             trimmed == TrimOoo(adv)
             joined  == IF len = 0 THEN fresh ELSE JoinOoo(trimmed)
             rb      == IF len = 0 THEN 0 ELSE len + Joins(trimmed)
             moved   == IF len = 0 THEN fl ELSE fl \cup {"DMA_PAYLOAD", "DMA_ACDESC"}
             dma     == IF len = 0 THEN NoDma
                        ELSE [pos |-> f.rx_next_pos, off |-> front, len |-> len]
             fin     == pkt.fin /\ ~f.rxfin /\ FinInOrder(joined, pkt)
             l       == f.rx_ooo_len
  <1>0. /\ f \in FlowState /\ d \in Nat /\ s \in Nat /\ e = FALSE
        /\ f.rx_next_seq = Add(PeerIsn, d) /\ f.rx_next_pos = d /\ d <= PeerBytes
        /\ f.rxfin = FALSE /\ RxAt(f, d, e) /\ f.rx_avail <= RxLen
        /\ l # 0 => OooAt(f, d, s)
    BY Zenon DEF RxBefore, RxAt, Sane
  <1>1. /\ PeerIsn \in Word /\ PeerBytes \in Nat /\ MaxSeg \in Nat
        /\ PeerBytes + MaxSeg + RxLen + 1 < WordMod /\ WordMod \in Nat
        /\ RxLen \in Nat /\ f.rx_avail \in Nat /\ l \in Nat /\ len \in Word
    BY <1>0, PeerNat, WordModNat, FlowFields, WordNat
  <1>2. SegInOrder(f, a, fl, b, pkt, front, len) =
          IF fin
          THEN Finalize(f, TakeFin(joined), moved \cup {"FIN", "DMA_ACDESC"}, rb, b, dma)
          ELSE Finalize(f, joined, moved, rb, b, dma)
    BY <1>0, Zenon DEF SegInOrder
  <1>3. fresh \in FlowState /\ RxSame(f, fresh)
    <2>1. fresh \in FlowState  BY Zenon DEF FlowState
    <2>2. RxSame(a, fresh)  BY RxSameOps, Zenon
    <2> QED  BY <2>1, <2>2, Zenon DEF RxSame
  <1> HIDE DEF fresh
  (* A FIN that counts is at the end of the stream. *)
  <1>4. ASSUME fin, NEW n \in Nat, n <= PeerBytes, joined.rx_next_seq = Add(PeerIsn, n)
        PROVE  n = PeerBytes /\ joined.rx_ooo_len = 0
    <2>1. Add(PeerIsn, n) = Add(Add(PeerIsn, from), pkt.plen)
          /\ joined.rx_ooo_len = 0 /\ from + pkt.plen = PeerBytes
      BY <1>4, Zenon DEF FinInOrder
    <2>2. Add(Add(PeerIsn, from), pkt.plen) = Add(PeerIsn, PeerBytes)
      BY <1>1, <2>1, MoveOn
    <2>3. n < WordMod /\ PeerBytes < WordMod  BY <1>1, <1>4
    <2> QED  BY <1>1, <1>4, <2>1, <2>2, <2>3, AddInj, Zenon
  <1>5. CASE len = 0
    <2>1. joined = fresh /\ rb = 0 /\ moved = fl  BY <1>5, Zenon
    <2>2. CASE fin
      <3>1. d = PeerBytes /\ f.rx_ooo_len = 0
        <4>1. joined.rx_next_seq = Add(PeerIsn, d)  BY <1>0, <1>3, <2>1, Zenon DEF RxSame
        <4>2. d = PeerBytes /\ joined.rx_ooo_len = 0  BY <1>0, <1>4, <2>2, <4>1, Zenon
        <4> QED  BY <1>3, <2>1, <4>2, Zenon DEF RxSame
      <3>2. /\ "FIN" \in fl \cup {"FIN", "DMA_ACDESC"}
            /\ "DMA_ACDESC" \in fl \cup {"FIN", "DMA_ACDESC"}
            /\ "DMA_PAYLOAD" \notin fl \cup {"FIN", "DMA_ACDESC"}
        BY Zenon
      <3> HIDE DEF fin, dma
      <3> QED  BY <1>2, <1>3, <2>1, <2>2, <3>1, <3>2, OutFin
    <2>3. CASE ~fin
      <3> HIDE DEF fin, dma
      <3> QED  BY <1>2, <1>3, <2>1, <2>3, OutSame, Zenon
    <2> QED  BY <2>2, <2>3, Zenon
  <1>6. CASE len # 0
    <2> DEFINE k == Joins(trimmed)
    <2>1. /\ joined = JoinOoo(trimmed) /\ rb = len + k
          /\ moved = fl \cup {"DMA_PAYLOAD", "DMA_ACDESC"}
          /\ dma.pos = d /\ dma.off = front /\ dma.len = len
      BY <1>0, <1>6, Zenon
    <2>2. /\ adv \in FlowState /\ adv.rx_avail = f.rx_avail - len
          /\ adv.rx_next_seq = Add(PeerIsn, d + len) /\ adv.rx_next_pos = d + len
          /\ adv.rxfin = FALSE /\ adv.rx_ooo_len = l
          /\ adv.rx_ooo_start = f.rx_ooo_start
      <3>1. /\ fresh.rx_avail = f.rx_avail /\ fresh.rx_next_seq = Add(PeerIsn, d)
            /\ fresh.rx_next_pos = d /\ fresh.rxfin = FALSE
            /\ fresh.rx_ooo_len = l /\ fresh.rx_ooo_start = f.rx_ooo_start
        BY <1>0, <1>3, Zenon DEF RxSame
      <3>2. adv \in FlowState /\ adv.rx_avail = f.rx_avail - len
        BY <1>1, <1>3, <3>1, AdvanceGood
      <3>3. /\ Add(Add(PeerIsn, d), len) = Add(PeerIsn, d + len)
            /\ Add(d, len) = d + len
        BY <1>0, <1>1, MoveOn
      <3> QED  BY <1>3, <3>1, <3>2, <3>3, AdvanceRx
    <2> HIDE DEF adv
    <2>o. l # 0 =>
            /\ f.rx_ooo_start = Add(PeerIsn, s) /\ d < s
            /\ s + l <= d + f.rx_avail /\ s + l <= PeerBytes
      BY <1>0, Zenon DEF OooAt
    <2>3. /\ k \in Nat /\ (d + len) + k <= PeerBytes
          /\ joined.rx_next_seq = Add(PeerIsn, (d + len) + k)
          /\ joined.rx_next_pos = (d + len) + k /\ joined.rxfin = FALSE
          /\ k # 0 => s <= d + len /\ (d + len) + k = s + l
          /\ joined.rx_ooo_len # 0 =>
               /\ k = 0 /\ d + len < s /\ l # 0
               /\ joined.rx_ooo_len = l /\ joined.rx_ooo_start = f.rx_ooo_start
      <3>1. /\ d + len \in Nat /\ adv.rx_avail <= RxLen
            /\ adv.rx_ooo_len # 0 =>
                 /\ adv.rx_ooo_start = Add(PeerIsn, s)
                 /\ s + adv.rx_ooo_len <= (d + len) + adv.rx_avail
                 /\ s + adv.rx_ooo_len <= PeerBytes
        BY <1>0, <1>1, <2>2, <2>o
      <3> HIDE DEF l
      <3> QED  BY <1>0, <2>1, <2>2, <3>1, Reassemble
    <2>4. joined \in FlowState /\ joined.rx_avail = f.rx_avail - len - k
      <3>1. /\ trimmed \in FlowState /\ trimmed.rx_avail = adv.rx_avail
            /\ k \in Word /\ k <= trimmed.rx_avail
        BY <2>2, TrimOooGood, Zenon
      <3> HIDE DEF trimmed
      <3> QED  BY <2>1, <2>2, <3>1, JoinOooGood
    <2> HIDE DEF trimmed, joined, moved, rb, dma, fin, k
    <2>n. rb \in Nat /\ d + rb = (d + len) + k  BY <1>0, <2>1, <2>3
    <2>5. ASSUME NEW g, NEW fg, "FIN" \in fg <=> fin, "DMA_PAYLOAD" \in fg,
                 "DMA_ACDESC" \in fg,
                 g.rx_next_seq = Add(PeerIsn, IF fin THEN d + rb + 1 ELSE d + rb),
                 g.rx_next_pos = d + rb, g.rxfin = fin,
                 g.rx_ooo_len = joined.rx_ooo_len,
                 g.rx_ooo_start = joined.rx_ooo_start, g.rx_avail = joined.rx_avail
          PROVE  RxOut(f, d, e, s, from, Finalize(f, g, fg, rb, b, dma))
      <3> DEFINE r == Finalize(f, g, fg, rb, b, dma)
      <3>1. /\ r.fs = g /\ r.res.rx_bump = rb /\ r.res.dma = dma
            /\ "FIN" \in r.res.flags <=> fin
            /\ "DMA_PAYLOAD" \in r.res.flags /\ "DMA_ACDESC" \in r.res.flags
        BY <2>5, FinalizeFs
      <3> HIDE DEF r
      <3>2. from + r.res.dma.off = d /\ r.res.dma.len = len /\ r.res.dma.pos = d
        BY <2>1, <3>1, Zenon
      <3>3. fin => d + rb = PeerBytes /\ g.rx_ooo_len = 0
        <4>1. SUFFICES ASSUME fin PROVE d + rb = PeerBytes /\ joined.rx_ooo_len = 0
          BY <2>5, Zenon
        <4>2. d + rb \in Nat /\ d + rb <= PeerBytes
              /\ joined.rx_next_seq = Add(PeerIsn, d + rb)
          BY <1>0, <2>3, <2>n
        <4> QED  BY <1>4, <4>1, <4>2
      <3>4. RxAt(g, d + rb, fin)
        BY <2>3, <2>5, <2>n, <3>3, Zenon DEF RxAt
      <3>5. (e \/ "FIN" \in r.res.flags) = fin
        <4>1. fin \in BOOLEAN  BY Zenon DEF fin
        <4> QED  BY <1>0, <3>1, <4>1, Zenon
      <3>6. \A y \in Nat : d <= y /\ y < d + rb => Arrived(f, s, d, len, y)
        BY <1>0, <1>1, <2>3, <2>n, <2>o DEF Arrived
      <3>7. g.rx_ooo_len # 0 =>
              \E z \in Nat :
                /\ OooAt(g, d + rb, z)
                /\ \A y \in Nat : z <= y /\ y < z + g.rx_ooo_len =>
                     Arrived(f, s, d, len, y)
        <4> SUFFICES ASSUME g.rx_ooo_len # 0
                     PROVE  /\ OooAt(g, d + rb, s)
                            /\ \A y \in Nat : s <= y /\ y < s + g.rx_ooo_len =>
                                 Arrived(f, s, d, len, y)
          BY <1>0, Zenon
        <4>1. /\ k = 0 /\ d + len < s /\ l # 0
              /\ g.rx_ooo_len = l /\ g.rx_ooo_start = f.rx_ooo_start
          BY <2>3, <2>5, Zenon
        <4>2. OooAt(g, d + rb, s)
          BY <1>0, <1>1, <2>4, <2>5, <2>n, <2>o, <4>1 DEF OooAt
        <4>3. \A y \in Nat : s <= y /\ y < s + g.rx_ooo_len => Arrived(f, s, d, len, y)
          BY <4>1, Zenon DEF Arrived
        <4> QED  BY <4>2, <4>3, Zenon
      <3>r. RxAt(r.fs, d + r.res.rx_bump, e \/ "FIN" \in r.res.flags)
        BY <3>1, <3>4, <3>5, Zenon
      <3>x. d <= d /\ d + len <= d + f.rx_avail  BY <1>0, <1>1
      <3>8. RxOut(f, d, e, s, from, r)
        BY <1>0, <2>n, <3>1, <3>2, <3>6, <3>7, <3>r, <3>x DEF RxOut
      <3> QED  BY <3>8, Zenon DEF r
    <2>6. CASE fin
      <3> DEFINE g == TakeFin(joined)  fg == moved \cup {"FIN", "DMA_ACDESC"}
      <3>1. /\ g.rx_next_seq = Add(joined.rx_next_seq, 1)
            /\ g.rx_next_pos = joined.rx_next_pos /\ g.rxfin = TRUE
            /\ g.rx_ooo_len = joined.rx_ooo_len
            /\ g.rx_ooo_start = joined.rx_ooo_start /\ g.rx_avail = joined.rx_avail
        BY <2>4, TakeFinRx, Zenon
      <3>2. "FIN" \in fg /\ "DMA_PAYLOAD" \in fg /\ "DMA_ACDESC" \in fg  BY <2>1, Zenon
      <3>3. Add(Add(PeerIsn, d + rb), 1) = Add(PeerIsn, d + rb + 1)
        BY <1>0, <1>1, <2>3, <2>n, MoveOn
      <3> HIDE DEF g, fg
      <3>4. g.rx_next_seq = Add(PeerIsn, IF fin THEN d + rb + 1 ELSE d + rb)
        BY <2>3, <2>6, <2>n, <3>1, <3>3
      <3>5. g.rxfin = fin /\ g.rx_next_pos = d + rb
        <4>1. fin = TRUE  BY <2>6, Zenon DEF fin
        <4> QED  BY <2>3, <2>n, <3>1, <4>1, Zenon
      <3>6. RxOut(f, d, e, s, from, Finalize(f, g, fg, rb, b, dma))
        BY <2>5, <2>6, <3>1, <3>2, <3>4, <3>5, Zenon
      <3> QED  BY <1>2, <2>6, <3>6, Zenon DEF g, fg
    <2>7. CASE ~fin
      <3>1. "FIN" \notin moved /\ "DMA_PAYLOAD" \in moved /\ "DMA_ACDESC" \in moved
        BY <2>1, Zenon
      <3>2. joined.rx_next_seq = Add(PeerIsn, IF fin THEN d + rb + 1 ELSE d + rb)
        BY <2>3, <2>7, <2>n, Zenon
      <3>3. joined.rxfin = fin /\ joined.rx_next_pos = d + rb
        <4>1. fin = FALSE  BY <2>7, Zenon DEF fin
        <4> QED  BY <2>3, <2>n, <4>1, Zenon
      <3>4. RxOut(f, d, e, s, from, Finalize(f, joined, moved, rb, b, dma))
        BY <2>5, <2>7, <3>1, <3>2, <3>3, Zenon
      <3> QED  BY <1>2, <2>7, <3>4, Zenon
    <2> QED  BY <2>6, <2>7, Zenon
  <1> QED  BY <1>5, <1>6, Zenon

(* A packet with payload.                                                  *)
LEMMA FlowsSegOut ==
  ASSUME NEW f, NEW d, NEW e, NEW s, RxBefore(f, d, e, s),
         NEW from \in Nat, NEW plen \in Nat, plen > 0, from + plen <= PeerBytes,
         NEW fin \in BOOLEAN, fin => from + plen = PeerBytes,
         NEW ack \in Nat, NEW win \in Word
  PROVE  RxOut(f, d, e, s, from, FlowsSeg(f, Packet(from, plen, fin, ack, win)))
  <1> DEFINE pkt   == Packet(from, plen, fin, ack, win)
             t     == Trim(f, pkt.seq, pkt.plen)
             b     == AckBump(f, pkt.ack)
             a     == IF b # 0 THEN AckBytes(f, b) ELSE f
             flags == {"TX"} \cup AckFlags(a, b)
             len   == pkt.plen - (t.front + t.back)
             seq   == Add(pkt.seq, t.front)
  <1>0. /\ f \in FlowState /\ Sane(f) /\ d \in Nat /\ e \in BOOLEAN /\ RxAt(f, d, e)
        /\ d <= PeerBytes /\ f.rx_avail <= RxLen
    BY Zenon DEF RxBefore, Sane, RxAt
  <1>1. /\ PeerIsn \in Word /\ PeerBytes \in Nat /\ MaxSeg \in Nat
        /\ PeerBytes + MaxSeg + RxLen + 1 < WordMod /\ WordMod \in Nat
        /\ RxLen \in Nat /\ f.rx_avail \in Nat
    BY <1>0, PeerNat, WordModNat, FlowFields, WordNat, Zenon
  <1>p. /\ pkt.seq = Add(PeerIsn, from) /\ pkt.fin = fin /\ pkt.win = win
        /\ pkt.ack = Add(Isn, ack) /\ pkt.plen = plen
    BY Zenon DEF Packet
  <1> HIDE DEF pkt
  <1>w. pkt.ack \in Word /\ pkt.seq \in Word
    BY <1>p, FlowProtoAssumption, WordModNat DEF Add, Word
  <1>2. FlowsSeg(f, pkt) =
          IF t.drop THEN Finalize(f, f, {"TX"}, 0, 0, NoDma)
          ELSE IF seq # f.rx_next_seq
          THEN SegOutOfOrder(f, a, flags, b, seq, t.front, len)
          ELSE SegInOrder(f, a, flags, b, pkt, t.front, len)
    BY Zenon DEF FlowsSeg
  <1>3. a \in FlowState /\ RxSame(f, a)
    <2>1. a \in FlowState  BY <1>0, <1>w, AckedGood, Zenon
    <2> QED  BY <1>0, <2>1, RxSameOps, Zenon
  <1>4. "FIN" \notin flags /\ "DMA_PAYLOAD" \notin flags  BY Zenon DEF AckFlags
  <1> DEFINE m == IF e THEN d + 1 ELSE d
  <1>m. m \in Nat /\ m <= PeerBytes + 1 /\ f.rx_next_seq = Add(PeerIsn, m)
    BY <1>0, <1>1 DEF RxAt
  <1>t. /\ from <= m /\ m <= from + plen =>
             /\ ~t.drop /\ t.front = m - from
             /\ t.back = IF from + plen - m <= f.rx_avail THEN 0
                         ELSE from + plen - m - f.rx_avail
        /\ from + plen < m => t.drop
        /\ m < from =>
             /\ t.drop <=> from - m >= f.rx_avail
             /\ t.front = 0
             /\ t.back = IF f.rx_avail - (from - m) >= plen THEN 0
                         ELSE plen - (f.rx_avail - (from - m))
    <2> HIDE DEF m
    <2> QED  BY <1>0, <1>1, <1>m, <1>p, TrimAt
  <1> HIDE DEF t, a, flags, b
  <1>5. CASE t.drop
    <2>1. "FIN" \notin {"TX"} /\ "DMA_PAYLOAD" \notin {"TX"} /\ RxSame(f, f)
      BY Zenon DEF RxSame
    <2> QED  BY <1>2, <1>5, <2>1, OutSame DEF pkt
  <1>6. CASE ~t.drop
    <2>1. ~e /\ m = d
      <3>1. CASE e
        <4>1. m = PeerBytes + 1  BY <1>0, <3>1, Zenon DEF RxAt
        <4>2. from + plen < m  BY <1>1, <4>1
        <4> QED  BY <1>6, <1>t, <4>2, Zenon
      <3> QED  BY <3>1, Zenon
    <2>2. CASE from <= d
      <3>1. from <= m /\ m <= from + plen  BY <1>1, <1>6, <1>m, <1>t, <2>1, <2>2
      <3>2. /\ t.front = d - from
            /\ t.back = IF from + plen - d <= f.rx_avail THEN 0
                        ELSE from + plen - d - f.rx_avail
        BY <1>t, <2>1, <3>1
      <3>3. /\ t.front \in Nat /\ from + t.front = d /\ d <= from + plen
            /\ len \in Nat /\ len <= f.rx_avail /\ d + len <= PeerBytes
        BY <1>0, <1>1, <1>p, <2>1, <2>2, <3>1, <3>2
      <3>4. seq = f.rx_next_seq  BY <1>m, <1>p, <2>1, <3>3, <1>0, <1>1, MoveOn
      <3>5. FlowsSeg(f, pkt) = SegInOrder(f, a, flags, b, pkt, t.front, len)
        BY <1>2, <1>6, <3>4, Zenon
      <3> HIDE DEF len, seq, m
      <3>6. /\ pkt.win \in Word /\ pkt.plen \in Nat /\ from + pkt.plen <= PeerBytes
            /\ pkt.fin => from + pkt.plen = PeerBytes
        BY <1>p, Zenon
      <3>7. RxOut(f, d, e, s, from, SegInOrder(f, a, flags, b, pkt, t.front, len))
        BY <1>3, <1>4, <1>p, <2>1, <3>3, <3>6, SegInOrderOut, Zenon
      <3> QED  BY <3>5, <3>7, Zenon DEF pkt
    <2>3. CASE d < from
      <3>1. /\ from - d < f.rx_avail /\ t.front = 0
            /\ t.back = IF f.rx_avail - (from - d) >= plen THEN 0
                        ELSE plen - (f.rx_avail - (from - d))
        BY <1>0, <1>1, <1>6, <1>t, <2>1, <2>3
      <3>2. /\ len \in Nat /\ len # 0 /\ from + len <= d + f.rx_avail
            /\ from + len <= PeerBytes
        BY <1>0, <1>1, <1>p, <2>3, <3>1
      <3>3. seq = Add(PeerIsn, from)  BY <1>p, <1>w, <3>1, AddZero, Zenon
      <3>4. seq # f.rx_next_seq
        <4>1. from < WordMod /\ d < WordMod /\ from # d  BY <1>0, <1>1, <2>3
        <4>2. f.rx_next_seq = Add(PeerIsn, d)  BY <1>m, <2>1, Zenon
        <4> QED  BY <1>0, <1>1, <3>3, <4>1, <4>2, AddInj, Zenon
      <3>5. FlowsSeg(f, pkt) =
              SegOutOfOrder(f, a, flags, b, Add(PeerIsn, from), 0, len)
        BY <1>2, <1>6, <3>1, <3>3, <3>4, Zenon
      <3> HIDE DEF len, seq, m
      <3>6. RxOut(f, d, e, s, from,
                  SegOutOfOrder(f, a, flags, b, Add(PeerIsn, from), 0, len))
        BY <1>3, <1>4, <2>1, <2>3, <3>2, SegOutOfOrderOut, Zenon
      <3> QED  BY <3>5, <3>6, Zenon DEF pkt
    <2> QED  BY <1>0, <2>2, <2>3
  <1> QED  BY <1>5, <1>6, Zenon

-----------------------------------------------------------------------------
(* The stream invariant: the receive side stands at byte delivered, the    *)
(* unread bytes and those of the out-of-order interval are in their        *)
(* places, and the peer acknowledged only bytes that were sent.            *)
StreamInv ==
  /\ Positions
  /\ RxAt(fs, delivered, eof)
  /\ Held(rxbuf, read, delivered)
  /\ fs.rx_ooo_len # 0 =>
       \E s \in Nat : OooAt(fs, delivered, s) /\ Held(rxbuf, s, s + fs.rx_ooo_len)
  /\ peerAck <= sndMax /\ sndMax <= written

LEMMA StreamTypes ==
  ASSUME Accounts
  PROVE  /\ fs \in FlowState /\ fs.rx_avail \in Nat /\ Sane(fs)
         /\ fs.rx_ooo_len \in Nat
         /\ written \in Nat /\ acked \in Nat /\ sndMax \in Nat /\ peerAck \in Nat
         /\ delivered \in Nat /\ read \in Nat /\ eof \in BOOLEAN
         /\ read <= delivered /\ delivered - read <= RxLen
         /\ fs.rx_avail = RxLen - (delivered - read)
         /\ delivered + fs.rx_avail = read + RxLen
         /\ RxLen \in Nat /\ RxLen > 0 /\ PeerBytes \in Nat
  <1>1. /\ fs \in FlowState
        /\ written \in Nat /\ acked \in Nat /\ sndMax \in Nat /\ peerAck \in Nat
        /\ delivered \in Nat /\ read \in Nat /\ eof \in BOOLEAN
        /\ read <= delivered /\ delivered - read <= RxLen
        /\ fs.rx_avail = RxLen - (delivered - read)
    BY FlowProtoAssumption DEF Accounts, TypeOK, RxAccounting
  <1>2. fs.rx_avail \in Nat /\ fs.rx_ooo_len \in Nat  BY <1>1, FlowFields, WordNat, Zenon
  <1>3. RxLen \in Nat /\ RxLen > 0 /\ PeerBytes \in Nat  BY WordModNat, PeerNat, Zenon
  <1>4. delivered + fs.rx_avail = read + RxLen  BY <1>1, <1>3
  <1> QED  BY <1>1, <1>2, <1>3, <1>4, AccountsSane, Zenon

(* What a packet may do to what the application sees.                      *)
HearsMore ==
  /\ delivered <= delivered' /\ (eof => delivered' = delivered)
  /\ eof => eof'
  /\ acked <= acked' /\ peerAck <= peerAck'
  /\ read' = read /\ written' = written

LEMMA ReceiveStream ==
  ASSUME StreamInv, NEW from \in Nat, NEW plen \in Word, NEW fin \in BOOLEAN,
         NEW ack \in 0..sndMax, NEW win \in Windows,
         from + plen <= PeerBytes + 1, plen > 0 => from + plen <= PeerBytes,
         fin => from + plen = PeerBytes,
         Receive(from, plen, fin, ack, win)
  PROVE  StreamInv' /\ HearsMore
  <1> DEFINE pkt == Packet(from, plen, fin, ack, win)
             r == FlowsRx(fs, pkt)
             d == delivered  l == fs.rx_ooo_len
             x == from + r.res.dma.off  n == r.res.dma.len  k == r.res.rx_bump
  <1>0. Positions /\ Positions' /\ Accounts /\ Accounts'
    BY ReceivePositions, Zenon DEF Positions, StreamInv
  <1>1. /\ fs \in FlowState /\ fs.rx_avail \in Nat /\ Sane(fs) /\ l \in Nat
        /\ sndMax \in Nat /\ peerAck \in Nat /\ written \in Nat
        /\ d \in Nat /\ read \in Nat /\ eof \in BOOLEAN
        /\ read <= d /\ d - read <= RxLen /\ d + fs.rx_avail = read + RxLen
        /\ RxLen \in Nat /\ RxLen > 0 /\ PeerBytes \in Nat
    BY <1>0, StreamTypes, Zenon
  <1>2. PICK s \in Nat :
          l # 0 => OooAt(fs, d, s) /\ Held(rxbuf, s, s + l)
    BY Zenon DEF StreamInv
  <1>3. RxBefore(fs, d, eof, s)  BY <1>1, <1>2, Zenon DEF RxBefore, StreamInv
  <1>p. ack \in Nat /\ win \in Word /\ plen \in Nat
    BY <1>1, FlowProtoAssumption, WordNat
  <1>4. RxOut(fs, d, eof, s, from, r)
    <2>1. pkt.plen = plen  BY Zenon DEF Packet
    <2>2. CASE plen = 0
      <3>1. from \in 0..(PeerBytes + 1) /\ (fin => from = PeerBytes)
        BY <1>1, <2>2
      <3>2. r = FlowsAck(fs, Packet(from, 0, fin, ack, win))
        BY <2>1, <2>2, Zenon DEF FlowsRx
      <3> HIDE DEF r
      <3> QED  BY <1>3, <1>p, <3>1, <3>2, FlowsAckOut, Zenon
    <2>3. CASE plen # 0
      <3>1. plen > 0 /\ from + plen <= PeerBytes  BY <1>p, <2>3
      <3>2. r = FlowsSeg(fs, Packet(from, plen, fin, ack, win))
        BY <2>1, <2>3, Zenon DEF FlowsRx
      <3> HIDE DEF r
      <3> QED  BY <1>3, <1>p, <3>1, <3>2, FlowsSegOut, Zenon
    <2> QED  BY <2>2, <2>3, Zenon
  <1>5. /\ fs' = r.fs /\ PlacePayload(r.res, from) /\ Notify(r.res)
        /\ peerAck' = IF peerAck < ack THEN ack ELSE peerAck
        /\ written' = written /\ sndMax' = sndMax /\ read' = read
    BY Zenon DEF Receive
  <1>g. RxGood(fs, r)
    <2>1. pkt \in PacketType
      <3>1. PeerIsn \in Int /\ Isn \in Int /\ from \in Int /\ ack \in Int
        BY <1>p, FlowProtoAssumption, WordNat
      <3>2. Add(PeerIsn, from) \in Word /\ Add(Isn, ack) \in Word
        BY <3>1, WordModNat DEF Add, Word
      <3> QED  BY <1>p, <3>2, Zenon DEF Packet, PacketType
    <2> QED  BY <1>1, <2>1, FlowsRxGood, Zenon
  <1> HIDE DEF r, pkt
  <1>6. /\ k \in Nat /\ k <= fs.rx_avail /\ fs'.rx_avail = fs.rx_avail - k
        /\ delivered' = d + k /\ acked <= acked'
    <2>1. /\ k \in Nat /\ k <= fs.rx_avail /\ fs'.rx_avail = fs.rx_avail - k
          /\ r.res.tx_bump \in Nat
          /\ "DMA_ACDESC" \notin r.res.flags => r.res.tx_bump = 0 /\ k = 0
      BY <1>5, <1>g, Zenon DEF RxGood
    <2>2. acked \in Nat  BY <1>0, StreamTypes, Zenon
    <2>3. CASE "DMA_ACDESC" \in r.res.flags
      <3>1. acked' = acked + r.res.tx_bump /\ delivered' = d + k
        BY <1>5, <2>3, Zenon DEF Notify
      <3> QED  BY <2>1, <2>2, <3>1
    <2>4. CASE "DMA_ACDESC" \notin r.res.flags
      <3>1. acked' = acked /\ delivered' = d /\ k = 0
        BY <1>5, <2>1, <2>4, Zenon DEF Notify
      <3> HIDE DEF k
      <3> QED  BY <1>1, <2>1, <2>2, <3>1
    <2> QED  BY <2>3, <2>4, Zenon
  <1>7. eof' = (eof \/ "FIN" \in r.res.flags)
    <2>1. "FIN" \in r.res.flags => "DMA_ACDESC" \in r.res.flags  BY <1>4, Zenon DEF RxOut
    <2>2. CASE "DMA_ACDESC" \in r.res.flags  BY <1>5, <2>2, Zenon DEF Notify
    <2>3. CASE "DMA_ACDESC" \notin r.res.flags
      <3>1. eof' = eof  BY <1>5, <2>3, Zenon DEF Notify
      <3> QED  BY <1>1, <2>1, <2>3, <3>1, Zenon
    <2> QED  BY <2>2, <2>3, Zenon
  <1>8. RxAt(fs', delivered', eof')
    <2>1. RxAt(r.fs, d + k, eof \/ "FIN" \in r.res.flags)  BY <1>4, Zenon DEF RxOut
    <2> HIDE DEF k
    <2> QED  BY <1>5, <1>6, <1>7, <2>1, Zenon
  <1>9. peerAck' <= sndMax' /\ sndMax' <= written' /\ peerAck <= peerAck'
    BY <1>1, <1>5 DEF StreamInv
  <1>10. HearsMore
    <2>1. eof => k = 0  BY <1>4, Zenon DEF RxOut
    <2>2. eof => eof'  BY <1>7, Zenon
    <2> HIDE DEF k
    <2> QED  BY <1>1, <1>5, <1>6, <1>9, <2>1, <2>2 DEF HearsMore
  <1>11. /\ Held(rxbuf', read', delivered')
         /\ fs'.rx_ooo_len # 0 =>
              \E z \in Nat :
                OooAt(fs', delivered', z) /\ Held(rxbuf', z, z + fs'.rx_ooo_len)
    <2>h. /\ \A y \in Nat : read <= y /\ y < d => rxbuf[y % RxLen] = y
          /\ \A y \in Nat : l # 0 /\ s <= y /\ y < s + l => rxbuf[y % RxLen] = y
      BY <1>2, Zenon DEF StreamInv, Held
    <2>1. CASE "DMA_PAYLOAD" \notin r.res.flags
      <3>1. rxbuf' = rxbuf  BY <1>5, <2>1, Zenon DEF PlacePayload
      <3>2. /\ k = 0 /\ r.fs.rx_ooo_len = l
            /\ r.fs.rx_ooo_start = fs.rx_ooo_start
        BY <1>4, <2>1, Zenon DEF RxOut
      <3> HIDE DEF k
      <3>3. delivered' = d /\ fs'.rx_avail = fs.rx_avail  BY <1>1, <1>6, <3>2
      <3>4. Held(rxbuf', read', delivered')
        BY <1>5, <3>1, <3>3, Zenon DEF StreamInv
      <3>5. ASSUME l # 0
            PROVE  OooAt(fs', delivered', s) /\ Held(rxbuf', s, s + fs'.rx_ooo_len)
        BY <1>2, <1>5, <3>1, <3>2, <3>3, <3>5, Zenon DEF OooAt
      <3> QED  BY <1>5, <3>2, <3>4, <3>5, Zenon
    <2>2. CASE "DMA_PAYLOAD" \in r.res.flags
      <3>1. /\ x \in Nat /\ n \in Nat /\ r.res.dma.pos = x
            /\ d <= x /\ x + n <= d + fs.rx_avail
            /\ \A y \in Nat : d <= y /\ y < d + k => Arrived(fs, s, x, n, y)
            /\ r.fs.rx_ooo_len # 0 =>
                 \E z \in Nat :
                   /\ OooAt(r.fs, d + k, z)
                   /\ \A y \in Nat : z <= y /\ y < z + r.fs.rx_ooo_len =>
                        Arrived(fs, s, x, n, y)
        BY <1>4, <2>2, Zenon DEF RxOut
      <3>2. \A p \in 0..(RxLen - 1) :
              rxbuf'[p] = LET i == (p - x) % RxLen
                          IN  IF i < n THEN x + i ELSE rxbuf[p]
        BY <1>5, <2>2, <3>1, Zenon DEF PlacePayload
      <3> HIDE DEF x, n, k
      <3>3. \A y \in Nat : read <= y /\ y < read + RxLen =>
              rxbuf'[y % RxLen] = IF x <= y /\ y < x + n THEN y ELSE rxbuf[y % RxLen]
        <4>1. read <= x /\ x + n <= read + RxLen  BY <1>1, <3>1
        <4>2. SUFFICES ASSUME NEW y \in Nat, read <= y, y < read + RxLen
                       PROVE  rxbuf'[y % RxLen] =
                                IF x <= y /\ y < x + n THEN y ELSE rxbuf[y % RxLen]
          BY Zenon
        <4> DEFINE p == y % RxLen  i == (p - x) % RxLen
        <4>3. p \in 0..(RxLen - 1)  BY <1>1
        <4>t. read \in Nat /\ x \in Nat /\ n \in Nat  BY <1>1, <3>1, Zenon
        <4>4. (i < n <=> (x <= y /\ y < x + n)) /\ (i < n => x + i = y)
          BY <4>1, <4>2, <4>t, PlaceOf
        <4> HIDE DEF p
        <4>5. rxbuf'[p] = IF i < n THEN x + i ELSE rxbuf[p]  BY <3>2, <4>3, Zenon
        <4> HIDE DEF i
        <4> QED  BY <4>4, <4>5, Zenon DEF p
      <3>4. \A y \in Nat : read <= y /\ y < read + RxLen /\ Arrived(fs, s, x, n, y) =>
              rxbuf'[y % RxLen] = y
        BY <2>h, <3>3, Zenon DEF Arrived
      <3>5. Held(rxbuf', read', delivered')
        <4> SUFFICES ASSUME NEW y \in Nat, read <= y, y < d + k
                     PROVE  rxbuf'[y % RxLen] = y
          BY <1>5, <1>6, Zenon DEF Held
        <4>1. y < read + RxLen  BY <1>1, <1>6
        <4>2. CASE y < d
          <5>1. ~(x <= y)  BY <1>1, <3>1, <4>2
          <5> QED  BY <2>h, <3>3, <4>1, <4>2, <5>1, Zenon
        <4>3. CASE d <= y
          BY <3>1, <3>4, <4>1, <4>3, Zenon
        <4> QED  BY <1>1, <4>2, <4>3
      <3>6. fs'.rx_ooo_len # 0 =>
              \E z \in Nat :
                OooAt(fs', delivered', z) /\ Held(rxbuf', z, z + fs'.rx_ooo_len)
        <4>1. SUFFICES ASSUME r.fs.rx_ooo_len # 0
              PROVE \E z \in Nat :
                OooAt(r.fs, d + k, z) /\ Held(rxbuf', z, z + r.fs.rx_ooo_len)
          BY <1>5, <1>6, Zenon
        <4>2. PICK z \in Nat :
                /\ OooAt(r.fs, d + k, z)
                /\ \A y \in Nat : z <= y /\ y < z + r.fs.rx_ooo_len =>
                     Arrived(fs, s, x, n, y)
          BY <3>1, <4>1, Zenon
        <4>3. r.fs.rx_ooo_len \in Nat
          BY <1>0, <1>5, FlowFields, WordNat, Zenon DEF Accounts, TypeOK
        <4>4. d + k < z /\ z + r.fs.rx_ooo_len <= d + k + r.fs.rx_avail
          BY <4>2, Zenon DEF OooAt
        <4>5. r.fs.rx_avail = fs.rx_avail - k  BY <1>5, <1>6, Zenon
        <4>6. \A y \in Nat : z <= y /\ y < z + r.fs.rx_ooo_len =>
                read <= y /\ y < read + RxLen
          BY <1>1, <1>6, <4>3, <4>4, <4>5
        <4> QED  BY <3>4, <4>2, <4>6, Zenon DEF Held
      <3> QED  BY <3>5, <3>6, Zenon
    <2> QED  BY <2>1, <2>2, Zenon
  <1> QED  BY <1>0, <1>8, <1>9, <1>10, <1>11, Zenon DEF StreamInv

(* A step that leaves the receive side and the buffer alone.               *)
LEMMA SameStream ==
  ASSUME StreamInv, Positions', RxSame(fs, fs'),
         UNCHANGED <<delivered, read, eof, rxbuf, peerAck>>,
         sndMax <= sndMax', sndMax' <= written'
  PROVE  StreamInv'
  <1>1. peerAck' <= sndMax'
    BY StreamTypes DEF StreamInv, Positions, Accounts, TypeOK
  <1>2. RxAt(fs', delivered', eof')  BY Zenon DEF StreamInv, RxAt, RxSame
  <1>3. fs'.rx_ooo_len # 0 =>
          \E s \in Nat : OooAt(fs', delivered', s) /\ Held(rxbuf', s, s + fs'.rx_ooo_len)
    BY Zenon DEF StreamInv, OooAt, RxSame
  <1> QED  BY <1>1, <1>2, <1>3, Zenon DEF StreamInv

LEMMA TransmitStream ==
  ASSUME StreamInv, Positions', NEW force \in BOOLEAN, Transmit(force)
  PROVE  StreamInv'
  <1> DEFINE g == FlowsTx(fs, force).fs
  <1>1. /\ fs \in FlowState /\ written \in Nat /\ acked \in Nat /\ sndMax \in Nat
    BY StreamTypes, Zenon DEF StreamInv, Positions
  <1>2. RxSame(fs, g)
    BY <1>1, Zenon DEF FlowsTx, Finalize, RxSame, FlowState
  <1>3. /\ fs' = g
        /\ sndMax' = IF sndMax < acked + g.tx_sent THEN acked + g.tx_sent ELSE sndMax
        /\ UNCHANGED <<written, acked, peerAck, delivered, read, eof, rxbuf>>
    BY Zenon DEF Transmit
  <1> HIDE DEF g
  <1>4. /\ g \in FlowState /\ g.tx_avail + g.tx_sent = written - acked
    BY <1>3, Zenon DEF Positions, Accounts, TypeOK, TxAccounting
  <1>5. g.tx_avail \in Nat /\ g.tx_sent \in Nat  BY <1>4, FlowFields, WordNat, Zenon
  <1>6. sndMax <= sndMax' /\ sndMax' <= written'
    BY <1>1, <1>3, <1>4, <1>5 DEF StreamInv
  <1> QED  BY <1>2, <1>3, <1>6, SameStream, Zenon

LEMMA RetransmitStream ==
  ASSUME StreamInv, Positions', Retransmit
  PROVE  StreamInv'
  <1>1. fs \in FlowState /\ sndMax \in Nat  BY StreamTypes, Zenon DEF StreamInv, Positions
  <1>2. /\ fs' = ResetRetransmit(fs)
        /\ UNCHANGED <<written, acked, sndMax, peerAck, delivered, read, eof, rxbuf>>
    BY FinalizeFs DEF Retransmit, FlowsRetx, txVars
  <1>3. RxSame(fs, fs')  BY <1>1, <1>2, RxSameOps, Zenon
  <1>4. sndMax <= sndMax' /\ sndMax' <= written'  BY <1>1, <1>2 DEF StreamInv
  <1> QED  BY <1>2, <1>3, <1>4, SameStream, Zenon

(* The application frees the first rb unread bytes.                        *)
LEMMA AppStream ==
  ASSUME StreamInv, Positions', NEW rb \in 0..(delivered - read),
         NEW tb \in 0..(TxLen - (written - acked)), AppBump(rb, tb)
  PROVE  StreamInv'
  <1>1. /\ fs \in FlowState /\ written \in Nat /\ sndMax \in Nat
        /\ delivered \in Nat /\ read \in Nat /\ fs.rx_avail \in Nat
        /\ fs.rx_ooo_len \in Nat
        /\ read <= delivered /\ fs.rx_avail = RxLen - (delivered - read) /\ RxLen \in Nat
    BY StreamTypes, Zenon DEF StreamInv, Positions
  <1>2. /\ fs' = FlowsAc(fs, rb, tb, FALSE).fs
        /\ written' = written + tb /\ read' = read + rb
        /\ UNCHANGED <<acked, sndMax, peerAck, delivered, eof, rxbuf>>
    BY Zenon DEF AppBump
  <1>n. rb \in Nat /\ tb \in Nat  BY <1>1
  <1>3. /\ fs'.rx_next_seq = fs.rx_next_seq /\ fs'.rx_next_pos = fs.rx_next_pos
        /\ fs'.rxfin = fs.rxfin /\ fs'.rx_ooo_len = fs.rx_ooo_len
        /\ fs'.rx_ooo_start = fs.rx_ooo_start
    BY <1>1, <1>2, Zenon DEF FlowsAc, Finalize, FlowState
  <1>4. fs'.rx_avail = fs.rx_avail + rb
    <2>1. fs'.rx_avail = RxLen - (delivered' - read')
      BY Zenon DEF Positions, Accounts, RxAccounting
    <2>2. fs'.rx_avail = RxLen - (delivered - (read + rb))  BY <1>2, <2>1, Zenon
    <2> QED  BY <1>1, <1>n, <2>2
  <1>5. RxAt(fs', delivered', eof')  BY <1>2, <1>3, Zenon DEF StreamInv, RxAt
  <1>6. Held(rxbuf', read', delivered')
    BY <1>1, <1>2, <1>n DEF StreamInv, Held
  <1>7. ASSUME NEW s \in Nat, OooAt(fs, delivered, s)
        PROVE  OooAt(fs', delivered', s)
    <2>1. /\ fs.rx_ooo_start = Add(PeerIsn, s) /\ delivered < s
          /\ s + fs.rx_ooo_len <= delivered + fs.rx_avail
          /\ s + fs.rx_ooo_len <= PeerBytes
      BY <1>7, Zenon DEF OooAt
    <2>2. s + fs.rx_ooo_len <= delivered + (fs.rx_avail + rb)
      BY <1>1, <1>n, <2>1
    <2> QED  BY <1>2, <1>3, <1>4, <2>1, <2>2, Zenon DEF OooAt
  <1>8. fs'.rx_ooo_len # 0 =>
          \E s \in Nat : OooAt(fs', delivered', s) /\ Held(rxbuf', s, s + fs'.rx_ooo_len)
    BY <1>2, <1>3, <1>7, Zenon DEF StreamInv
  <1>9. peerAck' <= sndMax' /\ sndMax' <= written'
    BY <1>1, <1>2, <1>n DEF StreamInv
  <1> QED  BY <1>5, <1>6, <1>8, <1>9, Zenon DEF StreamInv

LEMMA RecvStream ==
  ASSUME StreamInv, RecvSeg \/ RecvAck
  PROVE  StreamInv' /\ HearsMore
  <1>c. /\ PeerBytes \in Nat /\ MaxSeg \in Nat
        /\ \A n \in Nat : n <= PeerBytes => n \in Word
    BY FlowProtoAssumption, WordModNat, WordNat
  <1>1. CASE RecvSeg
    <2>1. PICK from \in 0..(PeerBytes - 1), plen \in 1..MaxSeg, fin \in BOOLEAN,
               ack \in 0..sndMax, win \in Windows :
                 /\ from + plen <= PeerBytes /\ (fin => from + plen = PeerBytes)
                 /\ Receive(from, plen, fin, ack, win)
      BY <1>1, Zenon DEF RecvSeg
    <2>2. /\ from \in Nat /\ plen \in Nat /\ plen <= PeerBytes
          /\ from + plen <= PeerBytes + 1
      BY <1>c, <2>1
    <2> QED  BY <1>c, <2>1, <2>2, ReceiveStream, Zenon
  <1>2. CASE RecvAck
    <2>1. PICK from \in 0..(PeerBytes + 1), fin \in BOOLEAN,
               ack \in 0..sndMax, win \in Windows :
                 (fin => from = PeerBytes) /\ Receive(from, 0, fin, ack, win)
      BY <1>2, Zenon DEF RecvAck
    <2>2. /\ from \in Nat /\ 0 \in Word /\ from + 0 <= PeerBytes + 1 /\ ~(0 > 0)
          /\ fin => from + 0 = PeerBytes
      BY <1>c, <2>1
    <2> QED  BY <2>1, <2>2, ReceiveStream, Zenon
  <1> QED  BY <1>1, <1>2, Zenon

LEMMA NextStream == StreamInv /\ [Next]_vars => StreamInv'
  <1> SUFFICES ASSUME StreamInv, [Next]_vars PROVE StreamInv'  BY Zenon
  <1>0. Positions'  BY NextPositions, Zenon DEF StreamInv
  <1>1. CASE RecvSeg \/ RecvAck  BY <1>1, RecvStream, Zenon
  <1>2. CASE Retransmit  BY <1>0, <1>2, RetransmitStream, Zenon
  <1>3. CASE App  BY <1>0, <1>3, AppStream, Zenon DEF App
  <1>4. CASE \E force \in BOOLEAN : Transmit(force)
    BY <1>0, <1>4, TransmitStream, Zenon
  <1>5. CASE UNCHANGED vars
    BY <1>0, <1>5, Zenon DEF vars, StreamInv
  <1> QED  BY <1>1, <1>2, <1>3, <1>4, <1>5, Zenon DEF Next

LEMMA InitStream == Init => StreamInv
  <1> SUFFICES ASSUME Init PROVE StreamInv  BY Zenon
  <1>1. Positions  BY InitPositions, Zenon
  <1>2. /\ fs.rx_next_seq = PeerIsn /\ fs.rx_next_pos = 0 /\ fs.rxfin = FALSE
        /\ fs.rx_ooo_len = 0 /\ delivered = 0 /\ read = 0 /\ eof = FALSE
        /\ peerAck = 0 /\ sndMax = 0 /\ written = 0
    BY Zenon DEF Init, NewFlow
  <1>3. Add(PeerIsn, 0) = PeerIsn /\ PeerBytes \in Nat  BY PeerNat, AddZero, Zenon
  <1>4. RxAt(fs, delivered, eof)
    <2>1. RxAt(fs, 0, FALSE)  BY <1>2, <1>3 DEF RxAt
    <2> QED  BY <1>2, <2>1, Zenon
  <1>5. Held(rxbuf, read, delivered)  BY <1>2 DEF Held
  <1> QED  BY <1>1, <1>2, <1>4, <1>5 DEF StreamInv

-----------------------------------------------------------------------------
LEMMA StreamOoo == StreamInv => OooIntact
  <1> SUFFICES ASSUME StreamInv, fs.rx_ooo_len # 0 PROVE OooIntact
    BY Zenon DEF OooIntact
  <1> DEFINE gap == Sub(fs.rx_ooo_start, fs.rx_next_seq)
  <1>1. PICK s \in Nat : OooAt(fs, delivered, s) /\ Held(rxbuf, s, s + fs.rx_ooo_len)
    BY Zenon DEF StreamInv
  <1>2. /\ delivered \in Nat /\ fs.rx_ooo_len \in Nat /\ fs.rx_avail \in Nat
        /\ PeerBytes \in Nat
    BY StreamTypes, Zenon DEF StreamInv, Positions
  <1>3. fs.rx_next_seq = Add(PeerIsn, delivered) /\ delivered <= PeerBytes
    BY Zenon DEF StreamInv, RxAt
  <1>4. /\ fs.rx_ooo_start = Add(PeerIsn, s) /\ delivered < s
        /\ s + fs.rx_ooo_len <= delivered + fs.rx_avail
        /\ s + fs.rx_ooo_len <= PeerBytes
    BY <1>1, Zenon DEF OooAt
  <1>5. gap = s - delivered
    <2>1. s < WordMod /\ delivered < WordMod  BY <1>2, <1>3, <1>4, PeerNat, WordModNat
    <2> QED  BY <1>2, <1>3, <1>4, <2>1, Distance, PeerNat
  <1>6. gap > 0 /\ gap + fs.rx_ooo_len <= fs.rx_avail /\ delivered + gap = s
    BY <1>2, <1>4, <1>5
  <1> HIDE DEF gap
  <1>7. \A b \in 0..(PeerBytes - 1) :
          delivered + gap <= b /\ b < delivered + gap + fs.rx_ooo_len =>
            rxbuf[b % RxLen] = b
    BY <1>1, <1>2, <1>6 DEF Held
  <1> QED  BY <1>6, <1>7, Zenon DEF OooIntact, gap

(* For every buffer length, segment size and arrival order, the            *)
(* out-of-order interval of flows_seg lies in the announced window, and    *)
(* every byte of it is in the receive buffer, at its place.                *)
THEOREM FlowOooIntact == Spec => []OooIntact
  <1>1. Spec => []StreamInv  BY InitStream, NextStream, PTL DEF Spec
  <1> QED  BY <1>1, StreamOoo, PTL

-----------------------------------------------------------------------------
(* The refinement of ByteStream.                                           *)

(* The unread part of the receive buffer is the peer's stream.             *)
LEMMA InboxIsStream ==
  ASSUME StreamInv
  PROVE  /\ Inbox = Stream!PeerStream(read, delivered - read)
         /\ Inbox \in Seq(Nat) /\ Len(Inbox) = delivered - read
  <1>1. /\ delivered \in Nat /\ read \in Nat /\ read <= delivered
    BY StreamTypes, Zenon DEF StreamInv, Positions
  <1>2. ASSUME NEW i \in 1..(delivered - read)
        PROVE  rxbuf[(read + i - 1) % RxLen] = read + i - 1
    <2>1. read + i - 1 \in Nat /\ read <= read + i - 1 /\ read + i - 1 < delivered
      BY <1>1
    <2> QED  BY <2>1, Zenon DEF StreamInv, Held
  <1>3. Inbox = [i \in 1..(delivered - read) |-> read + i - 1]
    BY <1>2, Zenon DEF Inbox
  <1>4. delivered - read \in Nat
        /\ \A i \in 1..(delivered - read) : read + i - 1 \in Nat
    BY <1>1
  <1> QED  BY <1>3, <1>4 DEF Stream!PeerStream

(* The next m bytes after a piece of n bytes extend it.                    *)
LEMMA StreamAppend ==
  ASSUME NEW x \in Nat, NEW n \in Nat, NEW m \in Nat
  PROVE  Stream!PeerStream(x, n) \o Stream!PeerStream(x + n, m)
           = Stream!PeerStream(x, n + m)
  <1> DEFINE a == Stream!PeerStream(x, n)
             b == Stream!PeerStream(x + n, m)
             c == Stream!PeerStream(x, n + m)
  <1>1. /\ a \in Seq(Nat) /\ Len(a) = n /\ \A i \in 1..n : a[i] = x + i - 1
    <2>1. \A i \in 1..n : x + i - 1 \in Nat  OBVIOUS
    <2> QED  BY <2>1 DEF Stream!PeerStream
  <1>2. /\ b \in Seq(Nat) /\ Len(b) = m /\ \A i \in 1..m : b[i] = x + n + i - 1
    <2>1. \A i \in 1..m : x + n + i - 1 \in Nat  OBVIOUS
    <2> QED  BY <2>1 DEF Stream!PeerStream
  <1>3. /\ c \in Seq(Nat) /\ Len(c) = n + m /\ \A i \in 1..(n + m) : c[i] = x + i - 1
    <2>1. n + m \in Nat /\ \A i \in 1..(n + m) : x + i - 1 \in Nat  OBVIOUS
    <2> QED  BY <2>1 DEF Stream!PeerStream
  <1> HIDE DEF a, b, c
  <1>4. /\ a \o b \in Seq(Nat) /\ Len(a \o b) = n + m
        /\ \A i \in 1..(n + m) : (a \o b)[i] = IF i <= n THEN a[i] ELSE b[i - n]
    <2>1. a \in Seq(Nat) /\ Len(a) = n /\ b \in Seq(Nat) /\ Len(b) = m  BY <1>1, <1>2
    <2> QED  BY <2>1
  <1>5. ASSUME NEW i \in 1..(n + m) PROVE (a \o b)[i] = c[i]
    <2>1. CASE i <= n
      <3>1. i \in 1..n  BY <2>1
      <3> QED  BY <1>1, <1>3, <1>4, <2>1, <3>1, Zenon
    <2>2. CASE ~(i <= n)
      <3>1. i - n \in 1..m /\ x + n + (i - n) - 1 = x + i - 1  BY <2>2
      <3> QED  BY <1>2, <1>3, <1>4, <2>2, <3>1, Zenon
    <2> QED  BY <2>1, <2>2, Zenon
  <1>6. a \o b = c
    <2> DEFINE ab == a \o b
    <2> HIDE DEF ab
    <2>1. /\ ab \in Seq(Nat) /\ Len(ab) = n + m /\ \A i \in 1..(n + m) : ab[i] = c[i]
      BY <1>4, <1>5 DEF ab
    <2>2. ab = c  BY <1>3, <2>1
    <2> QED  BY <2>2 DEF ab
  <1> QED  BY <1>6, Zenon DEF a, b, c

(* Without its first k bytes, a piece starts k bytes later.                *)
LEMMA StreamDrop ==
  ASSUME NEW x \in Nat, NEW n \in Nat, NEW k \in Nat, k <= n
  PROVE  SubSeq(Stream!PeerStream(x, n), k + 1, n) = Stream!PeerStream(x + k, n - k)
  <1> DEFINE a == Stream!PeerStream(x, n)
             c == Stream!PeerStream(x + k, n - k)
  <1>1. /\ a \in Seq(Nat) /\ Len(a) = n /\ \A i \in 1..n : a[i] = x + i - 1
    <2>1. \A i \in 1..n : x + i - 1 \in Nat  OBVIOUS
    <2> QED  BY <2>1 DEF Stream!PeerStream
  <1>2. /\ c \in Seq(Nat) /\ Len(c) = n - k
        /\ \A i \in 1..(n - k) : c[i] = x + k + i - 1
    <2>1. n - k \in Nat /\ \A i \in 1..(n - k) : x + k + i - 1 \in Nat  OBVIOUS
    <2> QED  BY <2>1 DEF Stream!PeerStream
  <1> HIDE DEF a, c
  <1>3. /\ SubSeq(a, k + 1, n) \in Seq(Nat) /\ Len(SubSeq(a, k + 1, n)) = n - k
        /\ \A i \in 1..(n - k) : SubSeq(a, k + 1, n)[i] = a[k + i]
    <2>1. CASE k = n
      BY <1>1, <2>1
    <2>2. CASE k < n
      BY <1>1, <2>2
    <2> QED  BY <2>1, <2>2
  <1>4. ASSUME NEW i \in 1..(n - k) PROVE SubSeq(a, k + 1, n)[i] = c[i]
    <2>1. k + i \in 1..n /\ x + (k + i) - 1 = x + k + i - 1  OBVIOUS
    <2> QED  BY <1>1, <1>2, <1>3, <2>1, Zenon
  <1>5. SubSeq(a, k + 1, n) = c
    <2> DEFINE b == SubSeq(a, k + 1, n)
    <2> HIDE DEF b
    <2>1. /\ b \in Seq(Nat) /\ Len(b) = n - k /\ \A i \in 1..(n - k) : b[i] = c[i]
      BY <1>3, <1>4 DEF b
    <2>2. b = c  BY <1>2, <2>1
    <2> QED  BY <2>2 DEF b
  <1> QED  BY <1>5, Zenon DEF a, c

(* What a step needs to know of the state it leads to.                     *)
StreamBounds ==
  /\ delivered \in Nat /\ read \in Nat /\ read <= delivered
  /\ delivered - read <= RxLen
  /\ eof \in BOOLEAN /\ acked \in Nat /\ peerAck \in Nat
  /\ sndMax \in Nat /\ written \in Nat /\ acked <= peerAck
  /\ Inbox = Stream!PeerStream(read, delivered - read)

LEMMA StreamBoundsHold == StreamInv => StreamBounds
  <1> SUFFICES ASSUME StreamInv PROVE StreamBounds  BY Zenon
  <1>1. Accounts  BY Zenon DEF StreamInv, Positions
  <1>2. acked <= peerAck  BY Zenon DEF StreamInv, Positions, AckSound
  <1>3. Inbox = Stream!PeerStream(read, delivered - read)  BY InboxIsStream, Zenon
  <1> QED  BY <1>1, <1>2, <1>3, StreamTypes, Zenon DEF StreamBounds

LEMMA Gained ==
  ASSUME NEW a \in Nat, NEW b \in Nat, NEW r \in Nat, NEW l \in Nat,
         a - r <= l, r <= b, b <= a
  PROVE  a - b \in 0..l /\ a - b \in Nat /\ a = b + (a - b)
  OBVIOUS

(* A received packet is news from the network.                             *)
LEMMA ReceiveHears ==
  ASSUME StreamInv, StreamInv', HearsMore
  PROVE  \E n \in 0..RxLen, end \in BOOLEAN : Stream!Hear(n, end)
  <1>t. StreamBounds'  BY StreamBoundsHold, PTL
  <1> DEFINE n == delivered' - delivered
  <1>1. /\ delivered \in Nat /\ read \in Nat /\ read <= delivered
        /\ eof \in BOOLEAN /\ acked \in Nat /\ peerAck \in Nat /\ RxLen \in Nat
    BY StreamTypes, FlowsAssumption, Zenon DEF StreamInv, Positions
  <1>2. /\ delivered' \in Nat /\ read' \in Nat /\ read' <= delivered'
        /\ delivered' - read' <= RxLen
        /\ eof' \in BOOLEAN /\ acked' \in Nat /\ peerAck' \in Nat
    BY <1>t, Zenon DEF StreamBounds
  <1>3. /\ delivered <= delivered' /\ (eof => delivered' = delivered) /\ (eof => eof')
        /\ acked <= acked' /\ peerAck <= peerAck' /\ read' = read /\ written' = written
    BY Zenon DEF HearsMore
  <1>4. n \in 0..RxLen /\ n \in Nat /\ delivered' = delivered + n
    <2>1. /\ delivered' \in Nat /\ delivered \in Nat /\ read \in Nat /\ RxLen \in Nat
          /\ delivered' - read <= RxLen /\ read <= delivered /\ delivered <= delivered'
      BY <1>1, <1>2, <1>3, Zenon
    <2> QED  BY <2>1, Gained, Zenon
  <1> HIDE DEF n
  <1>5. Len(Inbox) = delivered - read /\ Inbox = Stream!PeerStream(read, delivered - read)
    BY InboxIsStream, Zenon
  <1>6. Inbox' = Stream!PeerStream(read', delivered' - read')
    BY <1>t, Zenon DEF StreamBounds
  <1>7. Inbox' = Inbox \o Stream!PeerStream(read + Len(Inbox), n)
    <2>0. read \in Nat /\ n \in Nat  BY <1>1, <1>4, Zenon
    <2>1. delivered - read \in Nat /\ delivered' - read' = (delivered - read) + n
      BY <1>1, <1>3, <1>4
    <2>2. Stream!PeerStream(read, delivered - read)
            \o Stream!PeerStream(read + (delivered - read), n)
          = Stream!PeerStream(read, (delivered - read) + n)
      BY <2>0, <2>1, StreamAppend, Zenon
    <2> QED  BY <1>3, <1>5, <1>6, <2>1, <2>2, Zenon
  <1>8. n + Len(Inbox) <= RxLen  BY <1>1, <1>2, <1>3, <1>4, <1>5
  <1>9. eof' => read + Len(Inbox) + n = PeerBytes
    <2>1. eof' => delivered' = PeerBytes  BY Zenon DEF StreamInv, RxAt
    <2> QED  BY <1>1, <1>4, <1>5, <2>1
  <1>10. peerAck' <= written
    <2>1. peerAck' <= sndMax' /\ sndMax' <= written'  BY Zenon DEF StreamInv
    <2>2. sndMax' \in Nat /\ written' \in Nat  BY <1>t, Zenon DEF StreamBounds
    <2> QED  BY <1>2, <1>3, <2>1, <2>2
  <1>11. acked' <= peerAck'
    BY <1>t, Zenon DEF StreamBounds
  <1>12. eof => n = 0  BY <1>1, <1>3, <1>4
  <1>13. eof' = (eof \/ eof')  BY <1>1, <1>2, <1>3, Zenon
  <1>14. Stream!Hear(n, eof')
    BY <1>1, <1>2, <1>3, <1>7, <1>8, <1>9, <1>10, <1>11, <1>12, <1>13, Zenon DEF Stream!Hear
  <1> QED  BY <1>2, <1>4, <1>14, Zenon

(* A descriptor of the application is a use of the abstract connection.    *)
LEMMA AppUses ==
  ASSUME StreamInv, StreamInv', App
  PROVE  \E n \in 0..TxLen, k \in 0..RxLen : Stream!Use(n, k)
  <1>t. StreamBounds'  BY StreamBoundsHold, PTL
  <1>1. PICK rb \in 0..(delivered - read), tb \in 0..(TxLen - (written - acked)) :
          /\ written + tb <= AppBytes /\ AppBump(rb, tb)
    BY Zenon DEF App
  <1>2. /\ delivered \in Nat /\ read \in Nat /\ read <= delivered
        /\ delivered - read <= RxLen /\ RxLen \in Nat /\ TxLen \in Nat
        /\ written \in Nat /\ acked \in Nat /\ acked <= written
    BY StreamTypes, FlowsAssumption, Zenon DEF StreamInv, Positions, Accounts, TxAccounting
  <1>3. /\ written' = written + tb /\ read' = read + rb
        /\ UNCHANGED <<acked, peerAck, delivered, eof>>
    BY <1>1, Zenon DEF AppBump
  <1>4. /\ rb \in Nat /\ rb <= delivered - read /\ delivered - read \in Nat /\ rb \in 0..RxLen
    BY <1>1, <1>2
  <1>5. tb \in 0..TxLen /\ written + tb - acked <= TxLen  BY <1>1, <1>2
  <1>6. Len(Inbox) = delivered - read /\ Inbox = Stream!PeerStream(read, delivered - read)
    BY InboxIsStream, Zenon
  <1>7. Inbox' = Stream!PeerStream(read', delivered' - read')
    BY <1>t, Zenon DEF StreamBounds
  <1>8. Inbox' = SubSeq(Inbox, rb + 1, Len(Inbox))
    <2>0. /\ read \in Nat /\ rb \in Nat
          /\ delivered - read \in Nat /\ rb <= delivered - read
      BY <1>2, <1>4
    <2>1. delivered' - read' = (delivered - read) - rb  BY <1>2, <1>3, <1>4
    <2>2. SubSeq(Stream!PeerStream(read, delivered - read), rb + 1, delivered - read)
            = Stream!PeerStream(read + rb, (delivered - read) - rb)
      BY <2>0, StreamDrop, Zenon
    <2> QED  BY <1>3, <1>6, <1>7, <2>1, <2>2, Zenon
  <1>9. Stream!Use(tb, rb)
    BY <1>1, <1>2, <1>3, <1>4, <1>5, <1>6, <1>8 DEF Stream!Use
  <1> QED  BY <1>4, <1>5, <1>9, Zenon

LEMMA NextImplements ==
  StreamInv /\ StreamInv' /\ [Next]_vars => [Stream!Next]_(Stream!vars)
  <1> SUFFICES ASSUME StreamInv, StreamInv', [Next]_vars
               PROVE  [Stream!Next]_(Stream!vars)
    BY Zenon
  <1>1. CASE RecvSeg \/ RecvAck
    BY <1>1, RecvStream, ReceiveHears, Zenon DEF Stream!Next
  <1>2. CASE App  BY <1>2, AppUses, Zenon DEF Stream!Next
  <1>3. CASE Retransmit
    BY <1>3, Zenon DEF Retransmit, txVars, Stream!vars, Inbox
  <1>4. CASE \E force \in BOOLEAN : Transmit(force)
    BY <1>4, Zenon DEF Transmit, Stream!vars, Inbox
  <1>5. CASE UNCHANGED vars
    BY <1>5, Zenon DEF vars, Stream!vars, Inbox
  <1> QED  BY <1>1, <1>2, <1>3, <1>4, <1>5, Zenon DEF Next

LEMMA InitImplements == Init => Stream!Init
  <1> SUFFICES ASSUME Init PROVE Stream!Init  BY Zenon
  <1>1. written = 0 /\ peerAck = 0 /\ acked = 0 /\ read = 0 /\ delivered = 0 /\ eof = FALSE
    BY Zenon DEF Init
  <1>2. Inbox \in Seq(Nat) /\ Len(Inbox) = 0
    BY <1>1, InitStream, InboxIsStream
  <1> QED  BY <1>1, <1>2 DEF Stream!Init

(* The protocol stage implements the abstract connection, for all buffer   *)
(* lengths, word sizes, segment sizes and streams.  Every packet flows_seg *)
(* and flows_ack handle is news that extends the application's stream by   *)
(* the peer's next bytes, every flows_ac is a use of the two buffers, and  *)
(* a (re)transmission is invisible.                                        *)
THEOREM FlowImplementsByteStream == Spec => ImplementsByteStream
  <1>1. Spec => []StreamInv  BY InitStream, NextStream, PTL DEF Spec
  <1>2. StreamInv /\ StreamInv' /\ [Next]_vars => [Stream!Next]_(Stream!vars)
    BY NextImplements, Zenon
  <1> QED  BY <1>1, <1>2, InitImplements, PTL DEF Spec, ImplementsByteStream, Stream!Spec
=============================================================================
