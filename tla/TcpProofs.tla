----------------------------- MODULE TcpProofs ------------------------------
(***************************************************************************)
(* Proofs about connection setup and teardown (Tcp): every connection      *)
(* struct is in the places its status says, and in no others.  A step      *)
(* changes one connection; ConnInv says where that one is, TcpInv adds     *)
(* what relates two of them.                                               *)
(***************************************************************************)
EXTENDS TcpState, TLAPS

-----------------------------------------------------------------------------
(* Lists: a link at the front, one at the end, the first or another one    *)
(* gone.                                                                   *)

(* Nothing is listed in the empty list.                                    *)
LEMMA EmptyList == 1..Len(<<>>) = {} /\ Range(<<>>) = {} /\ IsInjective(<<>>)
<1>1. DOMAIN <<>> = {} /\ 1..Len(<<>>) = {}
  OBVIOUS
<1> QED  BY <1>1, Zenon DEF Range, IsInjective

(* <<c>> \o s: the new entry is the first, the others follow.              *)
LEMMA ConsAt ==
  ASSUME NEW S, NEW s \in Seq(S), NEW c \in S
  PROVE  /\ <<c>> \o s \in Seq(S) /\ Len(<<c>> \o s) = Len(s) + 1
         /\ (<<c>> \o s)[1] = c
         /\ \A i \in 1..Len(s) : (<<c>> \o s)[i + 1] = s[i]
         /\ \A i \in 2..(Len(s) + 1) : (<<c>> \o s)[i] = s[i - 1]
<1>1. /\ <<c>> \in Seq(S) /\ Len(<<c>>) = 1 /\ <<c>>[1] = c
  OBVIOUS
<1> QED  BY <1>1, SMT

(* What is listed after a connection was put at the front of s.            *)
LEMMA ConsRange ==
  ASSUME NEW S, NEW s \in Seq(S), NEW c \in S
  PROVE  Range(<<c>> \o s) = Range(s) \cup {c}
<1> DEFINE t == <<c>> \o s
<1>1. /\ t \in Seq(S) /\ Len(t) = Len(s) + 1 /\ t[1] = c
      /\ \A i \in 1..Len(s) : t[i + 1] = s[i]
      /\ \A i \in 2..(Len(s) + 1) : t[i] = s[i - 1]
  BY ConsAt
<1> HIDE DEF t
<1>2. DOMAIN t = 1..(Len(s) + 1) /\ DOMAIN s = 1..Len(s) /\ Len(s) \in Nat
  BY <1>1
<1>3. ASSUME NEW x \in Range(t)  PROVE x \in Range(s) \cup {c}
  <2>1. PICK i \in 1..(Len(s) + 1) : x = t[i]
    BY <1>2 DEF Range
  <2>2. CASE i = 1
    BY <2>1, <2>2, <1>1
  <2>3. CASE i # 1
    <3>1. i - 1 \in DOMAIN s /\ x = s[i - 1]
      BY <2>1, <2>3, <1>1, <1>2
    <3> QED  BY <3>1, Zenon DEF Range
  <2> QED  BY <2>2, <2>3
<1>4. ASSUME NEW x \in Range(s)  PROVE x \in Range(t)
  <2>1. PICK i \in 1..Len(s) : x = s[i]
    BY <1>2, Zenon DEF Range
  <2>2. i + 1 \in DOMAIN t /\ t[i + 1] = x
    BY <2>1, <1>1, <1>2
  <2> QED  BY <2>2 DEF Range
<1>5. c \in Range(t)
  BY <1>1, <1>2 DEF Range
<1>6. Range(t) = Range(s) \cup {c}
  BY <1>3, <1>4, <1>5
<1> QED  BY <1>6, Zenon DEF t

(* It was not listed before: nothing is listed twice.                      *)
LEMMA ConsInjective ==
  ASSUME NEW S, NEW s \in Seq(S), NEW c \in S, IsInjective(s), c \notin Range(s)
  PROVE  IsInjective(<<c>> \o s)
<1> DEFINE t == <<c>> \o s
<1>1. /\ t \in Seq(S) /\ Len(t) = Len(s) + 1 /\ t[1] = c
      /\ \A i \in 2..(Len(s) + 1) : t[i] = s[i - 1]
  BY ConsAt
<1> HIDE DEF t
<1>2. DOMAIN t = 1..(Len(s) + 1) /\ DOMAIN s = 1..Len(s) /\ Len(s) \in Nat
  BY <1>1
<1>3. \A i \in 1..Len(s) : s[i] # c
  BY <1>2 DEF Range
<1>4. \A i, j \in DOMAIN t : t[i] = t[j] => i = j
  <2> SUFFICES ASSUME NEW i \in DOMAIN t, NEW j \in DOMAIN t, t[i] = t[j]  PROVE i = j
    OBVIOUS
  <2>1. CASE i = 1
    BY <2>1, <1>1, <1>2, <1>3
  <2>2. CASE j = 1
    BY <2>2, <1>1, <1>2, <1>3
  <2>3. CASE i # 1 /\ j # 1
    <3>1. i - 1 \in DOMAIN s /\ j - 1 \in DOMAIN s /\ s[i - 1] = s[j - 1]
      BY <2>3, <1>1, <1>2
    <3>2. i - 1 = j - 1
      BY <3>1 DEF IsInjective
    <3> QED  BY <3>2, <1>2
  <2> QED  BY <2>1, <2>2, <2>3
<1>5. IsInjective(t)
  BY <1>4 DEF IsInjective
<1> QED  BY <1>5, Zenon DEF t

(* The first link is taken.                                                *)
LEMMA TailList ==
  ASSUME NEW S, NEW s \in Seq(S), s # <<>>
  PROVE  /\ Head(s) \in S /\ Head(s) \in Range(s)
         /\ Tail(s) \in Seq(S) /\ Len(Tail(s)) = Len(s) - 1
         /\ IsInjective(s) => Range(Tail(s)) = Range(s) \ {Head(s)} /\ IsInjective(Tail(s))
<1> DEFINE t == Tail(s)
<1>1. /\ t \in Seq(S) /\ Len(t) = Len(s) - 1 /\ Len(s) \in Nat \ {0}
      /\ \A i \in 1..Len(t) : t[i] = s[i + 1]
      /\ Head(s) = s[1]
  BY SMT
<1> HIDE DEF t
<1>2. DOMAIN t = 1..(Len(s) - 1) /\ DOMAIN s = 1..Len(s)
  BY <1>1
<1>3. Head(s) \in S /\ Head(s) \in Range(s)
  BY <1>1, <1>2 DEF Range
<1>4. ASSUME IsInjective(s)  PROVE IsInjective(t)
  <2>1. ASSUME NEW i \in DOMAIN t, NEW j \in DOMAIN t, t[i] = t[j]  PROVE i = j
    <3>1. i + 1 \in DOMAIN s /\ j + 1 \in DOMAIN s /\ s[i + 1] = s[j + 1]
      BY <2>1, <1>1, <1>2
    <3>2. i + 1 = j + 1
      BY <3>1, <1>4, Zenon DEF IsInjective
    <3> QED  BY <3>2, <1>2, <1>1
  <2> QED  BY <2>1, Zenon DEF IsInjective
<1>5. ASSUME IsInjective(s), NEW x \in Range(t)  PROVE x \in Range(s) \ {Head(s)}
  <2>1. PICK i \in DOMAIN t : x = t[i]
    BY Zenon DEF Range
  <2>2. i + 1 \in DOMAIN s /\ s[i + 1] = x /\ 1 \in DOMAIN s /\ i + 1 # 1
    BY <2>1, <1>1, <1>2
  <2>3. s[i + 1] # s[1]
    BY <2>2, <1>5 DEF IsInjective
  <2> QED  BY <2>2, <2>3, <1>1, Zenon DEF Range
<1>6. ASSUME NEW x \in Range(s), x # Head(s)  PROVE x \in Range(t)
  <2>1. PICK i \in DOMAIN s : x = s[i]
    BY DEF Range
  <2>2. i # 1
    BY <2>1, <1>1, <1>6, Zenon
  <2>3. i - 1 \in DOMAIN t /\ t[i - 1] = x
    BY <2>1, <2>2, <1>1, <1>2
  <2> QED  BY <2>3 DEF Range
<1>7. IsInjective(s) => Range(t) = Range(s) \ {Head(s)} /\ IsInjective(t)
  BY <1>4, <1>5, <1>6
<1> QED  BY <1>1, <1>3, <1>7 DEF t

(* A link at the end.                                                      *)
LEMMA AppendList ==
  ASSUME NEW S, NEW s \in Seq(S), NEW c \in S
  PROVE  /\ Append(s, c) \in Seq(S) /\ Len(Append(s, c)) = Len(s) + 1
         /\ Append(s, c) # <<>>
         /\ Range(Append(s, c)) = Range(s) \cup {c}
         /\ IsInjective(s) /\ c \notin Range(s) => IsInjective(Append(s, c))
<1> DEFINE t == Append(s, c)
<1>1. /\ t \in Seq(S) /\ Len(t) = Len(s) + 1 /\ Len(s) \in Nat
      /\ \A i \in 1..Len(s) : t[i] = s[i]
      /\ t[Len(s) + 1] = c
  BY SMT
<1> HIDE DEF t
<1>2. DOMAIN t = 1..(Len(s) + 1) /\ DOMAIN s = 1..Len(s)
  BY <1>1
<1>3. ASSUME NEW x \in Range(t)  PROVE x \in Range(s) \cup {c}
  BY <1>1, <1>2, <1>3 DEF Range
<1>4. ASSUME NEW x \in Range(s)  PROVE x \in Range(t)
  <2>1. PICK i \in 1..Len(s) : x = s[i]
    BY <1>2 DEF Range
  <2>2. i \in DOMAIN t /\ t[i] = x
    BY <2>1, <1>1, <1>2
  <2> QED  BY <2>2 DEF Range
<1>5. c \in Range(t)
  BY <1>1, <1>2 DEF Range
<1>6. ASSUME IsInjective(s), c \notin Range(s)  PROVE IsInjective(t)
  <2>1. \A i \in 1..Len(s) : s[i] # c
    BY <1>2, <1>6 DEF Range
  <2>2. ASSUME NEW i \in DOMAIN t, NEW j \in DOMAIN t, t[i] = t[j]  PROVE i = j
    <3>1. CASE i = Len(s) + 1
      BY <3>1, <2>1, <2>2, <1>1, <1>2
    <3>2. CASE j = Len(s) + 1
      BY <3>2, <2>1, <2>2, <1>1, <1>2
    <3>3. CASE i # Len(s) + 1 /\ j # Len(s) + 1
      <4>1. i \in DOMAIN s /\ j \in DOMAIN s /\ s[i] = s[j]
        BY <3>3, <2>2, <1>1, <1>2
      <4> QED  BY <4>1, <1>6, Zenon DEF IsInjective
    <3> QED  BY <3>1, <3>2, <3>3
  <2> QED  BY <2>2 DEF IsInjective
<1>7. Len(t) # 0
  BY <1>1
<1> QED  BY <1>1, <1>3, <1>4, <1>5, <1>6, <1>7 DEF t

(* A link is taken out of the middle.                                      *)
LEMMA UnlinkList ==
  ASSUME NEW S, NEW s \in Seq(S), NEW c \in Range(s)
  PROVE  /\ Unlink(s, c) \in Seq(S)
         /\ IsInjective(s) => /\ Range(Unlink(s, c)) = Range(s) \ {c}
                              /\ IsInjective(Unlink(s, c))
<1> DEFINE i == CHOOSE i \in 1..Len(s) : s[i] = c /\ \A j \in 1..(i - 1) : s[j] # c
           t == [j \in 1..(Len(s) - 1) |-> IF j < i THEN s[j] ELSE s[j + 1]]
<1>1. Len(s) \in Nat \ {0} /\ DOMAIN s = 1..Len(s) /\ \A j \in 1..Len(s) : s[j] \in S
  <2>1. PICK j \in DOMAIN s : s[j] = c
    BY DEF Range
  <2> QED  BY <2>1, SMT
<1>2. Unlink(s, c) = t
  BY DEF Unlink
<1> HIDE DEF i
<1>3. Unlink(s, c) \in Seq(S)
  <2>1. \A j \in 1..(Len(s) - 1) : t[j] \in S
    BY <1>1
  <2>2. Len(s) - 1 \in Nat
    BY <1>1
  <2> HIDE DEF t
  <2>3. t \in [1..(Len(s) - 1) -> S]
    BY <2>1 DEF t
  <2>4. t \in Seq(S)
    BY <2>2, <2>3, SMT
  <2> QED  BY <2>4, <1>2
<1>4. SUFFICES ASSUME IsInjective(s)
               PROVE  Range(t) = Range(s) \ {c} /\ IsInjective(t)
  BY <1>2, <1>3, Zenon
<1>5. i \in 1..Len(s) /\ s[i] = c
  <2>1. PICK k \in 1..Len(s) : s[k] = c
    BY <1>1, Zenon DEF Range
  <2>2. \A j \in 1..(k - 1) : s[j] # c
    <3> SUFFICES ASSUME NEW j \in 1..(k - 1), s[j] = c  PROVE FALSE
      BY Zenon
    <3>1. j \in DOMAIN s /\ k \in DOMAIN s /\ j # k
      BY <1>1
    <3> QED  BY <3>1, <2>1, <1>4 DEF IsInjective
  <2> QED  BY <2>1, <2>2, Zenon DEF i
<1>6. ASSUME NEW x \in Range(t)  PROVE x \in Range(s) \ {c}
  <2>1. PICK j \in 1..(Len(s) - 1) : x = t[j]
    BY Zenon DEF Range
  <2>2. PICK k \in 1..Len(s) : x = s[k] /\ k # i
    BY <2>1, <1>1, <1>5
  <2>3. s[k] # s[i]
    BY <2>2, <1>1, <1>4, <1>5, Zenon DEF IsInjective
  <2> QED  BY <2>2, <2>3, <1>1, <1>5, Zenon DEF Range
<1>7. ASSUME NEW x \in Range(s), x # c  PROVE x \in Range(t)
  <2>1. PICK k \in 1..Len(s) : x = s[k]
    BY <1>1, Zenon DEF Range
  <2>2. k # i
    BY <2>1, <1>5, <1>7, Zenon
  <2>3. PICK j \in 1..(Len(s) - 1) : x = t[j]
    <3>1. CASE k < i
      <4>1. k \in 1..(Len(s) - 1) /\ t[k] = x
        BY <3>1, <2>1, <1>1, <1>5
      <4> QED  BY <4>1, Zenon
    <3>2. CASE k > i
      <4>1. k - 1 \in 1..(Len(s) - 1) /\ t[k - 1] = x
        BY <3>2, <2>1, <1>1, <1>5
      <4> QED  BY <4>1, Zenon
    <3> QED  BY <3>1, <3>2, <2>2, <1>1, <1>5
  <2>4. DOMAIN t = 1..(Len(s) - 1)
    BY Zenon
  <2> QED  BY <2>3, <2>4, Zenon DEF Range
<1>8. ASSUME NEW j \in 1..(Len(s) - 1), NEW k \in 1..(Len(s) - 1), t[j] = t[k]
      PROVE  j = k
  <2> DEFINE u(n) == IF n < i THEN n ELSE n + 1
  <2>1. u(j) \in 1..Len(s) /\ u(k) \in 1..Len(s) /\ s[u(j)] = s[u(k)]
    BY <1>1, <1>5, <1>8
  <2>2. u(j) = u(k)
    <3> HIDE DEF u
    <3> QED  BY <2>1, <1>1, <1>4, Zenon DEF IsInjective
  <2> QED  BY <2>2, <1>1, <1>5
<1>9. IsInjective(t)
  BY <1>8 DEF IsInjective
<1> QED  BY <1>6, <1>7, <1>9

-----------------------------------------------------------------------------
(* The queue of completions.                                               *)
(* A completion is taken.                                                  *)
LEMMA TailQueue ==
  ASSUME NEW q \in Seq(Entries), q # <<>>, Once(q)
  PROVE  /\ Head(q) \in Entries /\ Head(q).conn \in Queued(q)
         /\ Tail(q) \in Seq(Entries)
         /\ Queued(Tail(q)) = Queued(q) \ {Head(q).conn} /\ Once(Tail(q))
<1> DEFINE t == Tail(q)
<1>1. /\ t \in Seq(Entries) /\ Len(t) = Len(q) - 1 /\ Len(q) \in Nat \ {0}
      /\ \A i \in 1..Len(t) : t[i] = q[i + 1]
      /\ Head(q) = q[1] /\ q[1] \in Entries
  BY SMT
<1> HIDE DEF t
<1>2. q[1].conn \in Queued(q)
  BY <1>1 DEF Queued
<1>3. ASSUME NEW i \in 1..Len(t), NEW j \in 1..Len(t), t[i].conn = t[j].conn
      PROVE  i = j
  <2>1. i + 1 \in 1..Len(q) /\ j + 1 \in 1..Len(q) /\ q[i + 1].conn = q[j + 1].conn
    BY <1>1, <1>3
  <2>2. i + 1 = j + 1
    BY <2>1, Zenon DEF Once
  <2> QED  BY <2>2, <1>1
<1>4. ASSUME NEW x \in Queued(t)  PROVE x \in Queued(q) \ {q[1].conn}
  <2>1. PICK i \in 1..Len(t) : x = t[i].conn
    BY Zenon DEF Queued
  <2>2. i + 1 \in 1..Len(q) /\ q[i + 1].conn = x /\ 1 \in 1..Len(q) /\ i + 1 # 1
    BY <2>1, <1>1
  <2>3. q[i + 1].conn # q[1].conn
    BY <2>2 DEF Once
  <2> QED  BY <2>2, <2>3 DEF Queued
<1>5. ASSUME NEW x \in Queued(q), x # q[1].conn  PROVE x \in Queued(t)
  <2>1. PICK i \in 1..Len(q) : x = q[i].conn
    BY DEF Queued
  <2>2. i # 1
    BY <2>1, <1>5, Zenon
  <2>3. i - 1 \in 1..Len(t) /\ t[i - 1].conn = x
    BY <2>1, <2>2, <1>1
  <2> QED  BY <2>3 DEF Queued
<1>6. Queued(t) = Queued(q) \ {q[1].conn} /\ Once(t)
  BY <1>3, <1>4, <1>5, Zenon DEF Once
<1> QED  BY <1>1, <1>2, <1>6 DEF t

(* The completions of s, a list of connections, follow those of q.         *)
LEMMA CatQueue ==
  ASSUME NEW q \in Seq(Entries), Once(q), NEW s \in Seq(Conns), IsInjective(s),
         \A c \in Range(s) : c \notin Queued(q), NEW b \in BOOLEAN
  PROVE  LET t == q \o [i \in 1..Len(s) |-> [conn |-> s[i], ok |-> b]]
         IN  t \in Seq(Entries) /\ Queued(t) = Queued(q) \cup Range(s) /\ Once(t)
<1> DEFINE e == [i \in 1..Len(s) |-> [conn |-> s[i], ok |-> b]]
           t == q \o e
<1>1. Len(q) \in Nat /\ Len(s) \in Nat /\ DOMAIN s = 1..Len(s)
      /\ \A i \in 1..Len(s) : s[i] \in Conns
  BY SMT
<1>2. \A i \in 1..Len(s) : e[i] \in Entries /\ e[i].conn = s[i]
  BY <1>1 DEF Entries
<1>3. DOMAIN e = 1..Len(s) /\ e \in [1..Len(s) -> Entries]
  <2> HIDE DEF e
  <2>1. e = [i \in 1..Len(s) |-> e[i]]
    BY DEF e
  <2> QED  BY <2>1, <1>2, Zenon
<1> HIDE DEF e
<1>4. e \in Seq(Entries) /\ Len(e) = Len(s)
  BY <1>1, <1>3, SMT
<1>5. /\ t \in Seq(Entries) /\ Len(t) = Len(q) + Len(s)
      /\ \A i \in 1..Len(q) : t[i] = q[i]
      /\ \A i \in (Len(q) + 1)..(Len(q) + Len(s)) : t[i] = e[i - Len(q)]
  BY <1>4, SMT
<1> HIDE DEF t
<1>6. /\ \A i \in 1..Len(q) : t[i].conn = q[i].conn
      /\ \A i \in (Len(q) + 1)..(Len(q) + Len(s)) :
           i - Len(q) \in 1..Len(s) /\ t[i].conn = s[i - Len(q)]
  BY <1>1, <1>2, <1>5
<1>7. \A i \in 1..Len(q), j \in 1..Len(s) : q[i].conn # s[j]
  BY <1>1 DEF Queued, Range
<1>8. ASSUME NEW i \in 1..Len(t), NEW j \in 1..Len(t), t[i].conn = t[j].conn
      PROVE  i = j
  <2>1. CASE i <= Len(q) /\ j <= Len(q)
    <3>1. i \in 1..Len(q) /\ j \in 1..Len(q) /\ q[i].conn = q[j].conn
      BY <2>1, <1>1, <1>5, <1>6, <1>8
    <3> QED  BY <3>1, Zenon DEF Once
  <2>2. CASE i > Len(q) /\ j > Len(q)
    <3>1. /\ i - Len(q) \in DOMAIN s /\ j - Len(q) \in DOMAIN s
          /\ s[i - Len(q)] = s[j - Len(q)]
      BY <2>2, <1>1, <1>5, <1>6, <1>8
    <3>2. i - Len(q) = j - Len(q)
      BY <3>1 DEF IsInjective
    <3> QED  BY <3>2, <1>1, <1>5
  <2>3. CASE i <= Len(q) /\ j > Len(q)
    <3>1. i \in 1..Len(q) /\ j \in (Len(q) + 1)..(Len(q) + Len(s))
      BY <2>3, <1>1, <1>5
    <3>2. j - Len(q) \in 1..Len(s) /\ q[i].conn = s[j - Len(q)]
      BY <3>1, <1>6, <1>8, Zenon
    <3> QED  BY <3>1, <3>2, <1>7, Zenon
  <2>4. CASE i > Len(q) /\ j <= Len(q)
    <3>1. j \in 1..Len(q) /\ i \in (Len(q) + 1)..(Len(q) + Len(s))
      BY <2>4, <1>1, <1>5
    <3>2. i - Len(q) \in 1..Len(s) /\ q[j].conn = s[i - Len(q)]
      BY <3>1, <1>6, <1>8, Zenon
    <3> QED  BY <3>1, <3>2, <1>7, Zenon
  <2> QED  BY <2>1, <2>2, <2>3, <2>4, <1>1, <1>5
<1>9. ASSUME NEW x \in Queued(t)  PROVE x \in Queued(q) \cup Range(s)
  <2>1. PICK i \in 1..Len(t) : x = t[i].conn
    BY Zenon DEF Queued
  <2>2. CASE i <= Len(q)
    <3>1. i \in 1..Len(q) /\ x = q[i].conn
      BY <2>1, <2>2, <1>1, <1>5, <1>6
    <3> QED  BY <3>1, Zenon DEF Queued
  <2>3. CASE i > Len(q)
    <3>1. i - Len(q) \in DOMAIN s /\ x = s[i - Len(q)]
      BY <2>1, <2>3, <1>1, <1>5, <1>6
    <3> QED  BY <3>1, Zenon DEF Range
  <2> QED  BY <2>2, <2>3, <1>1, <1>5
<1>10. ASSUME NEW x \in Queued(q) \cup Range(s)  PROVE x \in Queued(t)
  <2>1. CASE x \in Queued(q)
    <3>1. PICK i \in 1..Len(q) : x = q[i].conn
      BY <2>1, Zenon DEF Queued
    <3>2. i \in 1..Len(t) /\ x = t[i].conn
      BY <3>1, <1>1, <1>5, <1>6
    <3> QED  BY <3>2, Zenon DEF Queued
  <2>2. CASE x \in Range(s)
    <3>1. PICK i \in 1..Len(s) : x = s[i]
      BY <2>2, <1>1 DEF Range
    <3>2. Len(q) + i \in (Len(q) + 1)..(Len(q) + Len(s)) /\ (Len(q) + i) - Len(q) = i
      BY <1>1
    <3>3. Len(q) + i \in 1..Len(t) /\ x = t[Len(q) + i].conn
      BY <3>1, <3>2, <1>1, <1>5, <1>6
    <3> QED  BY <3>3 DEF Queued
  <2> QED  BY <2>1, <2>2, Zenon
<1>11. t \in Seq(Entries) /\ Queued(t) = Queued(q) \cup Range(s) /\ Once(t)
  BY <1>5, <1>8, <1>9, <1>10, Zenon DEF Once
<1> QED  BY <1>11 DEF t, e

(* One completion more.                                                    *)
LEMMA AppendQueue ==
  ASSUME NEW q \in Seq(Entries), Once(q), NEW c \in Conns, c \notin Queued(q)
  PROVE  LET t == Append(q, [conn |-> c, ok |-> TRUE])
         IN  t \in Seq(Entries) /\ Queued(t) = Queued(q) \cup {c} /\ Once(t)
<1> DEFINE e == [conn |-> c, ok |-> TRUE]
           t == Append(q, e)
<1>1. e \in Entries /\ e.conn = c
  BY DEF Entries
<1> HIDE DEF e
<1>2. /\ t \in Seq(Entries) /\ Len(t) = Len(q) + 1 /\ Len(q) \in Nat
      /\ \A i \in 1..Len(q) : t[i] = q[i]
      /\ t[Len(q) + 1] = e
  BY <1>1, SMT
<1> HIDE DEF t
<1>3. \A i \in 1..Len(q) : q[i].conn # c
  BY Zenon DEF Queued
<1>4. ASSUME NEW i \in 1..Len(t), NEW j \in 1..Len(t), t[i].conn = t[j].conn
      PROVE  i = j
  <2>1. CASE i = Len(q) + 1
    BY <2>1, <1>1, <1>2, <1>3, <1>4
  <2>2. CASE j = Len(q) + 1
    BY <2>2, <1>1, <1>2, <1>3, <1>4
  <2>3. CASE i # Len(q) + 1 /\ j # Len(q) + 1
    <3>1. i \in 1..Len(q) /\ j \in 1..Len(q) /\ q[i].conn = q[j].conn
      BY <2>3, <1>2, <1>4
    <3> QED  BY <3>1, Zenon DEF Once
  <2> QED  BY <2>1, <2>2, <2>3, Zenon
<1>5. ASSUME NEW x \in Queued(t)  PROVE x \in Queued(q) \cup {c}
  <2>1. PICK i \in 1..Len(t) : x = t[i].conn
    BY Zenon DEF Queued
  <2>2. CASE i = Len(q) + 1
    BY <2>1, <2>2, <1>1, <1>2, Zenon
  <2>3. CASE i # Len(q) + 1
    <3>1. i \in 1..Len(q) /\ x = q[i].conn
      BY <2>1, <2>3, <1>2
    <3> QED  BY <3>1, Zenon DEF Queued
  <2> QED  BY <2>2, <2>3, Zenon
<1>6. ASSUME NEW x \in Queued(q)  PROVE x \in Queued(t)
  <2>1. PICK i \in 1..Len(q) : x = q[i].conn
    BY Zenon DEF Queued
  <2>2. i \in 1..Len(t) /\ x = t[i].conn
    BY <2>1, <1>2
  <2> QED  BY <2>2, Zenon DEF Queued
<1>7. c \in Queued(t)
  <2>1. Len(q) + 1 \in 1..Len(t) /\ t[Len(q) + 1].conn = c
    BY <1>1, <1>2
  <2> QED  BY <2>1, Zenon DEF Queued
<1>8. t \in Seq(Entries) /\ Queued(t) = Queued(q) \cup {c} /\ Once(t)
  BY <1>2, <1>4, <1>5, <1>6, <1>7, Zenon DEF Once
<1> QED  BY <1>8, Zenon DEF t, e

-----------------------------------------------------------------------------
(* What a step does not touch.                                             *)

LEMMA FrameConn ==
  ASSUME NEW d \in Conns, ConnInv(d), Same(d), faults \subseteq faults'
  PROVE  ConnInv(d)'
<1>1. PlaceInv(d)'
  BY Zenon DEF ConnInv, Same, PlaceInv, Holds, Accepted
<1>2. tc[d].status = "ARP_PENDING" => tc[d].peer \in Peers
  BY Zenon DEF ConnInv, PlaceInv
<1>3. WakeInv(d)'
  BY <1>2, Zenon DEF ConnInv, Same, WakeInv, Accepted, Resolving
<1>4. ListInv(d)'
  BY DEF ConnInv, Same, ListInv
<1> QED  BY <1>1, <1>3, <1>4, Zenon DEF ConnInv

(* A step of connection c.                                                 *)
LEMMA OneConn ==
  ASSUME NEW c \in Conns, \A d \in Conns : ConnInv(d), Others(c),
         faults \subseteq faults', ConnInv(c)'
  PROVE  \A d \in Conns : ConnInv(d)'
BY FrameConn DEF Others

(* A step of no connection.                                                *)
LEMMA NoConnMoves ==
  ASSUME \A d \in Conns : ConnInv(d), \A d \in Conns : Same(d), faults \subseteq faults'
  PROVE  \A d \in Conns : ConnInv(d)'
BY FrameConn

(* Connections leave the hash table or senders the backlog.                *)
LEMMA FrameTuple ==
  ASSUME TupleInv, ht' \subseteq ht, Range(backlog') \subseteq Range(backlog),
         \A d \in ht' : tc'[d].port = tc[d].port /\ tc'[d].peer = tc[d].peer
  PROVE  TupleInv'
BY DEF TupleInv

(* No flow id is taken or given back.                                      *)
LEMMA FrameFlow ==
  ASSUME FlowInv, freeIds' = freeIds,
         \A d \in Conns : /\ Holds(d)' <=> Holds(d)
                          /\ Holds(d) => tc'[d].flow = tc[d].flow
  PROVE  FlowInv'
<1>1. \A c, d \in Conns : Holds(c)' /\ Holds(d)' /\ tc'[c].flow = tc'[d].flow => c = d
  BY Zenon DEF FlowInv
<1>2. \A c \in Conns : Holds(c)' => tc'[c].flow \notin freeIds'
  BY Zenon DEF FlowInv
<1>3. \A f \in FlowIds \ freeIds' : \E c \in Conns : Holds(c)' /\ tc'[c].flow = f
  BY DEF FlowInv
<1> HIDE DEF Holds
<1> QED  BY <1>1, <1>2, <1>3, Zenon DEF FlowInv

(* Connection c takes the id f, which was free.                            *)
LEMMA FlowTaken ==
  ASSUME FlowInv, NEW c \in Conns, NEW f \in freeIds, freeIds' = freeIds \ {f},
         ~Holds(c), Holds(c)', tc'[c].flow = f,
         \A d \in Conns \ {c} : Holds(d)' <=> Holds(d),
         \A d \in Conns \ {c} : tc'[d].flow = tc[d].flow
  PROVE  FlowInv'
<1>1. \A b, d \in Conns : Holds(b)' /\ Holds(d)' /\ tc'[b].flow = tc'[d].flow => b = d
  BY DEF FlowInv
<1>2. \A b \in Conns : Holds(b)' => tc'[b].flow \notin freeIds'
  BY DEF FlowInv
<1>3. \A g \in FlowIds \ freeIds' : \E b \in Conns : Holds(b)' /\ tc'[b].flow = g
  <2> SUFFICES ASSUME NEW g \in FlowIds \ freeIds'
               PROVE  \E b \in Conns : Holds(b)' /\ tc'[b].flow = g
    OBVIOUS
  <2>1. CASE g = f
    BY <2>1, Zenon
  <2>2. CASE g # f
    <3>1. PICK b \in Conns : Holds(b) /\ tc[b].flow = g
      BY <2>2 DEF FlowInv
    <3>2. b # c
      BY <3>1
    <3> QED  BY <3>1, <3>2, Zenon
  <2> QED  BY <2>1, <2>2, Zenon
<1> QED  BY <1>1, <1>2, <1>3, Zenon DEF FlowInv

(* Connection c gives its id back.                                         *)
LEMMA FlowReturned ==
  ASSUME FlowInv, NEW c \in Conns, Holds(c), ~Holds(c)',
         freeIds' = freeIds \cup {tc[c].flow},
         \A d \in Conns \ {c} : Holds(d)' <=> Holds(d),
         \A d \in Conns \ {c} : tc'[d].flow = tc[d].flow
  PROVE  FlowInv'
<1>1. \A b, d \in Conns : Holds(b)' /\ Holds(d)' /\ tc'[b].flow = tc'[d].flow => b = d
  BY DEF FlowInv
<1>2. \A b \in Conns : Holds(b)' => tc'[b].flow \notin freeIds'
  BY DEF FlowInv
<1>3. \A g \in FlowIds \ freeIds' : \E b \in Conns : Holds(b)' /\ tc'[b].flow = g
  <2> SUFFICES ASSUME NEW g \in FlowIds \ freeIds'
               PROVE  \E b \in Conns : Holds(b)' /\ tc'[b].flow = g
    BY Zenon
  <2>1. PICK b \in Conns : Holds(b) /\ tc[b].flow = g
    BY DEF FlowInv
  <2>2. b # c
    BY <2>1
  <2> QED  BY <2>1, <2>2, Zenon
<1> QED  BY <1>1, <1>2, <1>3, Zenon DEF FlowInv

-----------------------------------------------------------------------------
LEMMA TypeParts ==
  TypeOK <=> TypeConn /\ TypeArp /\ TypeLists /\ TypeNic /\ TypeApp
<1>1. table \in [Tuples -> FlowIds \cup {0}] => DOMAIN table = Tuples
  OBVIOUS
<1>2. TypeOK => TypeNic /\ TypeApp /\ TypeLists
  BY <1>1, Zenon DEF TypeOK, TypeNic, TypeApp, TypeLists, Answers, Tuples
<1>3. TypeOK => TypeConn /\ TypeArp
  BY Zenon DEF TypeOK, TypeConn, TypeArp, Structs, Entries, ArpEntries
<1>4. TypeConn /\ TypeArp /\ TypeLists /\ TypeNic /\ TypeApp => TypeOK
  BY <1>1, Zenon DEF TypeOK, TypeNic, TypeApp, TypeLists, Answers, Tuples, TypeConn, TypeArp,
       Structs, Entries, ArpEntries
<1> QED  BY <1>2, <1>3, <1>4

LEMMA TypePartsNext ==
  TypeConn' /\ TypeArp' /\ TypeLists' /\ TypeNic' /\ TypeApp' => TypeOK'
BY TypeParts, PTL

(* Parts of the state that a step leaves as they are keep their types.     *)
LEMMA TypeKept ==
  /\ TypeConn /\ UNCHANGED tc => TypeConn'
  /\ TypeArp /\ UNCHANGED <<arp, asyncq>> => TypeArp'
  /\ TypeLists /\ UNCHANGED <<ht, ports, wait, cc, appConns, backlog>> => TypeLists'
  /\ TypeNic /\ UNCHANGED <<freeIds, sptx, table>> => TypeNic'
  /\ TypeApp /\ UNCHANGED <<spout, app, answers, packets, faults>> => TypeApp'
<1>1. TypeConn /\ UNCHANGED tc => TypeConn'
  BY DEF TypeConn
<1>2. TypeArp /\ UNCHANGED <<arp, asyncq>> => TypeArp'
  BY DEF TypeArp
<1>3. TypeLists /\ UNCHANGED <<ht, ports, wait, cc, appConns, backlog>> => TypeLists'
  BY DEF TypeLists
<1>4. TypeNic /\ UNCHANGED <<freeIds, sptx, table>> => TypeNic'
  BY DEF TypeNic
<1>5. TypeApp /\ UNCHANGED <<spout, app, answers, packets, faults>> => TypeApp'
  BY DEF TypeApp
<1> QED  BY <1>1, <1>2, <1>3, <1>4, <1>5

(* An answer.                                                              *)
LEMMA ToldType ==
  ASSUME TypeApp, NEW c \in Conns \cup {NULL}, NEW type \in {"OPEN", "NEWCONN", "CLOSE"},
         NEW ok \in BOOLEAN, Told(c, type, ok)
  PROVE  spout' \in Seq(Answers) /\ Len(spout') <= SpoutLen /\ answers' \in [Conns -> Nat]
<1>1. [conn |-> c, type |-> type, ok |-> ok] \in Answers
  BY DEF Answers
<1>2. spout' \in Seq(Answers) /\ Len(spout') <= SpoutLen
  <2>1. CASE Room
    <3> DEFINE e == [conn |-> c, type |-> type, ok |-> ok]
    <3>1. spout' = Append(spout, e) /\ Len(spout) < SpoutLen /\ e \in Answers
      BY <1>1, <2>1 DEF Told, Room
    <3> HIDE DEF e
    <3> QED  BY <3>1, TcpAssumption, SMT DEF TypeApp
  <2>2. CASE ~Room
    BY <2>2, Zenon DEF Told, TypeApp
  <2> QED  BY <2>1, <2>2
<1>3. answers' \in [Conns -> Nat]
  <2>1. CASE answers' = [answers EXCEPT ![c] = @ + 1]
    <3>1. CASE c \in Conns
      <4>1. answers[c] + 1 \in Nat
        BY <3>1 DEF TypeApp
      <4> QED  BY <2>1, <4>1, Zenon DEF TypeApp
    <3>2. CASE c \notin Conns
      BY <2>1, <3>2, Zenon DEF TypeApp
    <3> QED  BY <3>1, <3>2, Zenon
  <2>2. CASE answers' = answers
    BY <2>2, Zenon DEF TypeApp
  <2> QED  BY <2>1, <2>2 DEF Told
<1> QED  BY <1>2, <1>3

LEMMA UntoldType ==
  ASSUME TypeApp, Untold
  PROVE  spout' \in Seq(Answers) /\ Len(spout') <= SpoutLen /\ answers' \in [Conns -> Nat]
BY Zenon DEF TypeApp, Untold

(* A flow id is taken for a 4-tuple.                                       *)
LEMMA AddedType ==
  ASSUME TypeNic, NEW f \in freeIds, NEW t \in Tuples, Added(f, t), UNCHANGED table
  PROVE  TypeNic'
<1> DEFINE E == [tuple : Tuples, flow : FlowIds]
           e == [tuple |-> t, flow |-> f]
<1>1. e \in E /\ sptx' = Append(sptx, e) /\ sptx \in Seq(E)
  BY DEF TypeNic, Added
<1>2. sptx' \in Seq(E)
  <2> HIDE DEF E, e
  <2> QED  BY <1>1
<1> QED  BY <1>2 DEF TypeNic, Added

(* Connection c becomes k.                                                 *)
LEMMA UpdateConn ==
  ASSUME TypeConn, NEW c \in Conns, NEW k \in Structs, tc' = [tc EXCEPT ![c] = k]
  PROVE  TypeConn' /\ tc'[c] = k /\ \A d \in Conns \ {c} : tc'[d] = tc[d]
BY Zenon DEF TypeConn

LEMMA NoConnType ==
  NoConn \in Structs /\ NoConn.timer = "off" /\ NoConn.flow = 0
<1>1. 0 \in 0..Retries
  BY TcpAssumption
<1> QED  BY <1>1 DEF NoConn, Structs, Statuses, NULL

(* What the type says of a connection.                                     *)
LEMMA ConnFields ==
  ASSUME TypeConn, NEW c \in Conns
  PROVE  /\ tc[c] \in Structs /\ tc[c].status \in Statuses
         /\ tc[c].port \in {0, ListenPort} \cup EphPorts
         /\ tc[c].peer \in Peers \cup {NULL}
         /\ tc[c].timer \in {"off", "handshake", "closed"}
         /\ tc[c].attempts \in 0..Retries /\ tc[c].flow \in FlowIds \cup {0}
<1>1. tc[c] \in Structs
  BY DEF TypeConn
<1> QED  BY <1>1 DEF Structs

-----------------------------------------------------------------------------
(* The steps that several handlers share.                                  *)

(* conn_failed, for a connection that is being opened: its completion was  *)
(* taken or there is none, and congestion control lists it only when the   *)
(* registration failed.                                                    *)
LEMMA FailedStep ==
  ASSUME TcpInv, NEW c \in Conns, NEW fs \in SUBSET Faults, Running,
         tc[c].status \in {"ARP_PENDING", "SYN_SENT"},
         tc[c].status = "ARP_PENDING" => c \in Queued(asyncq),
         conn_failed(c, fs),
         UNCHANGED <<arp, ports, wait, backlog, appConns, freeIds, sptx, table, app>>,
         packets' \in 0..MaxPackets,
         asyncq' \in Seq(Entries), Once(asyncq'), Queued(asyncq') = Queued(asyncq) \ {c},
         \/ cc' = cc
         \/ cc' = <<c>> \o cc /\ "add" \in fs
  PROVE  TcpInv'
<1> DEFINE s == IF Room THEN "freed" ELSE "FAILED"
           k == [tc[c] EXCEPT !.timer = "off", !.status = s]
<1>1. TypeConn /\ TypeArp /\ TypeLists /\ TypeNic /\ TypeApp /\ ConnInv(c)
  BY TypeParts, Zenon DEF TcpInv
<1>2. /\ tc[c] \in Structs /\ tc[c].peer \in Peers \cup {NULL}
  BY <1>1, ConnFields, Zenon
<1>3. k \in Structs /\ k.status = s /\ k.timer = "off" /\ k.flow = tc[c].flow
  BY <1>2, Zenon DEF Structs, Statuses
<1>4. tc' = [tc EXCEPT ![c] = k]
  BY Zenon DEF conn_failed
<1> HIDE DEF k
<1>5. TypeConn' /\ tc'[c] = k /\ \A d \in Conns \ {c} : tc'[d] = tc[d]
  BY <1>1, <1>3, <1>4, UpdateConn, Zenon
<1>6. /\ c \in ht /\ c \notin Range(wait) /\ tc[c].flow = 0 /\ c \notin Range(cc)
      /\ ~Holds(c) /\ c \notin Queued(asyncq')
      /\ \A p \in Peers : c \notin Resolving(p)
  BY <1>1, Zenon DEF ConnInv, PlaceInv, WakeInv, ListInv, Holds, Accepted
<1>7. ht' = ht \ {c} /\ aborted' = "ok"
  BY <1>6, Zenon DEF conn_failed
<1>8. /\ faults \subseteq faults' /\ faults' \subseteq Faults /\ fs \subseteq faults'
      /\ faults' \cap {"dangling", "spout_full"} # {}
  BY <1>1, Zenon DEF conn_failed, TypeApp, Faults
<1>9. TypeOK'
  <2>1. TypeArp'
    BY <1>1, Zenon DEF TypeArp
  <2>2. cc' \in Seq(Conns)
    <3>1. cc \in Seq(Conns) /\ <<c>> \o cc \in Seq(Conns)
      BY <1>1, ConsAt, Zenon DEF TypeLists
    <3> QED  BY <3>1, Zenon
  <2>3. TypeLists'
    BY <1>1, <1>7, <2>2, Zenon DEF TypeLists
  <2>4. TypeNic'
    BY <1>1, TypeKept, Zenon
  <2>5. Told(c, "OPEN", FALSE)
    BY Zenon DEF conn_failed
  <2>6. spout' \in Seq(Answers) /\ Len(spout') <= SpoutLen /\ answers' \in [Conns -> Nat]
    BY <1>1, <2>5, ToldType, Zenon
  <2>7. TypeApp'
    BY <1>1, <1>8, <2>6, Zenon DEF TypeApp
  <2> QED  BY <1>5, <2>1, <2>3, <2>4, <2>7, TypePartsNext, Zenon
<1>10. /\ Range(cc') \subseteq Range(cc) \cup {c} /\ Range(cc) \subseteq Range(cc')
       /\ c \in Range(cc') => "add" \in faults'
       /\ IsInjective(cc')
  <2>1. IsInjective(cc) /\ cc \in Seq(Conns)
    BY <1>1, Zenon DEF TcpInv, OnceInv, Running, TypeLists
  <2>2. CASE cc' = cc
    BY <1>6, <2>1, <2>2
  <2>3. CASE cc' = <<c>> \o cc /\ "add" \in fs
    <3>1. Range(<<c>> \o cc) = Range(cc) \cup {c}
      BY <2>1, ConsRange
    <3>2. IsInjective(<<c>> \o cc)
      BY <2>1, <1>6, ConsInjective, Zenon
    <3> QED  BY <1>8, <2>3, <3>1, <3>2, Zenon
  <2> QED  BY <2>2, <2>3, Zenon
<1>11. OnceInv'
  BY <1>8, <1>10 DEF TcpInv, OnceInv, Resolved
<1>12. TupleInv'
  <2>1. \A d \in ht' : tc'[d].port = tc[d].port /\ tc'[d].peer = tc[d].peer
    BY <1>1, <1>5, <1>7, Zenon DEF TypeLists
  <2> QED  BY <1>7, <2>1, FrameTuple, Zenon DEF TcpInv
<1>13. tc'[c].status \in {"freed", "FAILED"} /\ tc'[c].timer = "off" /\ tc'[c].flow = 0
  BY <1>3, <1>5, <1>6, Zenon
<1>14. FlowInv'
  <2>1. \A d \in Conns : (Holds(d)' <=> Holds(d)) /\ (Holds(d) => tc'[d].flow = tc[d].flow)
    BY <1>5, <1>6, <1>13 DEF Holds, Accepted
  <2> QED  BY <2>1, FrameFlow, Zenon DEF TcpInv
<1>15. NoAbort'
  BY <1>7, Zenon DEF NoAbort
<1>16. Others(c)
  BY <1>5, <1>7, <1>10, Zenon DEF Others, Same
<1>17. ConnInv(c)'
  <2>1. PlaceInv(c)'
    BY <1>1, <1>6, <1>7, <1>13, Zenon DEF ConnInv, PlaceInv, Holds, Accepted
  <2>2. WakeInv(c)'
    BY <1>6, <1>13, Zenon DEF WakeInv, Resolving, Accepted
  <2>3. ListInv(c)'
    BY <1>8, <1>10, <1>13, Zenon DEF ListInv
  <2> QED  BY <2>1, <2>2, <2>3, Zenon DEF ConnInv
<1>18. \A d \in Conns : ConnInv(d)'
  BY <1>8, <1>16, <1>17, OneConn DEF TcpInv
<1> QED  BY <1>9, <1>11, <1>12, <1>14, <1>15, <1>18, Zenon DEF TcpInv

(* tcp_close, for an open connection.                                      *)
LEMMA ClosedStep ==
  ASSUME TcpInv, NEW c \in Conns, Running, tc[c].status = "OPEN", tcp_close(c),
         UNCHANGED <<arp, asyncq, ht, ports, wait, backlog, appConns, freeIds, sptx, table,
                     spout, answers, faults>>,
         packets' \in 0..MaxPackets,
         app' \in [Conns -> {"idle", "opening", "open", "closing", "done"}],
         \A d \in Conns : app'[d] = "idle" => app[d] = "idle"
  PROVE  TcpInv'
<1> DEFINE k == [tc[c] EXCEPT !.status = "CLOSED", !.timer = "closed"]
<1>1. TypeConn /\ TypeArp /\ TypeLists /\ TypeNic /\ TypeApp /\ ConnInv(c)
  BY TypeParts, Zenon DEF TcpInv
<1>2. tc[c] \in Structs /\ tc[c].timer \in {"off", "handshake", "closed"}
  BY <1>1, ConnFields, Zenon
<1>3. /\ k \in Structs /\ k.status = "CLOSED" /\ k.timer = "closed" /\ k.flow = tc[c].flow
      /\ k.port = tc[c].port /\ k.peer = tc[c].peer
  BY <1>2, Zenon DEF Structs, Statuses
<1>4. tc' = [tc EXCEPT ![c] = k]
  BY Zenon DEF tcp_close
<1> HIDE DEF k
<1>5. TypeConn' /\ tc'[c] = k /\ \A d \in Conns \ {c} : tc'[d] = tc[d]
  BY <1>1, <1>3, <1>4, UpdateConn, Zenon
<1>6. /\ c \in ht /\ c \notin Range(wait) /\ tc[c].flow # 0 /\ c \in Range(cc)
      /\ Holds(c) /\ c \notin Queued(asyncq) /\ tc[c].timer = "off"
      /\ \A p \in Peers : c \notin Resolving(p)
  BY <1>1, <1>2, Zenon DEF ConnInv, PlaceInv, WakeInv, ListInv, Holds, Accepted
<1>7. cc' = Unlink(cc, c) /\ aborted' = "ok"
  BY <1>6, Zenon DEF tcp_close
<1>8. cc' \in Seq(Conns) /\ Range(cc') = Range(cc) \ {c} /\ IsInjective(cc')
  <2>1. cc \in Seq(Conns) /\ IsInjective(cc)
    BY <1>1, Zenon DEF TcpInv, OnceInv, Running, TypeLists
  <2> QED  BY <1>6, <1>7, <2>1, UnlinkList, Zenon
<1>9. TypeOK'
  <2>1. TypeArp' /\ TypeNic'
    BY <1>1, TypeKept, Zenon
  <2>2. TypeLists'
    BY <1>1, <1>8, Zenon DEF TypeLists
  <2>3. TypeApp'
    BY <1>1, Zenon DEF TypeApp
  <2> QED  BY <1>5, <2>1, <2>2, <2>3, TypePartsNext, Zenon
<1>10. OnceInv'
  BY <1>8, Zenon DEF TcpInv, OnceInv, Resolved
<1>11. /\ tc'[c].status = "CLOSED" /\ tc'[c].timer = "closed" /\ tc'[c].flow = tc[c].flow
       /\ tc'[c].port = tc[c].port /\ tc'[c].peer = tc[c].peer
  BY <1>3, <1>5, Zenon
<1>12. TupleInv'
  <2>1. \A d \in ht' : tc'[d].port = tc[d].port /\ tc'[d].peer = tc[d].peer
    BY <1>1, <1>5, <1>11, Zenon DEF TypeLists
  <2> QED  BY <2>1, FrameTuple DEF TcpInv
<1>13. Holds(c)'
  BY <1>11, Zenon DEF Holds
<1>14. FlowInv'
  <2>1. \A d \in Conns : (Holds(d)' <=> Holds(d)) /\ (Holds(d) => tc'[d].flow = tc[d].flow)
    BY <1>5, <1>6, <1>11, <1>13, Zenon DEF Holds, Accepted
  <2> QED  BY <2>1, FrameFlow, Zenon DEF TcpInv
<1>15. NoAbort'
  BY <1>7, Zenon DEF NoAbort
<1>16. Others(c)
  BY <1>5, <1>8, Zenon DEF Others, Same
<1>17. ConnInv(c)'
  <2>1. PlaceInv(c)'
    BY <1>1, <1>6, <1>11, <1>13 DEF ConnInv, PlaceInv
  <2>2. WakeInv(c)'
    BY <1>6, <1>11, Zenon DEF WakeInv, Resolving, Accepted
  <2>3. ListInv(c)'
    BY <1>1, <1>8, <1>11 DEF ConnInv, ListInv, Registered
  <2> QED  BY <2>1, <2>2, <2>3, Zenon DEF ConnInv
<1>18. \A d \in Conns : ConnInv(d)'
  BY <1>16, <1>17, OneConn DEF TcpInv
<1> QED  BY <1>9, <1>10, <1>12, <1>14, <1>15, <1>18, Zenon DEF TcpInv

(* The facts about lists that the outcomes of listener_accept share.       *)
LEMMA RequestLists ==
  ASSUME NEW cs, NEW c, NEW w, RequestReady(cs, c, w)
  PROVE  /\ c \in Conns /\ c \in Range(w) /\ w \in Seq(Conns) /\ IsInjective(w)
         /\ Tail(w) \in Seq(Conns) /\ Range(Tail(w)) = Range(w) \ {c} /\ IsInjective(Tail(w))
<1>1. w \in Seq(Conns) /\ w # <<>> /\ c = Head(w) /\ IsInjective(w)
  BY Zenon DEF RequestReady
<1>2. /\ Head(w) \in Conns /\ Head(w) \in Range(w) /\ Tail(w) \in Seq(Conns)
      /\ Range(Tail(w)) = Range(w) \ {Head(w)} /\ IsInjective(Tail(w))
  BY <1>1, TailList
<1> QED  BY <1>1, <1>2, Zenon

LEMMA BacklogLists ==
  ASSUME NEW b, BacklogReady(b), b # <<>>
  PROVE  /\ Head(b) \in Peers /\ Head(b) \in Range(b)
         /\ Range(Tail(b)) = Range(b) \ {Head(b)} /\ BacklogReady(Tail(b))
<1>1. b \in Seq(Peers) /\ Len(b) <= BacklogLen /\ IsInjective(b) /\ Len(b) \in Nat
  BY DEF BacklogReady
<1>2. /\ Head(b) \in Peers /\ Head(b) \in Range(b) /\ Tail(b) \in Seq(Peers)
      /\ Range(Tail(b)) = Range(b) \ {Head(b)} /\ IsInjective(Tail(b))
      /\ Len(Tail(b)) = Len(b) - 1
  BY <1>1, TailList, Zenon
<1>3. Len(Tail(b)) <= BacklogLen
  BY <1>1, <1>2, TcpAssumption
<1> QED  BY <1>2, <1>3 DEF BacklogReady

(* cc_conn_init in listener_accept.                                        *)
LEMMA AcceptCc ==
  ASSUME TcpInv, Running, NEW c \in Conns, cc_conn_init(c)
  PROVE  /\ cc' \in Seq(Conns) /\ Range(cc') = Range(cc) \cup {c}
         /\ c \notin Range(cc) => IsInjective(cc') /\ aborted' = "ok"
         /\ c \in Range(cc) => aborted' = "cc_conn_init"
<1>1. cc \in Seq(Conns) /\ IsInjective(cc) /\ cc' = <<c>> \o cc
  BY TypeParts, Zenon DEF TcpInv, OnceInv, Running, TypeLists, cc_conn_init
<1>2. <<c>> \o cc \in Seq(Conns)
  BY <1>1, ConsAt, Zenon
<1>3. Range(<<c>> \o cc) = Range(cc) \cup {c}
  BY <1>1, ConsRange
<1>4. c \notin Range(cc) => IsInjective(<<c>> \o cc)
  BY <1>1, ConsInjective
<1> QED  BY <1>1, <1>2, <1>3, <1>4, Zenon DEF cc_conn_init

(* listener_accept registers the connection with the NIC.                  *)
LEMMA AcceptServed ==
  ASSUME TcpInv, Running, NEW cs, NEW c, NEW w, NEW b, AcceptReady(cs, c, w, b), AcceptFrame,
         NEW fs \in SUBSET {"spout_full"}, faults' = faults \cup fs,
         backlog' = Tail(b), wait' = Tail(w), ht' = ht \cup {c}, cc_conn_init(c),
         asyncq' = Append(asyncq, [conn |-> c, ok |-> TRUE]),
         NEW f \in freeIds, Added(f, <<ListenPort, Head(b)>>),
         tc' = [cs EXCEPT ![c] = [cs[c] EXCEPT !.status = "REG_SYNACK", !.port = ListenPort,
                                               !.peer = Head(b), !.flow = f]]
  PROVE  TcpInv'
<1> DEFINE k == [cs[c] EXCEPT !.status = "REG_SYNACK", !.port = ListenPort,
                              !.peer = Head(b), !.flow = f]
<1>1. TypeConn /\ TypeArp /\ TypeLists /\ TypeNic /\ TypeApp
  BY TypeParts, Zenon DEF TcpInv
<1>2. /\ c \in Conns /\ c \in Range(w) /\ Head(b) \in Peers /\ Head(b) \in Range(b)
      /\ Tail(w) \in Seq(Conns) /\ Range(Tail(w)) = Range(w) \ {c} /\ IsInjective(Tail(w))
      /\ Tail(b) \in Seq(Peers) /\ Range(Tail(b)) = Range(b) \ {Head(b)}
      /\ IsInjective(Tail(b)) /\ Len(Tail(b)) <= BacklogLen
  BY RequestLists, BacklogLists DEF AcceptReady, BacklogReady
<1>3. /\ cc' \in Seq(Conns) /\ Range(cc') = Range(cc) \cup {c}
      /\ c \notin Range(cc) => IsInjective(cc') /\ aborted' = "ok"
      /\ c \in Range(cc) => aborted' = "cc_conn_init"
  BY <1>2, AcceptCc, Zenon
<1>4. cs \in [Conns -> Structs] /\ cs[c] \in Structs /\ f \in FlowIds
  BY <1>1, <1>2, Zenon DEF AcceptReady, RequestReady, BacklogReady, TypeNic
<1>5. /\ k \in Structs /\ k.status = "REG_SYNACK" /\ k.timer = cs[c].timer /\ k.flow = f
      /\ k.port = ListenPort /\ k.peer = Head(b)
  BY <1>2, <1>4, Zenon DEF Structs, Statuses
<1> HIDE DEF k
<1>6. TypeConn' /\ tc'[c] = k /\ \A d \in Conns \ {c} : tc'[d] = cs[d]
  BY <1>2, <1>4, <1>5 DEF TypeConn, k
<1>7. \A d \in Conns \ {c} : tc'[d] = tc[d]
  BY <1>6, Zenon DEF AcceptReady, RequestReady, BacklogReady
<1>8. /\ asyncq' \in Seq(Entries) /\ Queued(asyncq') = Queued(asyncq) \cup {c}
      /\ Once(asyncq')
  <2>1. asyncq \in Seq(Entries) /\ Once(asyncq) /\ c \notin Queued(asyncq)
    BY <1>1, Zenon DEF TypeArp, TcpInv, OnceInv, AcceptReady, RequestReady, BacklogReady
  <2> QED  BY <1>2, <2>1, AppendQueue, Zenon
<1>9. TypeOK'
  <2>1. TypeArp'
    BY <1>1, <1>8, Zenon DEF TypeArp, AcceptFrame
  <2>2. TypeLists'
    BY <1>1, <1>2, <1>3, Zenon DEF TypeLists, AcceptFrame
  <2>3. <<ListenPort, Head(b)>> \in Tuples
    BY <1>2, Zenon DEF Tuples
  <2>4. TypeNic'
    BY <1>1, <2>3, AddedType, Zenon DEF AcceptFrame
  <2>5. TypeApp'
    BY <1>1, Zenon DEF TypeApp, AcceptFrame, Faults
  <2> QED  BY <1>6, <2>1, <2>2, <2>4, <2>5, TypePartsNext, Zenon
<1>10. OnceInv'
  BY <1>2, <1>3, <1>8, Zenon DEF TcpInv, OnceInv, Resolved, AcceptFrame
<1>11. /\ tc'[c].status = "REG_SYNACK" /\ tc'[c].timer = "off" /\ tc'[c].flow = f
       /\ tc'[c].port = ListenPort /\ tc'[c].peer = Head(b) /\ f # 0
  BY <1>4, <1>5, <1>6, TcpAssumption, Zenon DEF AcceptReady, RequestReady, BacklogReady
<1>12. TupleInv'
  <2>1. /\ \A d \in ht : tc[d].port = ListenPort => tc[d].peer \notin Range(b)
        /\ \A d \in ht : tc'[d] = tc[d]
    BY <1>1, <1>7, Zenon DEF AcceptReady, RequestReady, BacklogReady, TypeLists
  <2>2. /\ c \notin ht
        /\ \A x, y \in ht : x # y /\ tc[x].port = tc[y].port =>
             tc[x].port = ListenPort /\ tc[x].peer # tc[y].peer
    BY Zenon DEF TcpInv, TupleInv, AcceptReady, RequestReady, BacklogReady
  <2>3. \A x, y \in ht' : x # y /\ tc'[x].port = tc'[y].port =>
          tc'[x].port = ListenPort /\ tc'[x].peer # tc'[y].peer
    <3> SUFFICES ASSUME NEW x \in ht', NEW y \in ht', x # y, tc'[x].port = tc'[y].port
                 PROVE  tc'[x].port = ListenPort /\ tc'[x].peer # tc'[y].peer
      OBVIOUS
    <3>1. CASE x = c
      BY <1>2, <1>11, <2>1, <3>1
    <3>2. CASE y = c
      <4>1. x \in ht /\ tc'[x] = tc[x] /\ tc'[y].port = ListenPort /\ tc'[y].peer = Head(b)
        BY <1>11, <2>1, <3>2, Zenon
      <4>2. tc[x].peer \notin Range(b)
        BY <2>1, <4>1, Zenon
      <4> QED  BY <1>2, <4>1, <4>2, Zenon
    <3>3. CASE x \in ht /\ y \in ht
      BY <2>1, <2>2, <3>3
    <3> QED  BY <3>1, <3>2, <3>3, Zenon
  <2>4. \A x \in ht' : tc'[x].port = ListenPort => tc'[x].peer \notin Range(backlog')
    BY <1>2, <1>11, <2>1, Zenon
  <2> QED  BY <2>3, <2>4, Zenon DEF TupleInv
<1>13. \A d \in Conns \ {c} : d \in Range(wait') <=> d \in Range(wait)
  BY <1>2, Zenon DEF AcceptReady, RequestReady, BacklogReady
<1>14. c \notin Range(wait') /\ Holds(c)' /\ Accepted(c)'
  BY <1>2, <1>11, Zenon DEF Holds, Accepted
<1>15. FlowInv'
  <2>1. \A d \in Conns \ {c} : (Holds(d)' <=> Holds(d)) /\ tc'[d].flow = tc[d].flow
    BY <1>7, <1>13, Zenon DEF Holds, Accepted
  <2>2. freeIds' = freeIds \ {f} /\ ~Holds(c)
    BY DEF Added, AcceptReady, RequestReady, BacklogReady
  <2> QED  BY <1>2, <1>11, <1>14, <2>1, <2>2, FlowTaken, Zenon DEF TcpInv
<1>16. NoAbort'
  BY <1>3, Zenon DEF NoAbort, AcceptReady, RequestReady, BacklogReady
<1>17. Others(c)
  BY <1>3, <1>7, <1>8, <1>13, Zenon DEF Others, Same, AcceptReady, RequestReady, AcceptFrame
<1>18. ConnInv(c)'
  <2>1. PlaceInv(c)'
    BY <1>2, <1>11, <1>14, Zenon DEF PlaceInv, AcceptReady, RequestReady
  <2>2. WakeInv(c)'
    BY <1>8, <1>11, <1>14, Zenon DEF WakeInv, Resolving, AcceptReady, RequestReady, AcceptFrame
  <2>3. ListInv(c)'
    BY <1>3, <1>11, <1>14, Zenon DEF ListInv, AcceptReady, RequestReady, AcceptFrame
  <2> QED  BY <2>1, <2>2, <2>3, Zenon DEF ConnInv
<1>19. \A d \in Conns : ConnInv(d)'
  BY <1>2, <1>17, <1>18, OneConn, Zenon DEF TcpInv
<1> QED  BY <1>9, <1>10, <1>12, <1>15, <1>16, <1>19, Zenon DEF TcpInv

(* listener_accept finds no flow id or no room in the queue to the NIC:    *)
(* congestion control lists the connection, and the request still waits.   *)
LEMMA AcceptNotAdded ==
  ASSUME TcpInv, Running, NEW cs, NEW c, NEW w, NEW b, AcceptReady(cs, c, w, b), AcceptFrame,
         NEW fs \in SUBSET {"spout_full"}, faults' = faults \cup fs \cup {"add"},
         backlog' = Tail(b), wait' = w, cc_conn_init(c),
         UNCHANGED <<ht, asyncq, freeIds, sptx>>,
         tc' = [cs EXCEPT ![c] = [cs[c] EXCEPT !.status = "REG_SYNACK", !.port = ListenPort,
                                               !.peer = Head(b)]]
  PROVE  TcpInv'
<1> DEFINE k == [cs[c] EXCEPT !.status = "REG_SYNACK", !.port = ListenPort,
                              !.peer = Head(b)]
<1>1. TypeConn /\ TypeArp /\ TypeLists /\ TypeNic /\ TypeApp
  BY TypeParts, Zenon DEF TcpInv
<1>2. /\ c \in Conns /\ c \in Range(w) /\ Head(b) \in Peers
      /\ Tail(b) \in Seq(Peers) /\ Range(Tail(b)) = Range(b) \ {Head(b)}
      /\ IsInjective(Tail(b)) /\ Len(Tail(b)) <= BacklogLen
      /\ w \in Seq(Conns) /\ IsInjective(w)
  BY RequestLists, BacklogLists, Zenon DEF AcceptReady, BacklogReady
<1>3. /\ cc' \in Seq(Conns) /\ Range(cc') = Range(cc) \cup {c}
      /\ c \notin Range(cc) => IsInjective(cc') /\ aborted' = "ok"
      /\ c \in Range(cc) => aborted' = "cc_conn_init"
  BY <1>2, AcceptCc, Zenon
<1>4. cs \in [Conns -> Structs] /\ cs[c] \in Structs
  BY <1>2, Zenon DEF AcceptReady, RequestReady, BacklogReady
<1>5. k \in Structs /\ k.status = "REG_SYNACK" /\ k.timer = cs[c].timer /\ k.flow = cs[c].flow
  BY <1>2, <1>4, Zenon DEF Structs, Statuses
<1> HIDE DEF k
<1>6. TypeConn' /\ tc'[c] = k /\ \A d \in Conns \ {c} : tc'[d] = cs[d]
  BY <1>2, <1>4, <1>5 DEF TypeConn, k
<1>7. \A d \in Conns \ {c} : tc'[d] = tc[d]
  BY <1>6, Zenon DEF AcceptReady, RequestReady, BacklogReady
<1>8. TypeOK'
  <2>1. TypeArp'
    BY <1>1, Zenon DEF TypeArp, AcceptFrame
  <2>2. TypeLists'
    BY <1>1, <1>2, <1>3 DEF TypeLists, AcceptFrame
  <2>3. TypeNic'
    BY <1>1, Zenon DEF TypeNic, AcceptFrame
  <2>4. TypeApp'
    BY <1>1, Zenon DEF TypeApp, AcceptFrame, Faults
  <2> QED  BY <1>6, <2>1, <2>2, <2>3, <2>4, TypePartsNext, Zenon
<1>9. OnceInv'
  BY <1>2, <1>3, Zenon DEF TcpInv, OnceInv, Resolved, AcceptFrame
<1>10. tc'[c].status = "REG_SYNACK" /\ tc'[c].timer = "off" /\ tc'[c].flow = 0
  BY <1>5, <1>6, Zenon DEF AcceptReady, RequestReady, BacklogReady
<1>11. TupleInv'
  <2>1. /\ \A d \in ht : tc[d].port = ListenPort => tc[d].peer \notin Range(b)
        /\ \A d \in ht : tc'[d] = tc[d]
    BY <1>1, <1>7 DEF AcceptReady, RequestReady, BacklogReady, TypeLists
  <2>2. \A x, y \in ht : x # y /\ tc[x].port = tc[y].port =>
          tc[x].port = ListenPort /\ tc[x].peer # tc[y].peer
    BY Zenon DEF TcpInv, TupleInv
  <2>3. \A x, y \in ht' : x # y /\ tc'[x].port = tc'[y].port =>
          tc'[x].port = ListenPort /\ tc'[x].peer # tc'[y].peer
    <3> SUFFICES ASSUME NEW x \in ht', NEW y \in ht', x # y, tc'[x].port = tc'[y].port
                 PROVE  tc'[x].port = ListenPort /\ tc'[x].peer # tc'[y].peer
      OBVIOUS
    <3>1. x \in ht /\ y \in ht /\ tc'[x] = tc[x] /\ tc'[y] = tc[y]
      BY <2>1, Zenon
    <3> QED  BY <2>2, <3>1, Zenon
  <2>4. \A x \in ht' : tc'[x].port = ListenPort => tc'[x].peer \notin Range(backlog')
    BY <1>2, <2>1, Zenon
  <2> QED  BY <2>3, <2>4, Zenon DEF TupleInv
<1>12. \A d \in Conns \ {c} : d \in Range(wait') <=> d \in Range(wait)
  BY <1>2, Zenon DEF AcceptReady, RequestReady, BacklogReady
<1>13. c \in Range(wait') /\ ~Holds(c)' /\ ~Accepted(c)'
  BY <1>2, <1>10, Zenon DEF Holds, Accepted
<1>14. FlowInv'
  <2>1. \A d \in Conns \ {c} : (Holds(d)' <=> Holds(d)) /\ tc'[d].flow = tc[d].flow
    BY <1>7, <1>12, Zenon DEF Holds, Accepted
  <2>2. ~Holds(c)
    BY DEF AcceptReady, RequestReady, BacklogReady
  <2>3. \A d \in Conns : (Holds(d)' <=> Holds(d)) /\ (Holds(d) => tc'[d].flow = tc[d].flow)
    BY <1>13, <2>1, <2>2, Zenon
  <2> QED  BY <2>3, FrameFlow, Zenon DEF TcpInv
<1>15. NoAbort'
  BY <1>3, Zenon DEF NoAbort
<1>16. Others(c)
  BY <1>3, <1>7, <1>12, Zenon DEF Others, Same, AcceptReady, RequestReady, AcceptFrame
<1>17. ConnInv(c)'
  <2>1. PlaceInv(c)'
    BY <1>2, <1>10, <1>13 DEF PlaceInv, AcceptReady, RequestReady
  <2>2. WakeInv(c)'
    BY <1>10, <1>13, Zenon DEF WakeInv, Resolving, AcceptReady, RequestReady, AcceptFrame
  <2>3. ListInv(c)'
    BY <1>3, <1>10, Zenon DEF ListInv, AcceptReady, RequestReady, AcceptFrame
  <2> QED  BY <2>1, <2>2, <2>3, Zenon DEF ConnInv
<1>18. \A d \in Conns : ConnInv(d)'
  BY <1>2, <1>16, <1>17, OneConn DEF TcpInv
<1> QED  BY <1>8, <1>9, <1>11, <1>14, <1>15, <1>18, Zenon DEF TcpInv

(* The request waits: there is no SYN, or listener_accept drops that of a  *)
(* peer without timestamps.                                                *)
LEMMA AcceptWaits ==
  ASSUME TcpInv, Running, NEW cs, NEW c, NEW w, RequestReady(cs, c, w), AcceptFrame,
         NEW fs \in SUBSET {"spout_full"}, faults' = faults \cup fs,
         BacklogReady(backlog'), wait' = w, tc' = cs,
         UNCHANGED <<ht, cc, asyncq, freeIds, sptx, aborted>>
  PROVE  TcpInv'
<1>1. TypeConn /\ TypeArp /\ TypeLists /\ TypeNic /\ TypeApp
  BY TypeParts, Zenon DEF TcpInv
<1>2. /\ c \in Conns /\ c \in Range(w) /\ w \in Seq(Conns) /\ IsInjective(w)
      /\ backlog' \in Seq(Peers) /\ Len(backlog') <= BacklogLen /\ IsInjective(backlog')
  BY RequestLists, Zenon DEF BacklogReady
<1>3. TypeConn' /\ \A d \in Conns \ {c} : tc'[d] = tc[d]
  BY Zenon DEF RequestReady, TypeConn
<1>4. TypeOK'
  <2>1. TypeArp'
    BY <1>1, Zenon DEF TypeArp, AcceptFrame
  <2>2. TypeLists'
    BY <1>1, <1>2, Zenon DEF TypeLists, AcceptFrame
  <2>3. TypeNic'
    BY <1>1, Zenon DEF TypeNic, AcceptFrame
  <2>4. TypeApp'
    BY <1>1, Zenon DEF TypeApp, AcceptFrame, Faults
  <2> QED  BY <1>3, <2>1, <2>2, <2>3, <2>4, TypePartsNext, Zenon
<1>5. OnceInv'
  BY <1>2, Zenon DEF TcpInv, OnceInv, Resolved, AcceptFrame
<1>6. /\ tc'[c].status \in {"SYN_WAIT", "REG_SYNACK"} /\ tc'[c].timer = "off"
      /\ tc'[c].flow = 0
  BY Zenon DEF RequestReady
<1>7. TupleInv'
  <2>1. /\ \A d \in ht : tc[d].port = ListenPort => tc[d].peer \notin Range(backlog')
        /\ \A d \in ht : tc'[d] = tc[d]
    BY <1>1, <1>3, Zenon DEF RequestReady, BacklogReady, TypeLists
  <2>2. \A x, y \in ht : x # y /\ tc[x].port = tc[y].port =>
          tc[x].port = ListenPort /\ tc[x].peer # tc[y].peer
    BY Zenon DEF TcpInv, TupleInv
  <2> QED  BY <1>2, <2>1, <2>2 DEF TupleInv
<1>8. \A d \in Conns \ {c} : d \in Range(wait') <=> d \in Range(wait)
  BY <1>2, Zenon DEF RequestReady
<1>9. c \in Range(wait') /\ ~Holds(c)' /\ ~Accepted(c)'
  BY <1>2, <1>6, Zenon DEF Holds, Accepted
<1>10. FlowInv'
  <2>1. \A d \in Conns \ {c} : (Holds(d)' <=> Holds(d)) /\ tc'[d].flow = tc[d].flow
    BY <1>3, <1>8, Zenon DEF Holds, Accepted
  <2>2. ~Holds(c)
    BY Zenon DEF RequestReady
  <2>3. \A d \in Conns : (Holds(d)' <=> Holds(d)) /\ (Holds(d) => tc'[d].flow = tc[d].flow)
    BY <1>9, <2>1, <2>2
  <2> QED  BY <2>3, FrameFlow, Zenon DEF TcpInv
<1>11. NoAbort'
  BY Zenon DEF NoAbort, Running
<1>12. Others(c)
  BY <1>3, <1>8 DEF Others, Same, RequestReady, AcceptFrame
<1>13. ConnInv(c)'
  <2>1. PlaceInv(c)'
    BY <1>2, <1>6, <1>9, Zenon DEF PlaceInv, RequestReady
  <2>2. WakeInv(c)'
    BY <1>6, <1>9, Zenon DEF WakeInv, Resolving, RequestReady, AcceptFrame
  <2>3. ListInv(c)'
    BY <1>2, <1>6, Zenon DEF ListInv, RequestReady, AcceptFrame, Registered
  <2> QED  BY <2>1, <2>2, <2>3, Zenon DEF ConnInv
<1>14. \A d \in Conns : ConnInv(d)'
  BY <1>2, <1>12, <1>13, OneConn DEF TcpInv
<1> QED  BY <1>4, <1>5, <1>7, <1>10, <1>11, <1>14 DEF TcpInv

(* listener_accept keeps the invariant.                                    *)
LEMMA AcceptStep ==
  ASSUME TcpInv, Running, NEW cs, NEW w, NEW b, AcceptReady(cs, Head(w), w, b), AcceptFrame,
         NEW fs \in SUBSET {"spout_full"}, listener_accept(cs, w, b, fs)
  PROVE  TcpInv'
<1> DEFINE c == Head(w)
<1>1. CASE \E f \in freeIds :
             /\ tc' = [cs EXCEPT ![c] = [cs[c] EXCEPT !.status = "REG_SYNACK",
                                           !.port = ListenPort, !.peer = Head(b), !.flow = f]]
             /\ Added(f, <<ListenPort, Head(b)>>) /\ cc_conn_init(c) /\ wait' = Tail(w)
             /\ ht' = ht \cup {c} /\ asyncq' = Append(asyncq, [conn |-> c, ok |-> TRUE])
             /\ faults' = faults \cup fs /\ backlog' = Tail(b)
  BY <1>1, AcceptServed, Zenon
<1>2. CASE /\ tc' = [cs EXCEPT ![c] = [cs[c] EXCEPT !.status = "REG_SYNACK",
                                         !.port = ListenPort, !.peer = Head(b)]]
           /\ cc_conn_init(c) /\ wait' = w /\ faults' = faults \cup fs \cup {"add"}
           /\ NotAdded /\ UNCHANGED <<ht, asyncq>> /\ backlog' = Tail(b)
  BY <1>2, AcceptNotAdded, Zenon DEF NotAdded
<1>3. CASE /\ tc' = cs /\ wait' = w /\ faults' = faults \cup fs /\ backlog' = Tail(b)
           /\ NotAdded /\ UNCHANGED <<cc, ht, asyncq, aborted>>
  <2>1. RequestReady(cs, c, w) /\ BacklogReady(backlog')
    BY <1>3, BacklogLists DEF AcceptReady
  <2> QED  BY <1>3, <2>1, AcceptWaits, Zenon DEF NotAdded
<1> QED  BY <1>1, <1>2, <1>3, Zenon DEF listener_accept

-----------------------------------------------------------------------------
(* The steps.                                                              *)

(* arp_request: c waits for p unless p is known.                           *)
LEMMA ArpAsked ==
  ASSUME TcpInv, NEW c \in Conns, NEW p \in Peers, \A r \in Peers : c \notin Resolving(r),
         arp_request(c, p)
  PROVE  /\ arp' \in [Peers -> ArpEntries]
         /\ \A r \in Peers : /\ IsInjective(arp'[r].compl)
                             /\ arp'[r].status = "ready" => arp'[r].compl = <<>>
         /\ \A r \in Peers : Range(arp'[r].compl) =
              IF r = p /\ ~Resolved(p) THEN Resolving(r) \cup {c} ELSE Resolving(r)
<1>1. arp \in [Peers -> ArpEntries]
  BY TypeParts, Zenon DEF TcpInv, TypeArp
<1>2. \A r \in Peers : IsInjective(arp[r].compl) /\ (Resolved(r) => arp[r].compl = <<>>)
  BY Zenon DEF TcpInv, OnceInv
<1>3. CASE Resolved(p)
  BY <1>1, <1>2, <1>3, Zenon DEF arp_request, Resolved, Resolving
<1>4. CASE ~Resolved(p)
  <2> DEFINE l == arp[p].compl
             e == [status |-> "pending", compl |-> <<c>> \o l, tries |-> arp[p].tries]
  <2>1. l \in Seq(Conns) /\ arp[p].tries \in 0..ArpTries
    BY <1>1, Zenon DEF ArpEntries
  <2>2. <<c>> \o l \in Seq(Conns)
    BY <2>1, ConsAt, Zenon
  <2>3. Range(<<c>> \o l) = Range(l) \cup {c}
    BY <2>1, ConsRange
  <2>4. IsInjective(l) /\ c \notin Range(l)
    BY <1>2, Zenon DEF Resolving
  <2>5. IsInjective(<<c>> \o l)
    BY <2>1, <2>4, ConsInjective, Zenon
  <2>6. e \in ArpEntries
    BY <2>1, <2>2, Zenon DEF ArpEntries
  <2>7. arp' = [arp EXCEPT ![p] = e]
    BY <1>4, Zenon DEF arp_request
  <2>8. e.compl = <<c>> \o l /\ e.status = "pending"
    BY Zenon
  <2> HIDE DEF e
  <2>9. /\ arp' \in [Peers -> ArpEntries] /\ arp'[p] = e
        /\ \A r \in Peers \ {p} : arp'[r] = arp[r]
    BY <1>1, <2>6, <2>7
  <2>10. \A r \in Peers : /\ IsInjective(arp'[r].compl)
                          /\ arp'[r].status = "ready" => arp'[r].compl = <<>>
    BY <1>2, <2>5, <2>8, <2>9, Zenon DEF Resolved
  <2>11. \A r \in Peers : Range(arp'[r].compl) =
              IF r = p /\ ~Resolved(p) THEN Resolving(r) \cup {c} ELSE Resolving(r)
    BY <1>4, <2>3, <2>8, <2>9, Zenon DEF Resolving
  <2> QED  BY <2>9, <2>10, <2>11, Zenon
<1> QED  BY <1>3, <1>4, Zenon

(* A connection whose request has not been made is nowhere.                *)
LEMMA IdleConn ==
  ASSUME TcpInv, NEW c \in Conns, app[c] = "idle"
  PROVE  /\ tc[c].status = "none" /\ c \notin ht /\ c \notin Range(wait)
         /\ c \notin Queued(asyncq) /\ c \notin Range(cc) /\ ~Holds(c)
         /\ \A r \in Peers : c \notin Resolving(r)
         /\ faults \cap {"dangling", "spout_full"} = {} => c \notin Range(appConns)
<1>1. ConnInv(c)
  BY Zenon DEF TcpInv
<1>2. tc[c].status = "none" /\ c \notin ht /\ c \notin Range(wait) /\ ~Holds(c)
  BY <1>1, Zenon DEF ConnInv, PlaceInv, Holds, Accepted
<1>3. c \notin Queued(asyncq) /\ \A r \in Peers : c \notin Resolving(r)
  BY <1>1, <1>2, Zenon DEF ConnInv, WakeInv, Accepted
<1>4. /\ c \notin Range(cc)
      /\ faults \cap {"dangling", "spout_full"} = {} => c \notin Range(appConns)
  BY <1>1, <1>2 DEF ConnInv, ListInv, Registered
<1> QED  BY <1>2, <1>3, <1>4

(* A request that gets its answer at once, or an answer that is taken: no  *)
(* connection moves.                                                       *)
LEMMA OnlyAppMoves ==
  ASSUME TcpInv, TypeApp', TypeNic', UNCHANGED <<freeIds, faults>>,
         \A d \in Conns : app'[d] = "idle" => app[d] = "idle",
         UNCHANGED <<arpVars, tc, ht, ports, wait, backlog, cc, appConns>>,
         Running, NoAbort'
  PROVE  TcpInv'
<1>1. TypeConn /\ TypeArp /\ TypeLists /\ TypeNic /\ TypeApp
  BY TypeParts, Zenon DEF TcpInv
<1>2. TypeConn' /\ TypeArp' /\ TypeLists'
  BY <1>1, TypeKept, Zenon DEF arpVars
<1>3. TypeOK'
  BY <1>2, TypePartsNext, Zenon
<1>4. OnceInv'
  <2>1. /\ IsInjective(wait') /\ IsInjective(backlog') /\ Once(asyncq')
        /\ \A p \in Peers : /\ IsInjective(arp'[p].compl)
                            /\ arp'[p].status = "ready" => arp'[p].compl = <<>>
    BY Zenon DEF TcpInv, OnceInv, Resolved, arpVars
  <2>2. /\ aborted' # "cc_conn_init" => IsInjective(cc')
        /\ faults' \cap {"dangling", "spout_full"} = {} => IsInjective(appConns')
    BY Zenon DEF TcpInv, OnceInv, Running
  <2> QED  BY <2>1, <2>2, Zenon DEF OnceInv, Resolved
<1>5. TupleInv'
  BY DEF TcpInv, TupleInv
<1>6. FlowInv'
  BY DEF TcpInv, FlowInv, Holds, Accepted
<1>7. \A d \in Conns : Same(d)
  BY Zenon DEF Same, arpVars
<1>8. \A d \in Conns : ConnInv(d)'
  BY <1>7, NoConnMoves DEF TcpInv
<1> QED  BY <1>3, <1>4, <1>5, <1>6, <1>8, Zenon DEF TcpInv

(* The application's request changes only what it waits for.               *)
LEMMA AppAsks ==
  ASSUME TypeApp, NEW c \in Conns, NEW v \in {"opening", "closing"},
         app' = [app EXCEPT ![c] = v]
  PROVE  /\ app' \in [Conns -> {"idle", "opening", "open", "closing", "done"}]
         /\ app'[c] # "idle" /\ \A d \in Conns : app'[d] = "idle" => app[d] = "idle"
BY Zenon DEF TypeApp

(* tcp_open, once it has a port.                                           *)
LEMMA OpenedStep ==
  ASSUME TcpInv, Running, NEW c \in Conns, NEW p \in Peers, NEW q \in FreePorts,
         app[c] = "idle", app' = [app EXCEPT ![c] = "opening"], tcp_open(c, p, q),
         appConns' = <<c>> \o appConns, Untold,
         UNCHANGED <<asyncq, wait, backlog, cc, freeIds, sptx, table, packets, faults, aborted>>
  PROVE  TcpInv'
<1> DEFINE k == [NoConn EXCEPT !.port = q, !.peer = p, !.status = "ARP_PENDING"]
           n == IF Resolved(p) THEN conn_arp_done(k) ELSE k
<1>1. TypeConn /\ TypeArp /\ TypeLists /\ TypeNic /\ TypeApp
  BY TypeParts, Zenon DEF TcpInv
<1>2. /\ tc[c].status = "none" /\ c \notin ht /\ c \notin Range(wait)
      /\ c \notin Queued(asyncq) /\ c \notin Range(cc) /\ ~Holds(c)
      /\ \A r \in Peers : c \notin Resolving(r)
      /\ faults \cap {"dangling", "spout_full"} = {} => c \notin Range(appConns)
  BY IdleConn, Zenon
<1>3. q \in EphPorts /\ q \notin ports /\ q # ListenPort
  BY TcpAssumption, Zenon DEF FreePorts
<1>4. /\ n \in Structs /\ n.port = q /\ n.peer = p /\ n.flow = 0
      /\ Resolved(p) => n.status = "SYN_SENT" /\ n.timer = "handshake"
      /\ ~Resolved(p) => n.status = "ARP_PENDING" /\ n.timer = "off"
  <2>1. NoConn \in Structs /\ NoConn.timer = "off" /\ NoConn.flow = 0
    BY NoConnType, Zenon
  <2>2. /\ k \in Structs /\ k.port = q /\ k.peer = p /\ k.flow = 0
        /\ k.status = "ARP_PENDING" /\ k.timer = "off"
    BY <1>3, <2>1, Zenon DEF Structs, Statuses
  <2> HIDE DEF k
  <2>3. 0 \in 0..Retries
    BY TcpAssumption
  <2>4. CASE Resolved(p)
    BY <2>2, <2>3, <2>4, Zenon DEF Structs, Statuses, conn_arp_done
  <2>5. CASE ~Resolved(p)
    BY <2>2, <2>5
  <2> QED  BY <2>4, <2>5, Zenon
<1>5. tc' = [tc EXCEPT ![c] = n] /\ ht' = ht \cup {c} /\ ports' = ports \cup {q}
  BY Zenon DEF tcp_open
<1>6. /\ arp' \in [Peers -> ArpEntries]
      /\ \A r \in Peers : /\ IsInjective(arp'[r].compl)
                          /\ arp'[r].status = "ready" => arp'[r].compl = <<>>
      /\ \A r \in Peers : Range(arp'[r].compl) =
           IF r = p /\ ~Resolved(p) THEN Resolving(r) \cup {c} ELSE Resolving(r)
  <2>1. arp_request(c, p)
    BY Zenon DEF tcp_open
  <2> QED  BY <1>2, <2>1, ArpAsked, Zenon
<1> HIDE DEF n
<1>7. TypeConn' /\ tc'[c] = n /\ \A d \in Conns \ {c} : tc'[d] = tc[d]
  BY <1>1, <1>4, <1>5, UpdateConn, Zenon
<1>8. /\ appConns' \in Seq(Conns) /\ Range(appConns') = Range(appConns) \cup {c}
      /\ faults \cap {"dangling", "spout_full"} = {} => IsInjective(appConns')
  <2>1. appConns \in Seq(Conns)
    BY <1>1, Zenon DEF TypeLists
  <2>2. <<c>> \o appConns \in Seq(Conns)
    BY <2>1, ConsAt, Zenon
  <2>3. Range(<<c>> \o appConns) = Range(appConns) \cup {c}
    BY <2>1, ConsRange
  <2>4. ASSUME faults \cap {"dangling", "spout_full"} = {}
        PROVE  IsInjective(<<c>> \o appConns)
    <3>1. IsInjective(appConns) /\ c \notin Range(appConns)
      BY <1>2, <2>4, Zenon DEF TcpInv, OnceInv
    <3> QED  BY <2>1, <3>1, ConsInjective, Zenon
  <2> QED  BY <2>2, <2>3, <2>4, Zenon
<1>9. /\ app' \in [Conns -> {"idle", "opening", "open", "closing", "done"}]
      /\ app'[c] # "idle" /\ \A d \in Conns : app'[d] = "idle" => app[d] = "idle"
  BY <1>1, AppAsks, Zenon
<1>10. TypeOK'
  <2>1. TypeArp'
    BY <1>1, <1>6, Zenon DEF TypeArp
  <2>2. TypeLists'
    BY <1>1, <1>3, <1>5, <1>8, Zenon DEF TypeLists
  <2>3. TypeNic'
    BY <1>1, TypeKept, Zenon
  <2>4. spout' \in Seq(Answers) /\ Len(spout') <= SpoutLen /\ answers' \in [Conns -> Nat]
    BY <1>1, UntoldType, Zenon
  <2>5. TypeApp'
    BY <1>1, <1>9, <2>4, Zenon DEF TypeApp
  <2> QED  BY <1>7, <2>1, <2>2, <2>3, <2>5, TypePartsNext, Zenon
<1>11. OnceInv'
  <2>1. IsInjective(wait') /\ IsInjective(backlog') /\ Once(asyncq')
    BY DEF TcpInv, OnceInv
  <2>2. /\ aborted' # "cc_conn_init" => IsInjective(cc')
        /\ faults' \cap {"dangling", "spout_full"} = {} => IsInjective(appConns')
    BY <1>8, Zenon DEF TcpInv, OnceInv
  <2> QED  BY <1>6, <2>1, <2>2, Zenon DEF OnceInv, Resolved
<1>12. /\ tc'[c].port = q /\ tc'[c].peer = p /\ tc'[c].flow = 0
       /\ Resolved(p) => tc'[c].status = "SYN_SENT" /\ tc'[c].timer = "handshake"
       /\ ~Resolved(p) => tc'[c].status = "ARP_PENDING" /\ tc'[c].timer = "off"
  BY <1>4, <1>7, Zenon
<1>13. TupleInv'
  <2>1. \A d \in ht : tc'[d] = tc[d] /\ tc[d].port # q
    <3> SUFFICES ASSUME NEW d \in ht  PROVE tc'[d] = tc[d] /\ tc[d].port # q
      BY Zenon
    <3>1. d \in Conns /\ ConnInv(d) /\ d # c
      BY <1>1, <1>2, Zenon DEF TypeLists, TcpInv
    <3> QED  BY <1>3, <1>7, <3>1, Zenon DEF ConnInv, PlaceInv
  <2>2. \A x, y \in ht : x # y /\ tc[x].port = tc[y].port =>
          tc[x].port = ListenPort /\ tc[x].peer # tc[y].peer
    BY Zenon DEF TcpInv, TupleInv
  <2>3. ASSUME NEW x \in ht', NEW y \in ht', x # y, tc'[x].port = tc'[y].port
        PROVE  tc'[x].port = ListenPort /\ tc'[x].peer # tc'[y].peer
    <3>1. CASE x = c \/ y = c
      BY <1>5, <1>12, <2>1, <2>3, <3>1, Zenon
    <3>2. CASE x \in ht /\ y \in ht
      BY <2>1, <2>2, <2>3, <3>2
    <3> QED  BY <1>5, <3>1, <3>2, Zenon
  <2>4. \A x \in ht' : tc'[x].port = ListenPort => tc'[x].peer \notin Range(backlog')
    BY <1>3, <1>5, <1>12, <2>1, Zenon DEF TcpInv, TupleInv
  <2> QED  BY <2>3, <2>4, Zenon DEF TupleInv
<1>14. FlowInv'
  <2>1. \A d \in Conns : (Holds(d)' <=> Holds(d)) /\ (Holds(d) => tc'[d].flow = tc[d].flow)
    BY <1>2, <1>7, <1>12, Zenon DEF Holds, Accepted
  <2> QED  BY <2>1, FrameFlow, Zenon DEF TcpInv
<1>15. NoAbort'
  BY Zenon DEF NoAbort, TcpInv
<1>16. Others(c)
  BY <1>5, <1>6, <1>7, <1>8, <1>9 DEF Others, Same, Resolving
<1>17. ConnInv(c)'
  <2>1. PlaceInv(c)'
    BY <1>2, <1>5, <1>9, <1>12 DEF PlaceInv, Holds, Accepted
  <2>2. WakeInv(c)'
    BY <1>2, <1>6, <1>12, Zenon DEF WakeInv, Resolving, Accepted
  <2>3. ListInv(c)'
    BY <1>2, <1>8, <1>12, Zenon DEF ListInv, Registered
  <2> QED  BY <2>1, <2>2, <2>3, Zenon DEF ConnInv
<1>18. \A d \in Conns : ConnInv(d)'
  BY <1>16, <1>17, OneConn DEF TcpInv
<1> QED  BY <1>10, <1>11, <1>13, <1>14, <1>15, <1>18, Zenon DEF TcpInv
-----------------------------------------------------------------------------
(* The steps that put them together.                                       *)

(* spin_accept_conn keeps the invariant.                                   *)
LEMMA AcceptInd ==
  ASSUME TcpInv, NEW c \in Conns, Accept(c)
  PROVE  TcpInv'
<1> DEFINE w  == <<c>> \o wait
           k  == [NoConn EXCEPT !.status = "SYN_WAIT", !.port = ListenPort]
           cs == [tc EXCEPT ![c] = k]
<1>1. /\ Running /\ app[c] = "idle" /\ app' = [app EXCEPT ![c] = "opening"]
      /\ UNCHANGED <<arp, ports, appConns, table, packets>>
  BY Zenon DEF Accept
<1>2. TypeConn /\ TypeArp /\ TypeLists /\ TypeNic /\ TypeApp
  BY TypeParts DEF TcpInv
<1>3. /\ app' \in [Conns -> {"idle", "opening", "open", "closing", "done"}]
      /\ app'[c] # "idle" /\ \A d \in Conns : app'[d] = "idle" => app[d] = "idle"
  BY <1>1, <1>2, AppAsks, Zenon
<1>4. CASE /\ IF backlog # <<>> THEN listener_accept(cs, w, backlog, {})
              ELSE /\ wait' = w /\ tc' = cs
                   /\ UNCHANGED <<backlog, cc, ht, asyncq, freeIds, sptx, faults, aborted>>
           /\ Untold
  <2>1. /\ tc[c].status = "none" /\ c \notin ht /\ c \notin Range(wait)
        /\ c \notin Queued(asyncq) /\ c \notin Range(cc) /\ ~Holds(c)
        /\ \A r \in Peers : c \notin Resolving(r)
        /\ faults \cap {"dangling", "spout_full"} = {} => c \notin Range(appConns)
    BY <1>1, IdleConn
  <2>2. k \in Structs /\ k.status = "SYN_WAIT" /\ k.timer = "off" /\ k.flow = 0
    <3>1. NoConn \in Structs /\ NoConn.timer = "off" /\ NoConn.flow = 0
      BY NoConnType, Zenon
    <3> QED  BY <3>1, Zenon DEF Structs, Statuses
  <2> HIDE DEF k
  <2>3. cs \in [Conns -> Structs] /\ cs[c] = k /\ \A d \in Conns \ {c} : cs[d] = tc[d]
    BY <1>2, <2>2, Zenon DEF TypeConn
  <2>4. wait \in Seq(Conns) /\ IsInjective(wait)
    BY <1>2, Zenon DEF TypeLists, TcpInv, OnceInv
  <2>5. w \in Seq(Conns) /\ w # <<>> /\ Head(w) = c
    <3>1. w \in Seq(Conns) /\ Len(w) = Len(wait) + 1 /\ w[1] = c /\ Len(wait) \in Nat
      BY <2>4, ConsAt
    <3> HIDE DEF w
    <3> QED  BY <3>1
  <2>6. Range(w) = Range(wait) \cup {c}
    BY <2>4, ConsRange
  <2>7. IsInjective(w)
    BY <2>1, <2>4, ConsInjective, Zenon
  <2> HIDE DEF w, cs
  <2>8. RequestReady(cs, c, w)
    BY <1>3, <2>1, <2>2, <2>3, <2>5, <2>6, <2>7, Zenon DEF RequestReady
  <2>9. BacklogReady(backlog)
    BY <1>2, Zenon DEF BacklogReady, TypeLists, TcpInv, OnceInv, TupleInv
  <2>10. AcceptFrame
    <3>1. spout' \in Seq(Answers) /\ Len(spout') <= SpoutLen /\ answers' \in [Conns -> Nat]
      BY <1>2, <1>4, UntoldType, Zenon
    <3> QED  BY <1>1, <1>2, <1>3, <3>1, Zenon DEF AcceptFrame, TypeApp
  <2>11. CASE backlog # <<>>
    <3>1. AcceptReady(cs, Head(w), w, backlog) /\ listener_accept(cs, w, backlog, {})
      BY <1>4, <2>5, <2>8, <2>9, <2>11, Zenon DEF AcceptReady
    <3> QED  BY <1>1, <2>10, <3>1, AcceptStep, Zenon
  <2>12. CASE backlog = <<>>
    <3>1. /\ wait' = w /\ tc' = cs
          /\ UNCHANGED <<backlog, cc, ht, asyncq, freeIds, sptx, faults, aborted>>
      BY <1>4, <2>12, Zenon
    <3>2. BacklogReady(backlog') /\ faults' = faults \cup {}
      BY <2>9, <3>1, Zenon
    <3> QED  BY <1>1, <2>8, <2>10, <3>1, <3>2, AcceptWaits, Zenon
  <2> QED  BY <2>11, <2>12, Zenon
<1>5. CASE /\ Told(c, "OPEN", FALSE)
           /\ UNCHANGED <<tc, wait, backlog, cc, ht, asyncq, freeIds, sptx, faults, aborted>>
  <2>1. spout' \in Seq(Answers) /\ Len(spout') <= SpoutLen /\ answers' \in [Conns -> Nat]
    BY <1>2, <1>5, ToldType, Zenon
  <2>2. TypeApp'
    BY <1>1, <1>2, <1>3, <1>5, <2>1, Zenon DEF TypeApp
  <2>3. TypeNic'
    BY <1>1, <1>2, <1>5, TypeKept, Zenon
  <2>4. NoAbort'
    BY <1>5, Zenon DEF TcpInv, NoAbort
  <2> QED  BY <1>1, <1>3, <1>5, <2>2, <2>3, <2>4, OnlyAppMoves, Zenon DEF arpVars
<1> QED  BY <1>4, <1>5, Zenon DEF Accept

(* The application's list holds no freed connection unless there was a     *)
(* fault, so a walk of it is safe.                                         *)
LEMMA WalkLive ==
  ASSUME TcpInv, faults \cap {"dangling", "spout_full"} = {}
  PROVE  \A j \in 1..Len(appConns) : tc[appConns[j]].status # "freed"
<1> SUFFICES ASSUME NEW j \in 1..Len(appConns)  PROVE tc[appConns[j]].status # "freed"
  BY Zenon
<1>1. appConns \in Seq(Conns)
  BY TypeParts DEF TcpInv, TypeLists
<1>2. appConns[j] \in Conns /\ appConns[j] \in Range(appConns)
  BY <1>1 DEF Range
<1>3. ListInv(appConns[j])
  BY <1>2 DEF TcpInv, ConnInv
<1> QED  BY <1>2, <1>3, Zenon DEF ListInv, Registered

(* And it finds what has not been freed.                                   *)
LEMMA WalkFinds ==
  ASSUME TcpInv, NEW c \in Conns, tc[c].status = "CLOSED",
         faults \cap {"dangling", "spout_full"} = {}
  PROVE  Walk(c) = {"yes"}
<1>1. c \in Range(appConns)
  BY Zenon DEF TcpInv, ConnInv, ListInv, Registered
<1>2. \A j \in 1..Len(appConns) : tc[appConns[j]].status # "freed"
  BY WalkLive
<1> QED  BY <1>1, <1>2, Zenon DEF Walk

(* spin_conn_close keeps the invariant.                                    *)
LEMMA CloseInd ==
  ASSUME TcpInv, NEW c \in Conns, Close(c)
  PROVE  TcpInv'
<1>1. /\ Running /\ app' = [app EXCEPT ![c] = "closing"]
      /\ UNCHANGED <<arp, asyncq, ht, ports, wait, backlog, appConns, freeIds, sptx, table,
                     packets, faults>>
  BY Zenon DEF Close, arpVars
<1>2. TypeConn /\ TypeArp /\ TypeLists /\ TypeNic /\ TypeApp
  BY TypeParts, Zenon DEF TcpInv
<1>3. /\ app' \in [Conns -> {"idle", "opening", "open", "closing", "done"}]
      /\ \A d \in Conns : app'[d] = "idle" => app[d] = "idle"
  BY <1>1, <1>2, AppAsks, Zenon
<1>4. TypeNic'
  BY <1>1, <1>2, TypeKept, Zenon
<1>5. CASE "lost" \in Walk(c) /\ aborted' = "spin_conn_close" /\ Untold /\ UNCHANGED <<tc, cc>>
  <2>1. faults \cap {"dangling", "spout_full"} # {}
    <3> SUFFICES ASSUME faults \cap {"dangling", "spout_full"} = {}  PROVE FALSE
      BY Zenon
    <3>1. \A j \in 1..Len(appConns) : tc[appConns[j]].status # "freed"
      BY WalkLive, Zenon
    <3> QED  BY <1>5, <3>1, Zenon DEF Walk
  <2>2. NoAbort'
    BY <1>1, <1>5, <2>1, Zenon DEF NoAbort
  <2>3. TypeApp'
    BY <1>1, <1>2, <1>3, <1>5, Zenon DEF TypeApp, Untold
  <2> QED  BY <1>1, <1>3, <1>4, <1>5, <2>2, <2>3, OnlyAppMoves DEF arpVars
<1>6. CASE tc[c].status = "OPEN" /\ tcp_close(c) /\ Untold
  <2>1. packets' \in 0..MaxPackets
    BY <1>1, <1>2, Zenon DEF TypeApp
  <2> QED  BY <1>1, <1>3, <1>6, <2>1, ClosedStep, Zenon DEF Untold
<1>7. CASE Told(c, "CLOSE", FALSE) /\ UNCHANGED <<tc, cc, aborted>>
  <2>1. spout' \in Seq(Answers) /\ Len(spout') <= SpoutLen /\ answers' \in [Conns -> Nat]
    BY <1>2, <1>7, ToldType, Zenon
  <2>2. TypeApp'
    BY <1>1, <1>2, <1>3, <2>1, Zenon DEF TypeApp
  <2>3. NoAbort'
    BY <1>1, <1>7, Zenon DEF TcpInv, NoAbort
  <2> QED  BY <1>1, <1>3, <1>4, <1>7, <2>2, <2>3, OnlyAppMoves, Zenon DEF arpVars
<1> QED  BY <1>5, <1>6, <1>7, Zenon DEF Close

(* conn_syn_sent_packet, when the SYN-ACK opens the connection.            *)
LEMMA EstablishedStep ==
  ASSUME TcpInv, Running, NEW c \in Conns, tc[c].status = "SYN_SENT", NEW f \in freeIds,
         cc' = <<c>> \o cc, tc' = [tc EXCEPT ![c] = Established(@, f)], Added(f, Tuple(c)),
         Told(c, "OPEN", TRUE), faults' = faults \cup Drop, packets' \in 0..MaxPackets,
         UNCHANGED <<arp, asyncq, ht, aborted, ports, wait, backlog, appConns, table, app>>
  PROVE  TcpInv'
<1> DEFINE k == Established(tc[c], f)
<1>1. TypeConn /\ TypeArp /\ TypeLists /\ TypeNic /\ TypeApp /\ ConnInv(c)
  BY TypeParts, Zenon DEF TcpInv
<1>2. tc[c] \in Structs /\ f \in FlowIds /\ f # 0
  BY <1>1, ConnFields, TcpAssumption, Zenon DEF TypeNic
<1>3. /\ k \in Structs /\ k.status = "OPEN" /\ k.timer = "off" /\ k.flow = f
      /\ k.port = tc[c].port /\ k.peer = tc[c].peer
  BY <1>2, Zenon DEF Structs, Statuses, Established
<1> HIDE DEF k
<1>4. TypeConn' /\ tc'[c] = k /\ \A d \in Conns \ {c} : tc'[d] = tc[d]
  <2>1. tc' = [tc EXCEPT ![c] = k]
    BY Zenon DEF k
  <2> QED  BY <1>1, <1>3, <2>1, UpdateConn, Zenon
<1>5. /\ c \in ht /\ c \notin Range(wait) /\ c \notin Range(cc) /\ ~Holds(c)
      /\ c \notin Queued(asyncq) /\ \A p \in Peers : c \notin Resolving(p)
      /\ tc[c].peer \in Peers /\ tc[c].port \in {ListenPort} \cup ports /\ app[c] # "idle"
  BY <1>1, Zenon DEF ConnInv, PlaceInv, WakeInv, ListInv, Holds, Accepted
<1>6. cc' \in Seq(Conns) /\ Range(cc') = Range(cc) \cup {c} /\ IsInjective(cc')
  <2>1. cc \in Seq(Conns) /\ IsInjective(cc)
    BY <1>1, Zenon DEF TcpInv, OnceInv, Running, TypeLists
  <2>2. <<c>> \o cc \in Seq(Conns)
    BY <2>1, ConsAt, Zenon
  <2>3. Range(<<c>> \o cc) = Range(cc) \cup {c}
    BY <2>1, ConsRange
  <2>4. IsInjective(<<c>> \o cc)
    BY <1>5, <2>1, ConsInjective, Zenon
  <2> QED  BY <2>2, <2>3, <2>4, Zenon
<1>7. faults \subseteq faults' /\ faults' \subseteq Faults
  BY <1>1, Zenon DEF Drop, TypeApp, Faults
<1>8. TypeOK'
  <2>1. TypeArp'
    BY <1>1, TypeKept, Zenon
  <2>2. TypeLists'
    BY <1>1, <1>6, Zenon DEF TypeLists
  <2>3. Tuple(c) \in Tuples
    BY <1>1, <1>5, Zenon DEF Tuple, Tuples, TypeLists
  <2>4. TypeNic'
    BY <1>1, <2>3, AddedType, Zenon
  <2>5. spout' \in Seq(Answers) /\ Len(spout') <= SpoutLen /\ answers' \in [Conns -> Nat]
    BY <1>1, ToldType, Zenon
  <2>6. TypeApp'
    BY <1>1, <1>7, <2>5, Zenon DEF TypeApp
  <2> QED  BY <1>4, <2>1, <2>2, <2>4, <2>6, TypePartsNext, Zenon
<1>9. OnceInv'
  BY <1>6, <1>7, Zenon DEF TcpInv, OnceInv, Resolved
<1>10. /\ tc'[c].status = "OPEN" /\ tc'[c].timer = "off" /\ tc'[c].flow = f
       /\ tc'[c].port = tc[c].port /\ tc'[c].peer = tc[c].peer
  BY <1>3, <1>4, Zenon
<1>11. TupleInv'
  <2>1. \A d \in ht' : tc'[d].port = tc[d].port /\ tc'[d].peer = tc[d].peer
    BY <1>1, <1>4, <1>10, Zenon DEF TypeLists
  <2> QED  BY <2>1, FrameTuple, Zenon DEF TcpInv
<1>12. Holds(c)'
  BY <1>10, Zenon DEF Holds
<1>13. FlowInv'
  <2>1. \A d \in Conns \ {c} : (Holds(d)' <=> Holds(d)) /\ tc'[d].flow = tc[d].flow
    BY <1>4, Zenon DEF Holds, Accepted
  <2>2. freeIds' = freeIds \ {f}
    BY Zenon DEF Added
  <2> QED  BY <1>5, <1>10, <1>12, <2>1, <2>2, FlowTaken, Zenon DEF TcpInv
<1>14. NoAbort'
  BY Zenon DEF NoAbort, Running
<1>15. Others(c)
  BY <1>4, <1>6, Zenon DEF Others, Same
<1>16. ConnInv(c)'
  <2>1. PlaceInv(c)'
    BY <1>2, <1>5, <1>10, <1>12, Zenon DEF PlaceInv
  <2>2. WakeInv(c)'
    BY <1>5, <1>10, Zenon DEF WakeInv, Resolving, Accepted
  <2>3. ListInv(c)'
    BY <1>1, <1>6, <1>7, <1>10, Zenon DEF ConnInv, ListInv, Registered
  <2> QED  BY <2>1, <2>2, <2>3, Zenon DEF ConnInv
<1>17. \A d \in Conns : ConnInv(d)'
  BY <1>7, <1>15, <1>16, OneConn DEF TcpInv
<1> QED  BY <1>8, <1>9, <1>11, <1>13, <1>14, <1>17, Zenon DEF TcpInv

(* listener_packet, when no request waits: the SYN goes to the backlog.    *)
LEMMA BacklogStep ==
  ASSUME TcpInv, Running, BacklogReady(backlog'), faults' = faults \cup Drop,
         spout' \in Seq(Answers), Len(spout') <= SpoutLen, answers' \in [Conns -> Nat],
         packets' \in 0..MaxPackets,
         UNCHANGED <<arp, asyncq, tc, cc, ht, ports, wait, appConns, freeIds, sptx, table, app,
                     aborted>>
  PROVE  TcpInv'
<1>1. TypeConn /\ TypeArp /\ TypeLists /\ TypeNic /\ TypeApp
  BY TypeParts, Zenon DEF TcpInv
<1>2. faults \subseteq faults' /\ faults' \subseteq Faults
  BY <1>1, Zenon DEF Drop, TypeApp, Faults
<1>3. TypeOK'
  <2>1. TypeConn' /\ TypeArp' /\ TypeNic'
    BY <1>1, TypeKept, Zenon
  <2>2. TypeLists'
    BY <1>1, Zenon DEF TypeLists, BacklogReady
  <2>3. TypeApp'
    BY <1>1, <1>2, Zenon DEF TypeApp
  <2> QED  BY <2>1, <2>2, <2>3, TypePartsNext, Zenon
<1>4. OnceInv'
  BY <1>2, Zenon DEF TcpInv, OnceInv, Resolved, BacklogReady
<1>5. TupleInv'
  BY DEF TcpInv, TupleInv, BacklogReady
<1>6. FlowInv'
  BY DEF TcpInv, FlowInv, Holds, Accepted
<1>7. NoAbort'
  BY Zenon DEF NoAbort, Running
<1>8. \A d \in Conns : Same(d)
  BY Zenon DEF Same
<1>9. \A d \in Conns : ConnInv(d)'
  BY <1>2, <1>8, NoConnMoves DEF TcpInv
<1> QED  BY <1>3, <1>4, <1>5, <1>6, <1>7, <1>9, Zenon DEF TcpInv

(* listener_packet keeps the invariant.                                    *)
LEMMA ListenerInd ==
  ASSUME TcpInv, Running, NEW p \in Peers, NEW flags, listener_packet(p, flags),
         \A c \in ht : Tuple(c) # <<ListenPort, p>>, packets' \in 0..MaxPackets,
         UNCHANGED <<arp, ports, appConns, table, app>>
  PROVE  TcpInv'
<1> DEFINE b == Append(backlog, p)
<1>1. TypeConn /\ TypeArp /\ TypeLists /\ TypeNic /\ TypeApp
  BY TypeParts, Zenon DEF TcpInv
<1>2. p \notin Range(backlog) /\ Len(backlog) < BacklogLen /\ Told(NULL, "NEWCONN", TRUE)
  BY Zenon DEF listener_packet
<1>3. spout' \in Seq(Answers) /\ Len(spout') <= SpoutLen /\ answers' \in [Conns -> Nat]
  BY <1>1, <1>2, ToldType, Zenon
<1>4. BacklogReady(b) /\ b # <<>>
  <2>1. backlog \in Seq(Peers) /\ IsInjective(backlog)
    BY <1>1, Zenon DEF TypeLists, TcpInv, OnceInv
  <2>2. /\ b \in Seq(Peers) /\ Len(b) = Len(backlog) + 1 /\ b # <<>> /\ IsInjective(b)
        /\ Range(b) = Range(backlog) \cup {p}
    BY <1>2, <2>1, AppendList
  <2>3. Len(b) <= BacklogLen
    <3>1. Len(backlog) \in Nat
      BY <2>1
    <3> QED  BY <1>2, <2>2, <3>1, TcpAssumption
  <2>4. \A d \in ht : tc[d].port = ListenPort => tc[d].peer \notin Range(b)
    BY <2>2, Zenon DEF TcpInv, TupleInv, Tuple
  <2> QED  BY <2>2, <2>3, <2>4, Zenon DEF BacklogReady
<1> HIDE DEF b
<1>5. CASE wait # <<>> /\ listener_accept(tc, wait, b, Drop)
  <2> DEFINE c == Head(wait)
  <2>1. wait \in Seq(Conns) /\ IsInjective(wait)
    BY <1>1, Zenon DEF TypeLists, TcpInv, OnceInv
  <2>2. c \in Conns /\ c \in Range(wait)
    BY <1>5, <2>1, TailList, Zenon
  <2> HIDE DEF c
  <2>3. ConnInv(c) /\ tc[c].timer \in {"off", "handshake", "closed"}
    BY <1>1, <2>2, ConnFields, Zenon DEF TcpInv
  <2>4. /\ tc[c].status \in {"SYN_WAIT", "REG_SYNACK"} /\ tc[c].timer = "off" /\ ~Holds(c)
        /\ tc[c].flow = 0 /\ c \notin ht /\ app[c] # "idle" /\ ~Accepted(c)
    BY <2>2, <2>3, Zenon DEF ConnInv, PlaceInv, Holds, Accepted
  <2>5. c \notin Queued(asyncq) /\ \A r \in Peers : c \notin Resolving(r)
    BY <2>3, <2>4, Zenon DEF ConnInv, WakeInv
  <2>6. /\ tc[c].status = "REG_SYNACK" <=> c \in Range(cc)
        /\ tc[c].status = "REG_SYNACK" => "add" \in faults
        /\ faults \cap {"dangling", "spout_full"} = {} => c \notin Range(appConns)
    BY <2>2, <2>3, <2>4, Zenon DEF ConnInv, ListInv, Registered
  <2>7. RequestReady(tc, c, wait)
    BY <1>1, <1>5, <2>1, <2>4, <2>5, <2>6, Zenon DEF RequestReady, TypeConn, c
  <2>8. AcceptReady(tc, Head(wait), wait, b)
    BY <1>4, <2>7, Zenon DEF AcceptReady, c
  <2>9. AcceptFrame
    BY <1>1, <1>3, Zenon DEF AcceptFrame, TypeApp
  <2>10. Drop \in SUBSET {"spout_full"}
    BY Zenon DEF Drop
  <2> QED  BY <1>5, <2>8, <2>9, <2>10, AcceptStep, Zenon
<1>6. CASE /\ backlog' = b /\ faults' = faults \cup Drop
           /\ NotAdded /\ UNCHANGED <<tc, cc, ht, asyncq, wait, aborted>>
  BY <1>3, <1>4, <1>6, BacklogStep, Zenon DEF NotAdded
<1> QED  BY <1>5, <1>6 DEF listener_packet, b

(* conn_packet keeps the invariant.                                        *)
LEMMA ConnPacketInd ==
  ASSUME TcpInv, Running, NEW c \in ht, NEW flags, conn_packet(c, flags),
         packets' \in 0..MaxPackets,
         UNCHANGED <<arp, ports, appConns, table, app>>
  PROVE  TcpInv'
<1>1. TypeConn /\ TypeArp /\ TypeLists /\ TypeNic /\ TypeApp
  BY TypeParts, Zenon DEF TcpInv
<1>2. c \in Conns /\ UNCHANGED <<asyncq, wait, backlog>>
  BY <1>1, Zenon DEF TypeLists, conn_packet
<1>3. ConnInv(c)
  BY <1>2, Zenon DEF TcpInv
<1>4. CASE tc[c].status = "SYN_SENT" /\ conn_syn_sent_packet(c, flags)
  <2>1. /\ asyncq' \in Seq(Entries) /\ Once(asyncq')
        /\ Queued(asyncq') = Queued(asyncq) \ {c}
    <3>1. c \notin Queued(asyncq)
      BY <1>3, <1>4, Zenon DEF ConnInv, WakeInv, Accepted
    <3> QED  BY <1>1, <1>2, <3>1, Zenon DEF TypeArp, TcpInv, OnceInv
  <2>2. CASE /\ cc' = <<c>> \o cc
             /\ \E f \in freeIds : /\ tc' = [tc EXCEPT ![c] = Established(@, f)]
                                   /\ Added(f, Tuple(c))
             /\ Told(c, "OPEN", TRUE) /\ faults' = faults \cup Drop
             /\ UNCHANGED <<ht, aborted>>
    BY <1>2, <1>4, <2>2, EstablishedStep, Zenon
  <2>3. CASE cc' = <<c>> \o cc /\ conn_failed(c, {"add"}) /\ NotAdded
    <3>1. {"add"} \in SUBSET Faults
      BY Zenon DEF Faults
    <3> QED  BY <1>2, <1>4, <2>1, <2>3, <3>1, FailedStep, Zenon DEF NotAdded
  <2>4. CASE conn_failed(c, {}) /\ NotAdded /\ UNCHANGED cc
    BY <1>2, <1>4, <2>1, <2>4, FailedStep, Zenon DEF NotAdded
  <2> QED  BY <1>4, <2>2, <2>3, <2>4, Zenon DEF conn_syn_sent_packet
<1>5. CASE /\ tc[c].status = "OPEN" /\ tcp_close(c)
           /\ Untold /\ NotAdded /\ UNCHANGED <<ht, faults>>
  <2>1. /\ app' \in [Conns -> {"idle", "opening", "open", "closing", "done"}]
        /\ \A d \in Conns : app'[d] = "idle" => app[d] = "idle"
    BY <1>1 DEF TypeApp
  <2> QED  BY <1>2, <1>5, <2>1, ClosedStep, Zenon DEF Untold, NotAdded
<1> QED  BY <1>4, <1>5, Zenon DEF conn_packet

(* tcp_packet keeps the invariant.                                         *)
LEMMA PacketInd ==
  ASSUME TcpInv, NEW p \in Peers, NEW port, NEW flags, Packet(p, port, flags)
  PROVE  TcpInv'
<1>1. /\ Running /\ UNCHANGED <<arp, ports, appConns, table, app>>
      /\ packets < MaxPackets /\ packets' = packets + 1
  BY Zenon DEF Packet
<1>2. packets' \in 0..MaxPackets
  <2>1. packets \in 0..MaxPackets
    BY TypeParts, Zenon DEF TcpInv, TypeApp
  <2> QED  BY <1>1, <2>1, TcpAssumption
<1>3. CASE \E c \in ht : conn_packet(c, flags)
  BY <1>1, <1>2, <1>3, ConnPacketInd, Zenon
<1>4. CASE /\ \A c \in ht : Tuple(c) # <<port, p>>
           /\ port = ListenPort /\ listener_packet(p, flags)
  BY <1>1, <1>2, <1>4, ListenerInd
<1> QED  BY <1>3, <1>4, Zenon DEF Packet

(* tcp_poll sends the SYN of a connection whose peer has been resolved.    *)
LEMMA ArpDoneStep ==
  ASSUME TcpInv, Running, NEW c \in Conns, tc[c].status = "ARP_PENDING",
         c \in Queued(asyncq), tc' = [tc EXCEPT ![c] = conn_arp_done(@)],
         asyncq' \in Seq(Entries), Once(asyncq'), Queued(asyncq') = Queued(asyncq) \ {c},
         UNCHANGED <<arp, ht, ports, wait, backlog, cc, appConns, freeIds, sptx, table, spout,
                     app, answers, packets, faults, aborted>>
  PROVE  TcpInv'
<1> DEFINE k == conn_arp_done(tc[c])
<1>1. TypeConn /\ TypeArp /\ TypeLists /\ TypeNic /\ TypeApp /\ ConnInv(c)
  BY TypeParts, Zenon DEF TcpInv
<1>2. tc[c] \in Structs /\ 0 \in 0..Retries
  BY <1>1, ConnFields, TcpAssumption
<1>3. /\ k \in Structs /\ k.status = "SYN_SENT" /\ k.timer = "handshake"
      /\ k.flow = tc[c].flow /\ k.port = tc[c].port /\ k.peer = tc[c].peer
  BY <1>2, Zenon DEF Structs, Statuses, conn_arp_done
<1> HIDE DEF k
<1>4. TypeConn' /\ tc'[c] = k /\ \A d \in Conns \ {c} : tc'[d] = tc[d]
  <2>1. tc' = [tc EXCEPT ![c] = k]
    BY Zenon DEF k
  <2> QED  BY <1>1, <1>3, <2>1, UpdateConn, Zenon
<1>5. /\ c \in ht /\ c \notin Range(wait) /\ c \notin Range(cc) /\ ~Holds(c)
      /\ \A p \in Peers : c \notin Resolving(p)
      /\ tc[c].flow = 0 /\ app[c] # "idle"
  BY <1>1, Zenon DEF ConnInv, PlaceInv, WakeInv, ListInv, Holds, Accepted
<1>6. TypeOK'
  <2>1. TypeArp'
    BY <1>1, Zenon DEF TypeArp
  <2>2. TypeLists' /\ TypeNic' /\ TypeApp'
    BY <1>1, TypeKept, Zenon
  <2> QED  BY <1>4, <2>1, <2>2, TypePartsNext, Zenon
<1>7. OnceInv'
  BY Zenon DEF TcpInv, OnceInv, Resolved
<1>8. /\ tc'[c].status = "SYN_SENT" /\ tc'[c].timer = "handshake" /\ tc'[c].flow = 0
      /\ tc'[c].port = tc[c].port /\ tc'[c].peer = tc[c].peer
  BY <1>3, <1>4, <1>5, Zenon
<1>9. TupleInv'
  <2>1. \A d \in ht' : tc'[d].port = tc[d].port /\ tc'[d].peer = tc[d].peer
    BY <1>1, <1>4, <1>8, Zenon DEF TypeLists
  <2> QED  BY <2>1, FrameTuple, Zenon DEF TcpInv
<1>10. FlowInv'
  <2>1. \A d \in Conns : (Holds(d)' <=> Holds(d)) /\ (Holds(d) => tc'[d].flow = tc[d].flow)
    BY <1>4, <1>5, <1>8, Zenon DEF Holds, Accepted
  <2> QED  BY <2>1, FrameFlow, Zenon DEF TcpInv
<1>11. NoAbort'
  BY Zenon DEF NoAbort, Running
<1>12. Others(c)
  BY <1>4 DEF Others, Same
<1>13. ConnInv(c)'
  <2>1. PlaceInv(c)'
    BY <1>1, <1>5, <1>8, Zenon DEF ConnInv, PlaceInv, Holds, Accepted
  <2>2. WakeInv(c)'
    BY <1>5, <1>8, Zenon DEF WakeInv, Resolving, Accepted
  <2>3. ListInv(c)'
    BY <1>1, <1>5, <1>8, Zenon DEF ConnInv, ListInv, Registered
  <2> QED  BY <2>1, <2>2, <2>3, Zenon DEF ConnInv
<1>14. \A d \in Conns : ConnInv(d)'
  BY <1>12, <1>13, OneConn DEF TcpInv
<1> QED  BY <1>6, <1>7, <1>9, <1>10, <1>11, <1>14, Zenon DEF TcpInv

(* tcp_poll announces an accepted connection.                              *)
LEMMA AnnouncedStep ==
  ASSUME TcpInv, Running, NEW c \in Conns, Accepted(c),
         tc' = [tc EXCEPT ![c].status = "OPEN"], Told(c, "OPEN", TRUE),
         appConns' = IF Room THEN <<c>> \o appConns ELSE appConns,
         faults' = faults \cup Drop,
         asyncq' \in Seq(Entries), Once(asyncq'), Queued(asyncq') = Queued(asyncq) \ {c},
         UNCHANGED <<arp, ht, ports, wait, backlog, cc, freeIds, sptx, table, app, packets,
                     aborted>>
  PROVE  TcpInv'
<1> DEFINE k == [tc[c] EXCEPT !.status = "OPEN"]
<1>1. TypeConn /\ TypeArp /\ TypeLists /\ TypeNic /\ TypeApp /\ ConnInv(c)
  BY TypeParts, Zenon DEF TcpInv
<1>2. tc[c] \in Structs /\ tc[c].timer \in {"off", "handshake", "closed"}
  BY <1>1, ConnFields, Zenon
<1>3. /\ k \in Structs /\ k.status = "OPEN" /\ k.timer = tc[c].timer
      /\ k.flow = tc[c].flow /\ k.port = tc[c].port /\ k.peer = tc[c].peer
  BY <1>2, Zenon DEF Structs, Statuses
<1> HIDE DEF k
<1>4. TypeConn' /\ tc'[c] = k /\ \A d \in Conns \ {c} : tc'[d] = tc[d]
  <2>1. tc' = [tc EXCEPT ![c] = k]
    BY Zenon DEF k
  <2> QED  BY <1>1, <1>3, <2>1, UpdateConn, Zenon
<1>5. /\ c \in ht /\ c \notin Range(wait) /\ c \in Range(cc) /\ Holds(c)
      /\ \A p \in Peers : c \notin Resolving(p)
      /\ tc[c].timer = "off" /\ tc[c].flow # 0 /\ app[c] # "idle"
      /\ faults \cap {"dangling", "spout_full"} = {} => c \notin Range(appConns)
  BY <1>1, <1>2, Zenon DEF ConnInv, PlaceInv, WakeInv, ListInv, Holds, Accepted
<1>6. /\ faults \subseteq faults' /\ faults' \subseteq Faults
      /\ ~Room => "spout_full" \in faults'
  BY <1>1, Zenon DEF Drop, TypeApp, Faults
<1>7. /\ appConns' \in Seq(Conns) /\ Range(appConns) \subseteq Range(appConns')
      /\ Range(appConns') \subseteq Range(appConns) \cup {c}
      /\ faults' \cap {"dangling", "spout_full"} = {} =>
           c \in Range(appConns') /\ IsInjective(appConns')
  <2>1. appConns \in Seq(Conns)
    BY <1>1, Zenon DEF TypeLists
  <2>2. CASE Room
    <3>1. <<c>> \o appConns \in Seq(Conns)
      BY <2>1, ConsAt, Zenon
    <3>2. Range(<<c>> \o appConns) = Range(appConns) \cup {c}
      BY <2>1, ConsRange
    <3>3. ASSUME faults \cap {"dangling", "spout_full"} = {}
          PROVE  IsInjective(<<c>> \o appConns)
      <4>1. IsInjective(appConns) /\ c \notin Range(appConns)
        BY <1>5, <3>3 DEF TcpInv, OnceInv
      <4> QED  BY <2>1, <4>1, ConsInjective, Zenon
    <3> QED  BY <1>6, <2>2, <3>1, <3>2, <3>3, Zenon
  <2>3. CASE ~Room
    BY <1>6, <2>1, <2>3
  <2> QED  BY <2>2, <2>3, Zenon
<1>8. TypeOK'
  <2>1. TypeArp'
    BY <1>1, Zenon DEF TypeArp
  <2>2. TypeLists'
    BY <1>1, <1>7, Zenon DEF TypeLists
  <2>3. TypeNic'
    BY <1>1, TypeKept, Zenon
  <2>4. spout' \in Seq(Answers) /\ Len(spout') <= SpoutLen /\ answers' \in [Conns -> Nat]
    BY <1>1, ToldType, Zenon
  <2>5. TypeApp'
    BY <1>1, <1>6, <2>4, Zenon DEF TypeApp
  <2> QED  BY <1>4, <2>1, <2>2, <2>3, <2>5, TypePartsNext
<1>9. OnceInv'
  BY <1>7, Zenon DEF TcpInv, OnceInv, Resolved
<1>10. /\ tc'[c].status = "OPEN" /\ tc'[c].timer = "off" /\ tc'[c].flow = tc[c].flow
       /\ tc'[c].port = tc[c].port /\ tc'[c].peer = tc[c].peer
  BY <1>3, <1>4, <1>5, Zenon
<1>11. TupleInv'
  <2>1. \A d \in ht' : tc'[d].port = tc[d].port /\ tc'[d].peer = tc[d].peer
    BY <1>1, <1>4, <1>10, Zenon DEF TypeLists
  <2> QED  BY <2>1, FrameTuple, Zenon DEF TcpInv
<1>12. Holds(c)'
  BY <1>10 DEF Holds
<1>13. FlowInv'
  <2>1. \A d \in Conns : (Holds(d)' <=> Holds(d)) /\ (Holds(d) => tc'[d].flow = tc[d].flow)
    BY <1>4, <1>5, <1>10, <1>12, Zenon DEF Holds, Accepted
  <2> QED  BY <2>1, FrameFlow, Zenon DEF TcpInv
<1>14. NoAbort'
  BY Zenon DEF NoAbort, Running
<1>15. Others(c)
  BY <1>4, <1>7, Zenon DEF Others, Same
<1>16. ConnInv(c)'
  <2>1. PlaceInv(c)'
    BY <1>1, <1>5, <1>10, <1>12, Zenon DEF ConnInv, PlaceInv
  <2>2. WakeInv(c)'
    BY <1>5, <1>10, Zenon DEF WakeInv, Resolving, Accepted
  <2>3. ListInv(c)'
    BY <1>5, <1>7, <1>10, Zenon DEF ListInv, Registered
  <2> QED  BY <2>1, <2>2, <2>3, Zenon DEF ConnInv
<1>17. \A d \in Conns : ConnInv(d)'
  BY <1>6, <1>15, <1>16, OneConn DEF TcpInv
<1> QED  BY <1>8, <1>9, <1>11, <1>13, <1>14, <1>17, Zenon DEF TcpInv

(* tcp_poll keeps the invariant.                                           *)
LEMMA PollInd ==
  ASSUME TcpInv, tcp_poll
  PROVE  TcpInv'
<1> DEFINE c == Head(asyncq).conn
<1>1. /\ Running /\ asyncq # <<>> /\ asyncq' = Tail(asyncq)
      /\ UNCHANGED <<arp, ports, wait, backlog, cc, freeIds, sptx, table, app, packets>>
  BY DEF tcp_poll
<1>2. TypeConn /\ TypeArp /\ TypeLists /\ TypeNic /\ TypeApp
  BY TypeParts, Zenon DEF TcpInv
<1>3. /\ Head(asyncq) \in Entries /\ c \in Queued(asyncq) /\ asyncq' \in Seq(Entries)
      /\ Queued(asyncq') = Queued(asyncq) \ {c} /\ Once(asyncq')
  <2>1. asyncq \in Seq(Entries) /\ Once(asyncq)
    BY <1>2 DEF TypeArp, TcpInv, OnceInv
  <2> QED  BY <1>1, <2>1, TailQueue, Zenon
<1>4. c \in Conns /\ Head(asyncq).ok \in BOOLEAN
  BY <1>3, Zenon DEF Entries
<1>5. tc[c].status = "ARP_PENDING" \/ Accepted(c)
  BY <1>3, <1>4, Zenon DEF TcpInv, ConnInv, WakeInv
<1>6. CASE tc[c].status = "ARP_PENDING" /\ Head(asyncq).ok
  <2>1. /\ tc' = [tc EXCEPT ![c] = conn_arp_done(@)]
        /\ UNCHANGED <<spout, answers, ht, appConns, faults, aborted>>
    BY <1>6, Zenon DEF tcp_poll, Untold
  <2> HIDE DEF c
  <2> QED  BY <1>1, <1>3, <1>4, <1>6, <2>1, ArpDoneStep, Zenon
<1>7. CASE tc[c].status = "ARP_PENDING" /\ ~Head(asyncq).ok
  <2>1. conn_failed(c, {}) /\ UNCHANGED appConns
    BY <1>7, Zenon DEF tcp_poll
  <2>2. packets' \in 0..MaxPackets
    BY <1>1, <1>2, Zenon DEF TypeApp
  <2> HIDE DEF c
  <2> QED  BY <1>1, <1>3, <1>4, <1>7, <2>1, <2>2, FailedStep, Zenon
<1>8. CASE Accepted(c)
  <2>1. /\ tc' = [tc EXCEPT ![c].status = "OPEN"] /\ Told(c, "OPEN", TRUE)
        /\ appConns' = IF Room THEN <<c>> \o appConns ELSE appConns
        /\ faults' = faults \cup Drop /\ UNCHANGED <<ht, aborted>>
    BY <1>8, Zenon DEF tcp_poll, Accepted
  <2> HIDE DEF c
  <2> QED  BY <1>1, <1>3, <1>4, <1>8, <2>1, AnnouncedStep, Zenon
<1> QED  BY <1>4, <1>5, <1>6, <1>7, <1>8, Zenon

(* tcp_timeout of type TO_TCP_HANDSHAKE keeps the invariant.               *)
LEMMA HandshakeInd ==
  ASSUME TcpInv, NEW c \in Conns, HandshakeTimeout(c)
  PROVE  TcpInv'
<1>1. /\ Running /\ tc[c].timer = "handshake"
      /\ UNCHANGED <<arp, asyncq, ports, wait, backlog, cc, appConns, freeIds, sptx, table, app,
                     packets>>
  BY Zenon DEF HandshakeTimeout, arpVars
<1>2. TypeConn /\ TypeArp /\ TypeLists /\ TypeNic /\ TypeApp /\ ConnInv(c)
  BY TypeParts, Zenon DEF TcpInv
<1>3. tc[c].status = "SYN_SENT"
  BY <1>1, <1>2, Zenon DEF ConnInv, PlaceInv
<1>4. CASE conn_failed(c, {})
  <2>1. c \notin Queued(asyncq)
    BY <1>2, <1>3, Zenon DEF ConnInv, WakeInv, Accepted
  <2>2. /\ asyncq' \in Seq(Entries) /\ Once(asyncq')
        /\ Queued(asyncq') = Queued(asyncq) \ {c}
    BY <1>1, <1>2, <2>1, Zenon DEF TypeArp, TcpInv, OnceInv
  <2>3. packets' \in 0..MaxPackets
    BY <1>1, <1>2, Zenon DEF TypeApp
  <2> QED  BY <1>1, <1>3, <1>4, <2>2, <2>3, FailedStep, Zenon
<1>5. CASE /\ ~GiveUp(c) /\ tc' = [tc EXCEPT ![c].attempts = @ + 1]
           /\ Untold /\ UNCHANGED <<ht, faults, aborted>>
  <2> DEFINE k == [tc[c] EXCEPT !.attempts = tc[c].attempts + 1]
  <2>1. tc[c] \in Structs /\ tc[c].attempts \in 0..Retries /\ tc[c].attempts # Retries
    BY <1>2, <1>5, ConnFields, Zenon DEF GiveUp
  <2>2. tc[c].attempts + 1 \in 0..Retries
    BY <2>1, TcpAssumption
  <2>3. /\ k \in Structs /\ k.status = tc[c].status /\ k.timer = tc[c].timer
        /\ k.flow = tc[c].flow /\ k.port = tc[c].port /\ k.peer = tc[c].peer
    BY <2>1, <2>2, Zenon DEF Structs
  <2>4. tc' = [tc EXCEPT ![c] = k]
    BY <1>5, Zenon
  <2> HIDE DEF k
  <2>5. TypeConn' /\ tc'[c] = k /\ \A d \in Conns \ {c} : tc'[d] = tc[d]
    BY <1>2, <2>3, <2>4, UpdateConn, Zenon
  <2>6. /\ tc'[c].status = tc[c].status /\ tc'[c].timer = tc[c].timer
        /\ tc'[c].flow = tc[c].flow /\ tc'[c].port = tc[c].port /\ tc'[c].peer = tc[c].peer
    BY <2>3, <2>5, Zenon
  <2>7. UNCHANGED <<spout, answers>>
    BY <1>5, Zenon DEF Untold
  <2>8. TypeOK'
    <3>1. TypeArp' /\ TypeLists' /\ TypeNic' /\ TypeApp'
      BY <1>1, <1>2, <1>5, <2>7, TypeKept, Zenon
    <3> QED  BY <2>5, <3>1, TypePartsNext, Zenon
  <2>9. OnceInv'
    BY <1>1, <1>5, Zenon DEF TcpInv, OnceInv, Resolved
  <2>10. TupleInv'
    <3>1. \A d \in ht' : tc'[d].port = tc[d].port /\ tc'[d].peer = tc[d].peer
      BY <1>2, <1>5, <2>5, <2>6, Zenon DEF TypeLists
    <3> QED  BY <1>1, <1>5, <3>1, FrameTuple, Zenon DEF TcpInv
  <2>11. FlowInv'
    <3>1. \A d \in Conns : (Holds(d)' <=> Holds(d)) /\ (Holds(d) => tc'[d].flow = tc[d].flow)
      BY <1>1, <2>5, <2>6, Zenon DEF Holds, Accepted
    <3> QED  BY <1>1, <3>1, FrameFlow, Zenon DEF TcpInv
  <2>12. NoAbort'
    BY <1>1, <1>5, Zenon DEF NoAbort, Running
  <2>13. Others(c)
    BY <1>1, <1>5, <2>5, Zenon DEF Others, Same
  <2>14. ConnInv(c)'
    <3>1. PlaceInv(c)'
      BY <1>1, <1>2, <1>5, <2>6, Zenon DEF ConnInv, PlaceInv, Holds, Accepted
    <3>2. WakeInv(c)'
      BY <1>1, <1>2, <1>3, <2>6, Zenon DEF ConnInv, WakeInv, Resolving, Accepted
    <3>3. ListInv(c)'
      BY <1>1, <1>2, <1>5, <2>6, Zenon DEF ConnInv, ListInv
    <3> QED  BY <3>1, <3>2, <3>3, Zenon DEF ConnInv
  <2>15. \A d \in Conns : ConnInv(d)'
    BY <1>5, <2>13, <2>14, OneConn DEF TcpInv
  <2> QED  BY <2>8, <2>9, <2>10, <2>11, <2>12, <2>15, Zenon DEF TcpInv
<1> QED  BY <1>3, <1>4, <1>5, Zenon DEF HandshakeTimeout

(* tcp_timeout of type TO_TCP_CLOSED keeps the invariant.                  *)
LEMMA CloseTimeoutInd ==
  ASSUME TcpInv, NEW c \in Conns, CloseTimeout(c)
  PROVE  TcpInv'
<1> DEFINE k == [tc[c] EXCEPT !.status = "freed", !.timer = "off"]
<1>1. /\ Running /\ tc[c].timer = "closed"
      /\ ports' = ports \ {tc[c].port} /\ ht' = ht \ {c}
      /\ freeIds' = freeIds \cup {tc[c].flow}
      /\ Told(c, "CLOSE", TRUE) /\ faults' = faults \cup Drop /\ appConns' = Unlisted(c)
      /\ UNCHANGED <<arp, asyncq, wait, backlog, cc, sptx, table, app, packets>>
  BY Zenon DEF CloseTimeout, arpVars
<1>2. TypeConn /\ TypeArp /\ TypeLists /\ TypeNic /\ TypeApp /\ ConnInv(c)
  BY TypeParts, Zenon DEF TcpInv
<1>3. tc[c].status = "CLOSED"
  BY <1>1, <1>2, Zenon DEF ConnInv, PlaceInv
<1>4. tc[c] \in Structs /\ tc[c].flow \in FlowIds \cup {0}
  BY <1>2, ConnFields, Zenon
<1>5. k \in Structs /\ k.status = "freed" /\ k.timer = "off"
  BY <1>4, Zenon DEF Structs, Statuses
<1>6. tc' = [tc EXCEPT ![c] = k]
  BY Zenon DEF CloseTimeout
<1> HIDE DEF k
<1>7. TypeConn' /\ tc'[c] = k /\ \A d \in Conns \ {c} : tc'[d] = tc[d]
  BY <1>2, <1>5, <1>6, UpdateConn, Zenon
<1>8. tc'[c].status = "freed" /\ tc'[c].timer = "off"
  BY <1>5, <1>7, Zenon
<1>9. /\ c \in ht /\ c \notin Range(wait) /\ c \notin Range(cc) /\ Holds(c)
      /\ c \notin Queued(asyncq) /\ \A p \in Peers : c \notin Resolving(p)
      /\ tc[c].flow # 0 /\ app[c] # "idle"
  BY <1>2, <1>3, Zenon DEF ConnInv, PlaceInv, WakeInv, ListInv, Holds, Accepted
<1>10. /\ faults \subseteq faults' /\ faults' \subseteq Faults
       /\ ~Room => "spout_full" \in faults'
       /\ Room => faults' = faults
  BY <1>1, <1>2 DEF Drop, TypeApp, Faults
<1>11. /\ appConns' \in Seq(Conns)
       /\ faults' \cap {"dangling", "spout_full"} = {} =>
            Range(appConns') = Range(appConns) \ {c} /\ IsInjective(appConns')
  <2>1. appConns \in Seq(Conns)
    BY <1>2, Zenon DEF TypeLists
  <2>2. CASE Room /\ c \in Range(appConns)
    <3>1. appConns' = Unlink(appConns, c)
      BY <1>1, <2>2, Zenon DEF Unlisted
    <3>2. /\ appConns' \in Seq(Conns)
          /\ IsInjective(appConns) => /\ Range(appConns') = Range(appConns) \ {c}
                                      /\ IsInjective(appConns')
      BY <2>1, <2>2, <3>1, UnlinkList, Zenon
    <3>3. faults' \cap {"dangling", "spout_full"} = {} => IsInjective(appConns)
      BY <1>10, Zenon DEF TcpInv, OnceInv
    <3> QED  BY <3>2, <3>3, Zenon
  <2>3. CASE ~(Room /\ c \in Range(appConns))
    <3>1. appConns' = appConns
      BY <1>1, <2>3, Zenon DEF Unlisted
    <3>2. ASSUME faults' \cap {"dangling", "spout_full"} = {}
          PROVE  FALSE
      <4>1. Room /\ faults \cap {"dangling", "spout_full"} = {}
        BY <1>10, <3>2, Zenon
      <4> QED  BY <1>2, <1>3, <2>3, <4>1, Zenon DEF ConnInv, ListInv, Registered
    <3> QED  BY <2>1, <3>1, <3>2, Zenon
  <2> QED  BY <2>2, <2>3, Zenon
<1>12. \/ aborted' = "ok"
       \/ aborted' = "appif_conn_closed" /\ faults' \cap {"dangling", "spout_full"} # {}
  <2>1. ~Room => aborted' \in {"ok"}
    BY <1>9, Zenon DEF CloseTimeout
  <2>2. CASE ~Room
    BY <2>1, <2>2, Zenon
  <2>3. CASE Room
    <3>1. PICK v \in Walk(c) : aborted' = IF v = "yes" THEN "ok" ELSE "appif_conn_closed"
      BY <1>9, <2>3, Zenon DEF CloseTimeout
    <3>2. CASE faults \cap {"dangling", "spout_full"} = {}
      <4>1. Walk(c) = {"yes"}
        BY <1>3, <3>2, WalkFinds, Zenon
      <4> QED  BY <3>1, <4>1, Zenon
    <3>3. CASE faults \cap {"dangling", "spout_full"} # {}
      <4>1. faults' \cap {"dangling", "spout_full"} # {}
        BY <1>10, <3>3, Zenon
      <4> QED  BY <3>1, <4>1, Zenon
    <3> QED  BY <3>2, <3>3, Zenon
  <2> QED  BY <2>2, <2>3, Zenon
<1>13. TypeOK'
  <2>1. TypeArp'
    BY <1>1, <1>2, TypeKept, Zenon
  <2>2. TypeLists'
    BY <1>1, <1>2, <1>11, Zenon DEF TypeLists
  <2>3. TypeNic'
    BY <1>1, <1>2, <1>4, <1>9, Zenon DEF TypeNic
  <2>4. spout' \in Seq(Answers) /\ Len(spout') <= SpoutLen /\ answers' \in [Conns -> Nat]
    BY <1>1, <1>2, ToldType, Zenon
  <2>5. TypeApp'
    BY <1>1, <1>2, <1>10, <2>4, Zenon DEF TypeApp
  <2> QED  BY <1>7, <2>1, <2>2, <2>3, <2>5, TypePartsNext, Zenon
<1>14. OnceInv'
  <2>1. IsInjective(cc)
    BY <1>1, Zenon DEF TcpInv, OnceInv, Running
  <2> QED  BY <1>1, <1>11, <2>1, Zenon DEF TcpInv, OnceInv, Resolved
<1>15. TupleInv'
  <2>1. \A d \in ht' : tc'[d].port = tc[d].port /\ tc'[d].peer = tc[d].peer
    BY <1>1, <1>2, <1>7 DEF TypeLists
  <2> QED  BY <1>1, <2>1, FrameTuple DEF TcpInv
<1>16. ~Holds(c)'
  BY <1>8, Zenon DEF Holds, Accepted
<1>17. FlowInv'
  <2>1. \A d \in Conns \ {c} : (Holds(d)' <=> Holds(d)) /\ tc'[d].flow = tc[d].flow
    BY <1>1, <1>7, Zenon DEF Holds, Accepted
  <2> QED  BY <1>1, <1>9, <1>16, <2>1, FlowReturned, Zenon DEF TcpInv
<1>18. NoAbort'
  BY <1>12, Zenon DEF NoAbort
<1>19. \A d \in Conns \ {c} : d \in ht /\ tc[d].port \in ports => tc[d].port \in ports'
  <2> SUFFICES ASSUME NEW d \in Conns \ {c}, d \in ht, tc[d].port \in ports
               PROVE  tc[d].port # tc[c].port
    BY <1>1, Zenon
  <2>1. tc[d].port # ListenPort
    BY <1>2, TcpAssumption, Zenon DEF TypeLists
  <2> QED  BY <1>9, <2>1, Zenon DEF TcpInv, TupleInv
<1>20. Others(c)
  BY <1>1, <1>7, <1>11, <1>19, Zenon DEF Others, Same
<1>21. ConnInv(c)'
  <2>1. PlaceInv(c)'
    BY <1>1, <1>8, <1>9, <1>16, Zenon DEF PlaceInv
  <2>2. WakeInv(c)'
    BY <1>1, <1>8, <1>9 DEF WakeInv, Resolving, Accepted
  <2>3. ListInv(c)'
    BY <1>1, <1>8, <1>9, <1>11 DEF ListInv, Registered
  <2> QED  BY <2>1, <2>2, <2>3, Zenon DEF ConnInv
<1>22. \A d \in Conns : ConnInv(d)'
  BY <1>10, <1>20, <1>21, OneConn DEF TcpInv
<1> QED  BY <1>13, <1>14, <1>15, <1>17, <1>18, <1>22, Zenon DEF TcpInv

(* flow_insert keeps the invariant.                                        *)
LEMMA FlowInsertInd ==
  ASSUME TcpInv, flow_insert
  PROVE  TcpInv'
<1> DEFINE E == [tuple : Tuples, flow : FlowIds]
<1>1. /\ Running /\ sptx # <<>> /\ sptx' = Tail(sptx)
      /\ table' = IF table[Head(sptx).tuple] # 0 THEN table
                  ELSE [table EXCEPT ![Head(sptx).tuple] = Head(sptx).flow]
      /\ UNCHANGED <<arpVars, tc, ht, ports, wait, backlog, cc, appConns, freeIds, spout, app,
                     answers, packets, faults, aborted>>
  BY DEF flow_insert
<1>2. TypeNic /\ TypeApp
  BY TypeParts DEF TcpInv
<1>3. sptx \in Seq(E)
  BY <1>2, Zenon DEF TypeNic
<1>4. Head(sptx) \in E /\ Tail(sptx) \in Seq(E)
  <2> HIDE DEF E
  <2> QED  BY <1>1, <1>3
<1>5. Head(sptx).tuple \in Tuples /\ Head(sptx).flow \in FlowIds
  BY <1>4, Zenon
<1>6. table' \in [Tuples -> FlowIds \cup {0}]
  BY <1>1, <1>2, <1>5, Zenon DEF TypeNic
<1>7. TypeNic'
  BY <1>1, <1>2, <1>4, <1>6, Zenon DEF TypeNic
<1>8. TypeApp'
  BY <1>1, <1>2, TypeKept, Zenon
<1>9. NoAbort'
  BY <1>1 DEF TcpInv, NoAbort
<1> QED  BY <1>1, <1>7, <1>8, <1>9, OnlyAppMoves, Zenon

(* An answer that is taken keeps the invariant.                            *)
LEMMA AppPollInd ==
  ASSUME TcpInv, AppPoll
  PROVE  TcpInv'
<1> DEFINE a == Head(spout)
           v == IF a.type = "OPEN" /\ a.ok THEN "open" ELSE "done"
<1>1. /\ Running /\ spout # <<>> /\ spout' = Tail(spout)
      /\ app' = app \/ app' = [app EXCEPT ![a.conn] = v]
      /\ UNCHANGED <<arpVars, tc, ht, ports, wait, backlog, cc, appConns, freeIds, sptx,
                     table, answers, packets, faults, aborted>>
  BY DEF AppPoll
<1>2. TypeNic /\ TypeApp
  BY TypeParts, Zenon DEF TcpInv
<1>3. spout' \in Seq(Answers) /\ Len(spout') <= SpoutLen
  BY <1>1, <1>2, TcpAssumption DEF TypeApp
<1>4. v \in {"open", "done"}
  OBVIOUS
<1> HIDE DEF v, a
<1>5. /\ app' \in [Conns -> {"idle", "opening", "open", "closing", "done"}]
      /\ \A d \in Conns : app'[d] = "idle" => app[d] = "idle"
  BY <1>1, <1>2, <1>4, Zenon DEF TypeApp
<1>6. TypeApp'
  BY <1>1, <1>2, <1>3, <1>5, Zenon DEF TypeApp
<1>7. TypeNic'
  BY <1>1, <1>2, TypeKept, Zenon
<1>8. NoAbort'
  BY <1>1 DEF TcpInv, NoAbort
<1> QED  BY <1>1, <1>5, <1>6, <1>7, <1>8, OnlyAppMoves, Zenon

(* The entry of p is replaced by one that nobody waits for, and who waited *)
(* gets a completion.                                                      *)
LEMMA CompletedStep ==
  ASSUME TcpInv, Running, NEW p \in Peers, NEW ok \in BOOLEAN, NEW e \in ArpEntries,
         e.compl = <<>>, arp' = [arp EXCEPT ![p] = e],
         asyncq' = asyncq \o Completions(p, ok),
         UNCHANGED <<tc, ht, ports, wait, backlog, cc, appConns, freeIds, sptx, table, spout,
                     app, answers, packets, faults, aborted>>
  PROVE  TcpInv'
<1> DEFINE l == arp[p].compl
<1>1. TypeConn /\ TypeArp /\ TypeLists /\ TypeNic /\ TypeApp
  BY TypeParts, Zenon DEF TcpInv
<1>2. arp[p] \in ArpEntries /\ l \in Seq(Conns) /\ asyncq \in Seq(Entries)
  BY <1>1, Zenon DEF TypeArp, ArpEntries
<1>3. Once(asyncq) /\ IsInjective(l)
  BY Zenon DEF TcpInv, OnceInv
<1>4. Range(l) = Resolving(p) /\ Range(l) \subseteq Conns
  <2>1. \A i \in DOMAIN l : l[i] \in Conns
    BY <1>2
  <2> QED  BY <2>1, Zenon DEF Resolving, Range
<1>5. \A c \in Range(l) : tc[c].status = "ARP_PENDING" /\ c \notin Queued(asyncq)
  BY <1>4 DEF TcpInv, ConnInv, WakeInv
<1>6. /\ asyncq' \in Seq(Entries) /\ Queued(asyncq') = Queued(asyncq) \cup Range(l)
      /\ Once(asyncq')
  BY <1>2, <1>3, <1>5, CatQueue DEF Completions
<1>7. /\ arp' \in [Peers -> ArpEntries] /\ arp'[p] = e
      /\ \A r \in Peers \ {p} : arp'[r] = arp[r]
  BY <1>1, Zenon DEF TypeArp
<1>8. Range(<<>>) = {} /\ IsInjective(<<>>)
  BY EmptyList, Zenon
<1>9. TypeOK'
  <2>1. TypeArp'
    BY <1>6, <1>7, Zenon DEF TypeArp
  <2>2. TypeConn' /\ TypeLists' /\ TypeNic' /\ TypeApp'
    BY <1>1, TypeKept, Zenon
  <2> QED  BY <2>1, <2>2, TypePartsNext, Zenon
<1>10. OnceInv'
  <2>1. \A r \in Peers : /\ IsInjective(arp'[r].compl)
                         /\ arp'[r].status = "ready" => arp'[r].compl = <<>>
    BY <1>7, <1>8, Zenon DEF TcpInv, OnceInv, Resolved
  <2>2. /\ IsInjective(wait') /\ IsInjective(backlog')
        /\ aborted' # "cc_conn_init" => IsInjective(cc')
        /\ faults' \cap {"dangling", "spout_full"} = {} => IsInjective(appConns')
    BY Zenon DEF TcpInv, OnceInv
  <2> QED  BY <1>6, <2>1, <2>2, Zenon DEF OnceInv, Resolved
<1>11. TupleInv'
  BY DEF TcpInv, TupleInv
<1>12. FlowInv'
  BY DEF TcpInv, FlowInv, Holds, Accepted
<1>13. NoAbort'
  BY Zenon DEF NoAbort, Running
<1>14. ASSUME NEW d \in Conns  PROVE ConnInv(d)'
  <2>1. ConnInv(d) /\ (tc[d].status = "ARP_PENDING" => tc[d].peer \in Peers)
    BY DEF TcpInv, ConnInv, PlaceInv
  <2>2. PlaceInv(d)'
    BY <2>1, Zenon DEF ConnInv, PlaceInv, Holds, Accepted
  <2>3. ListInv(d)'
    BY <2>1, Zenon DEF ConnInv, ListInv
  <2>4. /\ Range(arp'[p].compl) = {} /\ Range(l) = Resolving(p)
        /\ \A r \in Peers \ {p} : Range(arp'[r].compl) = Resolving(r)
    BY <1>4, <1>7, <1>8, Zenon DEF Resolving
  <2> HIDE DEF l
  <2>5. WakeInv(d)'
    <3>1. d \in Queued(asyncq)' => (tc[d].status = "ARP_PENDING" \/ Accepted(d))
      BY <1>6, <2>1, <2>4, Zenon DEF ConnInv, WakeInv
    <3>2. ASSUME NEW r \in Peers, d \in Range(arp'[r].compl)
          PROVE  /\ tc[d].status = "ARP_PENDING" /\ tc[d].peer = r
                 /\ d \notin Queued(asyncq')
      <4>1. r # p /\ d \in Resolving(r)
        BY <2>4, <3>2, Zenon
      <4>2. tc[d].status = "ARP_PENDING" /\ tc[d].peer = r /\ d \notin Queued(asyncq)
        BY <2>1, <4>1, Zenon DEF ConnInv, WakeInv
      <4>3. d \notin Resolving(p)
        BY <2>1, <4>1, <4>2, Zenon DEF ConnInv, WakeInv
      <4> QED  BY <1>6, <2>4, <4>2, <4>3, Zenon
    <3>3. tc[d].status = "ARP_PENDING" =>
            d \in Queued(asyncq') \/ d \in Range(arp'[tc[d].peer].compl)
      BY <1>6, <2>1, <2>4, Zenon DEF ConnInv, WakeInv
    <3>4. Accepted(d) => d \in Queued(asyncq')
      BY <1>6, <2>1, Zenon DEF ConnInv, WakeInv
    <3> QED  BY <3>1, <3>2, <3>3, <3>4, Zenon DEF WakeInv, Resolving, Accepted
  <2> QED  BY <2>2, <2>3, <2>5, Zenon DEF ConnInv
<1> QED  BY <1>9, <1>10, <1>11, <1>12, <1>13, <1>14 DEF TcpInv

(* arp_packet and arp_timeout keep the invariant.                          *)
LEMMA ArpInd ==
  ASSUME TcpInv, NEW p \in Peers, Arp(p)
  PROVE  TcpInv'
<1>1. /\ Running
      /\ UNCHANGED <<tc, ht, ports, wait, backlog, cc, appConns, freeIds, sptx, table, spout,
                     app, answers, packets, faults, aborted>>
  BY Zenon DEF Arp
<1>2. TypeConn /\ TypeArp /\ TypeLists /\ TypeNic /\ TypeApp
  BY TypeParts, Zenon DEF TcpInv
<1>3. <<>> \in Seq(Conns) /\ 0 \in 0..ArpTries
  BY TcpAssumption
<1>4. CASE arp_packet(p)
  <2> DEFINE e == [NoEntry EXCEPT !.status = "ready"]
  <2>1. e \in ArpEntries /\ e.compl = <<>>
    BY <1>3, Zenon DEF ArpEntries, NoEntry
  <2>2. arp' = [arp EXCEPT ![p] = e] /\ asyncq' = asyncq \o Completions(p, TRUE)
    BY <1>4, Zenon DEF arp_packet
  <2> HIDE DEF e
  <2> QED  BY <1>1, <2>1, <2>2, CompletedStep, Zenon
<1>5. CASE arp' = [arp EXCEPT ![p] = NoEntry] /\ asyncq' = asyncq \o Completions(p, FALSE)
  <2>1. NoEntry \in ArpEntries /\ NoEntry.compl = <<>>
    BY <1>3, Zenon DEF ArpEntries, NoEntry
  <2> QED  BY <1>1, <1>5, <2>1, CompletedStep, Zenon
<1>6. CASE /\ arp[p].tries < ArpTries /\ arp' = [arp EXCEPT ![p].tries = @ + 1]
           /\ UNCHANGED asyncq
  <2> DEFINE e == [arp[p] EXCEPT !.tries = arp[p].tries + 1]
  <2>1. arp \in [Peers -> ArpEntries] /\ arp[p] \in ArpEntries
    BY <1>2, Zenon DEF TypeArp
  <2>2. arp[p].tries + 1 \in 0..ArpTries
    BY <1>6, <2>1, TcpAssumption DEF ArpEntries
  <2>3. e \in ArpEntries /\ e.compl = arp[p].compl /\ e.status = arp[p].status
    BY <2>1, <2>2, Zenon DEF ArpEntries
  <2>4. arp' = [arp EXCEPT ![p] = e]
    BY <1>6, Zenon
  <2> HIDE DEF e
  <2>5. /\ arp' \in [Peers -> ArpEntries]
        /\ \A r \in Peers : arp'[r].compl = arp[r].compl /\ arp'[r].status = arp[r].status
    BY <2>1, <2>3, <2>4, Zenon
  <2>6. TypeOK'
    <3>1. TypeArp'
      BY <1>2, <1>6, <2>5, Zenon DEF TypeArp
    <3>2. TypeConn' /\ TypeLists' /\ TypeNic' /\ TypeApp'
      BY <1>1, <1>2, TypeKept, Zenon
    <3> QED  BY <3>1, <3>2, TypePartsNext, Zenon
  <2>7. OnceInv'
    BY <1>1, <1>6, <2>5 DEF TcpInv, OnceInv, Resolved
  <2>8. TupleInv'
    BY <1>1 DEF TcpInv, TupleInv
  <2>9. FlowInv'
    BY <1>1 DEF TcpInv, FlowInv, Holds, Accepted
  <2>10. NoAbort'
    BY <1>1, Zenon DEF NoAbort, Running
  <2>11. \A d \in Conns : Same(d)
    BY <1>1, <1>6, <2>5, Zenon DEF Same
  <2>12. \A d \in Conns : ConnInv(d)'
    BY <1>1, <2>11, NoConnMoves DEF TcpInv
  <2> QED  BY <2>6, <2>7, <2>8, <2>9, <2>10, <2>12, Zenon DEF TcpInv
<1> QED  BY <1>4, <1>5, <1>6, Zenon DEF Arp, arp_timeout

-----------------------------------------------------------------------------
(* The library facts on finite sets, for the steps that are left.         *)
Finite == INSTANCE FiniteSetTheorems

(* The lowest unused port is unused.                                       *)
LEMMA MinPort ==
  ASSUME FreePorts # {}
  PROVE  Min(FreePorts) \in FreePorts
<1> DEFINE R == Finite!OpToRel(<, Nat)
           S == FreePorts
<1>1. S \subseteq Nat /\ S # {}
  BY TcpAssumption, Zenon DEF FreePorts
<1> HIDE DEF S
<1>2. PICK x \in S : \A y \in S : <<y, x>> \notin R
  BY <1>1, Finite!NatLessThanWellFounded, Finite!WFMin, Zenon
<1>3. \A a, b \in Nat : a < b => <<a, b>> \in R
  BY Zenon DEF Finite!OpToRel
<1> HIDE DEF R
<1>4. \A y \in S : ~(y < x)
  BY <1>1, <1>2, <1>3, Zenon
<1>5. \A y \in S : x =< y
  BY <1>1, <1>4
<1>6. Min(S) \in S
  BY <1>5, Zenon DEF Min
<1> QED  BY <1>6, Zenon DEF S

(* spin_conn_open keeps the invariant.                                     *)
LEMMA OpenInd ==
  ASSUME TcpInv, NEW c \in Conns, NEW p \in Peers, Open(c, p)
  PROVE  TcpInv'
<1>1. /\ Running /\ app[c] = "idle" /\ app' = [app EXCEPT ![c] = "opening"]
      /\ UNCHANGED <<asyncq, wait, backlog, cc, freeIds, sptx, table, packets, faults, aborted>>
  BY Zenon DEF Open
<1>2. CASE /\ FreePorts # {} /\ tcp_open(c, p, Min(FreePorts))
           /\ appConns' = <<c>> \o appConns /\ Untold
  <2>1. Min(FreePorts) \in FreePorts
    BY <1>2, MinPort, Zenon
  <2> QED  BY <1>1, <1>2, <2>1, OpenedStep, Zenon
<1>3. CASE Told(c, "OPEN", FALSE) /\ UNCHANGED <<tc, arp, ht, ports, appConns>>
  <2>1. TypeNic /\ TypeApp
    BY TypeParts, Zenon DEF TcpInv
  <2>2. spout' \in Seq(Answers) /\ Len(spout') <= SpoutLen /\ answers' \in [Conns -> Nat]
    BY <1>3, <2>1, ToldType, Zenon
  <2>3. /\ app' \in [Conns -> {"idle", "opening", "open", "closing", "done"}]
        /\ \A d \in Conns : app'[d] = "idle" => app[d] = "idle"
    BY <1>1, <2>1, AppAsks, Zenon
  <2>4. TypeApp'
    BY <1>1, <2>1, <2>2, <2>3 DEF TypeApp
  <2>5. TypeNic'
    BY <1>1, <2>1, TypeKept, Zenon
  <2>6. NoAbort'
    BY <1>1 DEF TcpInv, NoAbort
  <2> QED  BY <1>1, <1>3, <2>3, <2>4, <2>5, <2>6, OnlyAppMoves DEF arpVars
<1> QED  BY <1>2, <1>3, Zenon DEF Open

-----------------------------------------------------------------------------
(* The invariant holds at the start.                                       *)
LEMMA TcpInit == Init => TcpInv
<1> SUFFICES ASSUME Init  PROVE TcpInv
  BY Zenon
<1>1. /\ arp = [p \in Peers |-> NoEntry] /\ asyncq = <<>>
      /\ tc = [c \in Conns |-> NoConn] /\ ht = {} /\ ports = {} /\ wait = <<>>
      /\ backlog = <<>> /\ cc = <<>> /\ appConns = <<>> /\ freeIds = FlowIds /\ sptx = <<>>
      /\ table = [t \in Tuples |-> 0] /\ spout = <<>> /\ app = [c \in Conns |-> "idle"]
      /\ answers = [c \in Conns |-> 0] /\ packets = 0 /\ faults = {} /\ aborted = "ok"
  BY DEF Init, ArpInit, Tuples
<1>2. Range(<<>>) = {} /\ IsInjective(<<>>) /\ Queued(<<>>) = {} /\ Once(<<>>)
  <2>1. 1..Len(<<>>) = {}
    BY EmptyList, Zenon
  <2> QED  BY <2>1, EmptyList, Zenon DEF Queued, Once
<1>3. TypeOK
  <2>1. TypeConn
    <3>1. NoConn \in Structs
      BY NoConnType
    <3> QED  BY <1>1, <3>1 DEF TypeConn
  <2>2. TypeArp
    <3>1. NoEntry \in ArpEntries
      BY TcpAssumption DEF NoEntry, ArpEntries
    <3> QED  BY <1>1, <3>1 DEF TypeArp
  <2>3. TypeLists
    BY <1>1, TcpAssumption DEF TypeLists
  <2>4. TypeNic
    BY <1>1 DEF TypeNic
  <2>5. TypeApp
    BY <1>1, TcpAssumption DEF TypeApp
  <2> QED  BY <2>1, <2>2, <2>3, <2>4, <2>5, TypeParts
<1>4. \A p \in Peers : arp[p].compl = <<>>
  BY <1>1 DEF NoEntry
<1>5. OnceInv
  BY <1>1, <1>2, <1>4, Zenon DEF OnceInv
<1>6. TupleInv
  BY <1>1, Zenon DEF TupleInv
<1>7. \A c \in Conns : /\ tc[c].status = "none" /\ tc[c].timer = "off" /\ tc[c].flow = 0
                       /\ ~Holds(c) /\ ~Accepted(c)
  BY <1>1, Zenon DEF NoConn, Holds, Accepted
<1>8. FlowInv
  BY <1>1, <1>7 DEF FlowInv
<1>9. NoAbort
  BY <1>1, Zenon DEF NoAbort
<1>10. ASSUME NEW c \in Conns  PROVE ConnInv(c)
  <2>1. PlaceInv(c)
    BY <1>1, <1>2, <1>7, Zenon DEF PlaceInv
  <2>2. WakeInv(c)
    BY <1>1, <1>2, <1>4, <1>7, Zenon DEF WakeInv, Resolving
  <2>3. ListInv(c)
    BY <1>1, <1>2, <1>7 DEF ListInv, Registered
  <2> QED  BY <2>1, <2>2, <2>3, Zenon DEF ConnInv
<1> QED  BY <1>3, <1>5, <1>6, <1>8, <1>9, <1>10 DEF TcpInv

(* A stuttering step keeps the invariant.                                  *)
LEMMA TcpStutter == TcpInv /\ UNCHANGED vars => TcpInv'
<1> SUFFICES ASSUME TcpInv, UNCHANGED vars  PROVE TcpInv'
  OBVIOUS
<1>1. UNCHANGED <<arp, asyncq, tc, ht, ports, wait, backlog, cc, appConns, freeIds, sptx,
                  table, spout, app, answers, packets, faults, aborted>>
  BY Zenon DEF vars, arpVars
<1>2. TypeOK'
  BY <1>1, Zenon DEF TcpInv, TypeOK
<1>3. OnceInv'
  BY <1>1, Zenon DEF TcpInv, OnceInv, Resolved
<1>4. TupleInv' /\ NoAbort'
  BY <1>1 DEF TcpInv, TupleInv, NoAbort
<1>5. FlowInv'
  BY <1>1 DEF TcpInv, FlowInv, Holds, Accepted
<1>6. \A d \in Conns : Same(d)
  BY <1>1, Zenon DEF Same
<1>7. \A d \in Conns : ConnInv(d)'
  BY <1>1, <1>6, NoConnMoves, Zenon DEF TcpInv
<1> QED  BY <1>2, <1>3, <1>4, <1>5, <1>7 DEF TcpInv

(* Every step of the slow path, the firmware and the application keeps it. *)
LEMMA TcpNext == TcpInv /\ [Next]_vars => TcpInv'
<1> SUFFICES ASSUME TcpInv, [Next]_vars  PROVE TcpInv'
  OBVIOUS
<1>1. CASE \E c \in Conns : Accept(c)
  BY <1>1, AcceptInd
<1>2. CASE \E c \in Conns : Close(c)
  BY <1>2, CloseInd, Zenon
<1>3. CASE \E c \in Conns, p \in Peers : Open(c, p)
  BY <1>3, OpenInd
<1>4. CASE Receive
  <2>1. PICK p \in Peers, port \in {ListenPort} \cup EphPorts,
             flags \in {"SYN", "SYNACK", "RST"} : Packet(p, port, flags)
    BY <1>4, Zenon DEF Receive
  <2> QED  BY <2>1, PacketInd, Zenon
<1>5. CASE tcp_poll
  BY <1>5, PollInd
<1>6. CASE \E c \in Conns : HandshakeTimeout(c)
  BY <1>6, HandshakeInd
<1>7. CASE \E c \in Conns : CloseTimeout(c)
  BY <1>7, CloseTimeoutInd
<1>8. CASE flow_insert
  BY <1>8, FlowInsertInd
<1>9. CASE AppPoll
  BY <1>9, AppPollInd
<1>10. CASE \E p \in Peers : Arp(p)
  BY <1>10, ArpInd
<1>11. CASE UNCHANGED vars
  BY <1>11, TcpStutter
<1> QED
  BY <1>1, <1>2, <1>3, <1>4, <1>5, <1>6, <1>7, <1>8, <1>9, <1>10, <1>11, Zenon
     DEF Next, Request, Work, Timeout

(* Every connection is in the places its status says.                      *)
THEOREM TcpInductive == Spec => []TcpInv
BY TcpInit, TcpNext, PTL DEF Spec

-----------------------------------------------------------------------------
(* The invariant implies the properties.                                   *)
LEMMA TablesFromInv ==
  ASSUME TcpInv
  PROVE  TablesAgree
<1>1. TypeConn /\ TypeLists /\ TypeNic
  BY TypeParts, Zenon DEF TcpInv
<1>2. UniqueTuple
  <2>1. \A c, d \in ht : Tuple(c) = Tuple(d) => c = d
    BY Zenon DEF TcpInv, TupleInv, Tuple
  <2>2. ASSUME NEW c \in Conns, tc[c].status \in Registered
        PROVE  c \in ht \/ (tc[c].status = "REG_SYNACK" /\ c \in Range(wait))
    BY <2>2, Zenon DEF TcpInv, ConnInv, PlaceInv, Registered, Holds, Accepted
  <2> QED  BY <2>1, <2>2, Zenon DEF UniqueTuple
<1>3. FlowIdsConserved
  <2> DEFINE held == {c \in Conns : tc[c].flow # 0 /\ tc[c].status # "freed"}
  <2>1. \A c \in Conns : c \in held <=> Holds(c)
    <3> SUFFICES ASSUME NEW c \in Conns
                 PROVE  tc[c].flow # 0 /\ tc[c].status # "freed" <=> Holds(c)
      BY Zenon
    <3>1. Holds(c) => tc[c].status # "freed"
      BY Zenon DEF Holds, Accepted
    <3>2. tc[c].status # "freed" => (tc[c].flow # 0 <=> Holds(c))
      BY Zenon DEF TcpInv, ConnInv, PlaceInv
    <3> QED  BY <3>1, <3>2, Zenon
  <2>2. held \subseteq Conns /\ \A c \in held : tc[c].flow \in FlowIds
    BY <1>1, ConnFields, Zenon
  <2> HIDE DEF held
  <2>3. \A c, d \in held : tc[c].flow = tc[d].flow => c = d
    BY <2>1, <2>2, Zenon DEF TcpInv, FlowInv
  <2>4. freeIds \cap {tc[c].flow : c \in held} = {}
    BY <2>1, <2>2 DEF TcpInv, FlowInv
  <2>5. freeIds \cup {tc[c].flow : c \in held} = FlowIds
    <3>1. freeIds \cup {tc[c].flow : c \in held} \subseteq FlowIds
      BY <1>1, <2>2, Zenon DEF TypeNic
    <3>2. ASSUME NEW f \in FlowIds, f \notin freeIds
          PROVE  \E c \in held : tc[c].flow = f
      BY <2>1, <2>2, <3>2 DEF TcpInv, FlowInv
    <3> QED  BY <3>1, <3>2
  <2> QED  BY <2>3, <2>4, <2>5, Zenon DEF FlowIdsConserved, held
<1> QED  BY <1>2, <1>3, Zenon DEF TablesAgree, TcpInv

LEMMA WakersFromInv ==
  ASSUME TcpInv
  PROVE  WakersMatchState
<1> DEFINE waiting(c) == {p \in Peers : c \in Range(arp[p].compl)}
           queued(c)  == {i \in 1..Len(asyncq) : asyncq[i].conn = c}
<1>1. TimerMatchesState
  BY Zenon DEF TcpInv, ConnInv, PlaceInv, TimerMatchesState
<1>2. \A p \in Peers : Resolved(p) => arp[p].compl = <<>>
  BY Zenon DEF TcpInv, OnceInv
<1>3. /\ Cardinality({}) = 0 /\ \A x : Cardinality({x}) = 1
  <2>1. \A T : Finite!Cardinality(T) = Cardinality(T)
    BY Zenon DEF Cardinality, Finite!Cardinality
  <2>2. Finite!Cardinality({}) = 0 /\ \A x : Finite!Cardinality({x}) = 1
    BY Finite!FS_EmptySet, Finite!FS_Singleton, Zenon
  <2> QED  BY <2>1, <2>2, Zenon
<1>4. ASSUME NEW c \in Conns
      PROVE  Cardinality(waiting(c)) + Cardinality(queued(c)) =
               IF tc[c].status = "ARP_PENDING" THEN 1
               ELSE IF tc[c].status = "REG_SYNACK" /\ c \in ht THEN 1 ELSE 0
  <2>1. PlaceInv(c) /\ WakeInv(c)
    BY Zenon DEF TcpInv, ConnInv
  <2>2. tc[c].status = "REG_SYNACK" /\ c \in ht <=> Accepted(c)
    BY <2>1, Zenon DEF PlaceInv, Holds, Accepted
  <2>3. c \in Queued(asyncq) => \E i : queued(c) = {i}
    <3> SUFFICES ASSUME c \in Queued(asyncq)  PROVE \E i : queued(c) = {i}
      BY Zenon
    <3>1. PICK i \in 1..Len(asyncq) : asyncq[i].conn = c
      BY Zenon DEF Queued
    <3>2. queued(c) = {i}
      BY <3>1, Zenon DEF TcpInv, OnceInv, Once
    <3> QED  BY <3>2, Zenon
  <2>4. c \notin Queued(asyncq) => queued(c) = {}
    BY Zenon DEF Queued
  <2>5. tc[c].status = "ARP_PENDING" => tc[c].peer \in Peers
    BY <2>1, Zenon DEF PlaceInv
  <2>6. waiting(c) = {p \in Peers : c \in Resolving(p)}
    BY Zenon DEF Resolving
  <2> HIDE DEF waiting, queued
  <2>7. CASE c \in Queued(asyncq)
    <3>1. waiting(c) = {} /\ (tc[c].status = "ARP_PENDING" \/ Accepted(c))
      BY <2>1, <2>6, <2>7, Zenon DEF WakeInv
    <3>2. Cardinality(waiting(c)) = 0 /\ Cardinality(queued(c)) = 1
      BY <1>3, <2>3, <2>7, <3>1, Zenon
    <3>3. tc[c].status = "ARP_PENDING" \/ (tc[c].status = "REG_SYNACK" /\ c \in ht)
      BY <2>2, <3>1, Zenon
    <3>4. (IF tc[c].status = "ARP_PENDING" THEN 1
           ELSE IF tc[c].status = "REG_SYNACK" /\ c \in ht THEN 1 ELSE 0) = 1
      BY <3>3, Zenon
    <3> QED  BY <3>2, <3>4
  <2>8. CASE c \notin Queued(asyncq) /\ tc[c].status = "ARP_PENDING"
    <3>1. waiting(c) = {tc[c].peer}
      BY <2>1, <2>5, <2>6, <2>8 DEF WakeInv
    <3>2. Cardinality(waiting(c)) = 1 /\ Cardinality(queued(c)) = 0
      BY <1>3, <2>4, <2>8, <3>1, Zenon
    <3> QED  BY <2>8, <3>2
  <2>9. CASE c \notin Queued(asyncq) /\ tc[c].status # "ARP_PENDING"
    <3>1. waiting(c) = {} /\ ~Accepted(c)
      BY <2>1, <2>6, <2>9, Zenon DEF WakeInv
    <3>2. Cardinality(waiting(c)) = 0 /\ Cardinality(queued(c)) = 0
      BY <1>3, <2>4, <2>9, <3>1, Zenon
    <3> QED  BY <2>2, <2>9, <3>1, <3>2
  <2> QED  BY <2>7, <2>8, <2>9, Zenon
<1>5. CompletionsExpected
  BY <1>2, <1>4, Zenon DEF CompletionsExpected
<1> QED  BY <1>1, <1>5, Zenon DEF WakersMatchState

LEMMA ListsFromInv ==
  ASSUME TcpInv
  PROVE  ListsLive
<1>1. CcLive
  <2> SUFFICES ASSUME "add" \notin faults
               PROVE  /\ IsInjective(cc)
                      /\ Range(cc) = {c \in Conns : tc[c].status \in {"REG_SYNACK", "OPEN"}}
    BY Zenon DEF CcLive
  <2>1. IsInjective(cc)
    BY DEF TcpInv, NoAbort, OnceInv
  <2>2. Range(cc) \subseteq Conns
    <3>1. cc \in Seq(Conns)
      BY TypeParts DEF TcpInv, TypeLists
    <3>2. \A i \in DOMAIN cc : cc[i] \in Conns
      BY <3>1
    <3> QED  BY <3>2 DEF Range
  <2>3. \A c \in Conns : c \in Range(cc) <=> tc[c].status \in {"REG_SYNACK", "OPEN"}
    BY Zenon DEF TcpInv, ConnInv, ListInv
  <2> QED  BY <2>1, <2>2, <2>3, Zenon
<1>2. AppConnsLive
  BY Zenon DEF AppConnsLive, TcpInv, OnceInv, ConnInv, ListInv
<1> QED  BY <1>1, <1>2, Zenon DEF ListsLive

(* The hash table has one connection for a segment, though accepted        *)
(* connections share the listener's port and ephemeral ports are used      *)
(* again, and no flow id of nicif_connection_add is lost or given twice.   *)
THEOREM TcpTablesAgree == Spec => []TablesAgree
<1>1. TcpInv => TablesAgree
  BY TablesFromInv
<1> QED  BY <1>1, TcpInductive, PTL

(* A timer or a completion of conn_async_q finds its connection alive and  *)
(* in the state its handler expects, and a connection that waits has one.  *)
THEOREM TcpWakersMatchState == Spec => []WakersMatchState
<1>1. TcpInv => WakersMatchState
  BY WakersFromInv
<1> QED  BY <1>1, TcpInductive, PTL

(* The lists of congestion control and of the application hold what the    *)
(* walks over them expect, until a partial failure.                        *)
THEOREM TcpListsLive == Spec => []ListsLive
<1>1. TcpInv => ListsLive
  BY ListsFromInv
<1> QED  BY <1>1, TcpInductive, PTL

(* No assertion or abort() of the slow path is reached before a partial    *)
(* failure.                                                                *)
THEOREM TcpNoAbort == Spec => []NoAbort
<1>1. TcpInv => NoAbort
  BY DEF TcpInv
<1> QED  BY <1>1, TcpInductive, PTL

=============================================================================
