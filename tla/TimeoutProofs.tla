--------------------------- MODULE TimeoutProofs ----------------------------
(***************************************************************************)
(* Proofs about the timers of the slow path.  The pending list is in the   *)
(* order of the time its timers really have left, no timer is so late or   *)
(* so far ahead that its timestamp is ambiguous, and every timer is on one *)
(* list, once.                                                             *)
(***************************************************************************)
EXTENDS Timeout, WellFoundedInduction, TLAPS

(* How late a timer may be, by cur: a poll leaves none whose time had come *)
(* at the cur_ts it uses, and the next cur_ts is at most MaxLag later.     *)
Floor == IF pc = "work" THEN -MaxLag ELSE 0

(* A pending timer e at time t, when cur is g behind: its timestamp is the *)
(* time it really ends, and by cur it has between f and Middle left.       *)
OnTime(e, t, g, f) ==
  /\ e.ts = (t + e.left) % Wrap
  /\ f <= e.left + g
  /\ e.left + g < Middle

Sorted(l) == \A i, j \in DOMAIN l : i < j => l[i].left <= l[j].left

(* A timer is on one of the lists l and d, once.                           *)
Apart(l, d) ==
  /\ \A i, j \in DOMAIN l : l[i].timer = l[j].timer => i = j
  /\ \A i, j \in DOMAIN d : d[i] = d[j] => i = j
  /\ \A i \in DOMAIN l, j \in DOMAIN d : l[i].timer # d[j]

Absent(t, l, d) ==
  /\ \A i \in DOMAIN l : l[i].timer # t
  /\ \A i \in DOMAIN d : d[i] # t

(* r is l without its element k.                                           *)
IsCut(r, l, k) ==
  LET L == Len(l) IN
  /\ L \in Nat /\ k \in 1..L /\ DOMAIN l = 1..L /\ DOMAIN r = 1..(L - 1)
  /\ \A i \in 1..(k - 1) : r[i] = l[i]
  /\ \A i \in k..(L - 1) : r[i] = l[i + 1]

(* All of r is in l.                                                       *)
AllIn(r, l) == \A i \in DOMAIN r : \E j \in DOMAIN l : r[i] = l[j]

(* Where the elements of r were in l: f is their old place.                *)
Places(f, r, l, k) ==
  /\ \A i \in DOMAIN r : f[i] \in DOMAIN l /\ f[i] # k /\ r[i] = l[f[i]]
  /\ \A i, j \in DOMAIN r : i < j => f[i] < f[j]
  /\ \A i, j \in DOMAIN r : f[i] = f[j] => i = j

(* l with e put in after its first p elements.                             *)
Spliced(l, p, e) == SubSeq(l, 1, p) \o <<e>> \o SubSeq(l, p + 1, Len(l))

(* The same of r, element by element.                                      *)
IsSplice(r, l, p, e) ==
  LET L == Len(l) IN
  /\ L \in Nat /\ p \in 0..L /\ DOMAIN l = 1..L /\ DOMAIN r = 1..(L + 1)
  /\ \A i \in 1..p : r[i] = l[i]
  /\ r[p + 1] = e
  /\ \A i \in (p + 2)..(L + 1) : r[i] = l[i - 1]

(* r and m are the lists l and d once the first n timers have moved.       *)
IsMove(r, m, l, d, n) ==
  LET L == Len(l)
      K == Len(d)
  IN /\ L \in Nat /\ K \in Nat /\ n \in 0..L /\ DOMAIN l = 1..L /\ DOMAIN d = 1..K
     /\ DOMAIN r = 1..(L - n) /\ DOMAIN m = 1..(K + n)
     /\ \A i \in 1..(L - n) : r[i] = l[n + i]
     /\ \A i \in 1..K : m[i] = d[i]
     /\ \A i \in 1..n : m[K + i] = l[i].timer

(* Where the timers of m were in d and l.                                  *)
MovedFrom(m, l, d, n) ==
  \A i \in DOMAIN m :
    \/ i \in DOMAIN d /\ m[i] = d[i]
    \/ i - Len(d) \in 1..n /\ m[i] = l[i - Len(d)].timer

(* The inductive invariant.                                                *)
TimeoutInv ==
  /\ TypeOK
  /\ Lag <= MaxLag
  /\ \A i \in DOMAIN timeouts : OnTime(timeouts[i], now, Lag, Floor)
  /\ Sorted(timeouts)
  /\ Apart(timeouts, due)

-----------------------------------------------------------------------------
(* A nonempty set of naturals has a least member.                          *)
LEMMA Least ==
  ASSUME NEW S \in SUBSET Nat, S # {}
  PROVE  \E x \in S : \A y \in S : x <= y
<1> DEFINE R == OpToRel(<, Nat)
<1>1. PICK x \in S : \A y \in S : <<y, x>> \notin R
  BY NatLessThanWellFounded, WFMin, Zenon
<1>2. \A a, b \in Nat : a < b => <<a, b>> \in R
  BY DEF OpToRel
<1> HIDE DEF R
<1>3. ASSUME NEW y \in S PROVE ~(y < x)
  BY <1>1, <1>2, Zenon
<1>4. x \in Nat /\ \A y \in S : y \in Nat
  OBVIOUS
<1>5. \A y \in S : x <= y
  BY <1>3, <1>4
<1> QED
  BY <1>5

(* Max is the greatest member of a nonempty set of indices.                *)
LEMMA MaxIndex ==
  ASSUME NEW m \in Nat, NEW S \in SUBSET (1..m), S # {}
  PROVE  Max(S) \in S /\ \A y \in S : y <= Max(S)
<1> DEFINE T == {m - x : x \in S}
<1>1. T \in SUBSET Nat /\ T # {}
  <2>1. \A x \in S : x \in 1..m
    OBVIOUS
  <2>2. \A x \in S : m - x \in Nat
    BY <2>1
  <2> QED
    BY <2>2
<1>2. PICK z \in T : \A y \in T : z <= y
  BY <1>1, Least, Zenon
<1>3. PICK x \in S : z = m - x
  BY <1>2
<1>4. ASSUME NEW y \in S PROVE x >= y
  <2>1. m - y \in T
    OBVIOUS
  <2>2. m - x <= m - y
    BY <1>2, <1>3, <2>1
  <2> QED
    BY <2>2
<1>5. \E w \in S : \A y \in S : w >= y
  BY <1>4
<1>6. Max(S) \in S /\ \A y \in S : Max(S) >= y
  BY <1>5, Zenon DEF Max
<1> QED
  BY <1>6

(* Two numbers a modulus apart have the same residue.                      *)
LEMMA ModEq ==
  ASSUME NEW n \in Nat \ {0}, NEW x \in (-n)..(2 * n - 1), NEW y \in (-n)..(2 * n - 1),
         y = x \/ y = x + n \/ y = x - n
  PROVE  x % n = y % n
<1>1. \A z \in 0..(n - 1) : z % n = z
  OBVIOUS
<1>2. \A z \in n..(2 * n - 1) : z % n = z - n
  OBVIOUS
<1>3. \A z \in (-n)..(-1) : z % n = z + n
  OBVIOUS
<1> QED
  BY <1>1, <1>2, <1>3

(* The distance between two clock readings, and the reading it is between. *)
LEMMA Distance ==
  ASSUME NEW n \in Nat \ {0}, NEW a \in 0..(n - 1), NEW c \in 0..(n - 1)
  PROVE  /\ (a - c) % n \in 0..(n - 1)
         /\ a = c + ((a - c) % n) \/ a = (c + ((a - c) % n)) - n
<1>1. CASE a >= c
  <2>1. (a - c) % n = a - c
    BY <1>1
  <2> QED
    BY <1>1, <2>1
<1>2. CASE a < c
  <2>1. (a - c) % n = a - c + n
    BY <1>2
  <2> QED
    BY <1>2, <2>1
<1> QED
  BY <1>1, <1>2

(* rel_time undoes the wrap-around within half of the range.               *)
LEMMA RelTime ==
  ASSUME NEW c \in 0..(Wrap - 1), NEW d \in Int, -Middle < d, d < Middle
  PROVE  rel_time(c, (c + d) % Wrap) = d
<1> USE TimeoutAssumption
<1>1. Wrap \in Nat \ {0} /\ Middle \in Nat \ {0} /\ Wrap = 2 * Middle
  BY DEF Wrap
<1>2. c + d \in (-Wrap)..(2 * Wrap - 1)
  BY <1>1
<1> DEFINE t == (c + d) % Wrap
<1>3. /\ c + d < 0 => t = c + d + Wrap
      /\ c + d \in 0..(Wrap - 1) => t = c + d
      /\ c + d >= Wrap => t = c + d - Wrap
  BY <1>1, <1>2
<1>4. /\ c < Middle => (c - Middle) % Wrap = c + Middle
      /\ c > Middle => (c + Middle) % Wrap = c - Middle
  BY <1>1
<1> HIDE DEF t
<1>5. ASSUME c < Middle PROVE rel_time(c, t) = d
  BY <1>1, <1>2, <1>3, <1>4, <1>5 DEF rel_time
<1>6. ASSUME c = Middle PROVE rel_time(c, t) = d
  BY <1>1, <1>2, <1>3, <1>6 DEF rel_time
<1>7. ASSUME c > Middle PROVE rel_time(c, t) = d
  BY <1>1, <1>2, <1>3, <1>4, <1>7 DEF rel_time
<1>8. rel_time(c, t) = d
  BY <1>1, <1>5, <1>6, <1>7
<1> QED
  BY <1>8 DEF t

-----------------------------------------------------------------------------
(* Two lists, one after the other.                                         *)
LEMMA Concat ==
  ASSUME NEW S, NEW a \in Seq(S), NEW b \in Seq(S)
  PROVE  /\ a \o b \in Seq(S) /\ Len(a \o b) = Len(a) + Len(b)
         /\ \A i \in 1..(Len(a) + Len(b)) :
              (a \o b)[i] = IF i <= Len(a) THEN a[i] ELSE b[i - Len(a)]
OBVIOUS

(* The list without its first n elements.                                  *)
LEMMA Drop ==
  ASSUME NEW S, NEW s \in Seq(S), NEW n \in 0..Len(s)
  PROVE  /\ SubSeq(s, n + 1, Len(s)) \in Seq(S)
         /\ Len(SubSeq(s, n + 1, Len(s))) = Len(s) - n
         /\ \A i \in 1..(Len(s) - n) : SubSeq(s, n + 1, Len(s))[i] = s[n + i]
OBVIOUS

(* The list with an element put in after its first p.                      *)
LEMMA Splice ==
  ASSUME NEW S, NEW s \in Seq(S), NEW p \in 0..Len(s), NEW e \in S
  PROVE  Spliced(s, p, e) \in Seq(S) /\ IsSplice(Spliced(s, p, e), s, p, e)
<1> DEFINE r == Spliced(s, p, e)
           a == SubSeq(s, 1, p) \o <<e>>
           b == SubSeq(s, p + 1, Len(s))
<1>1. a \in Seq(S) /\ Len(a) = p + 1
  OBVIOUS
<1>2. /\ \A i \in 1..p : a[i] = s[i]
      /\ a[p + 1] = e
  OBVIOUS
<1>3. /\ b \in Seq(S) /\ Len(b) = Len(s) - p
      /\ \A i \in 1..(Len(s) - p) : b[i] = s[p + i]
  BY Drop
<1>4. /\ Len(s) \in Nat /\ p \in Nat /\ p <= Len(s)
      /\ (p + 1) + (Len(s) - p) = Len(s) + 1
  OBVIOUS
<1>5. r = a \o b
  BY Zenon DEF Spliced
<1> HIDE DEF a, b, r
<1>6. /\ a \o b \in Seq(S) /\ Len(a \o b) = Len(a) + Len(b)
      /\ \A i \in 1..(Len(a) + Len(b)) :
           (a \o b)[i] = IF i <= Len(a) THEN a[i] ELSE b[i - Len(a)]
  BY <1>1, <1>3, Concat, Zenon
<1>7. /\ r \in Seq(S) /\ Len(r) = Len(s) + 1
      /\ \A i \in 1..(Len(s) + 1) : r[i] = IF i <= p + 1 THEN a[i] ELSE b[i - (p + 1)]
  BY <1>1, <1>3, <1>4, <1>5, <1>6, Zenon
<1>8. ASSUME NEW i \in 1..p PROVE r[i] = s[i]
  <2>1. i \in 1..(Len(s) + 1) /\ i <= p + 1
    BY <1>4
  <2> QED
    BY <1>2, <1>7, <2>1, Zenon
<1>9. r[p + 1] = e
  <2>1. p + 1 \in 1..(Len(s) + 1) /\ p + 1 <= p + 1
    BY <1>4
  <2> QED
    BY <1>2, <1>7, <2>1, Zenon
<1>10. ASSUME NEW i \in (p + 2)..(Len(s) + 1) PROVE r[i] = s[i - 1]
  <2>1. /\ i \in 1..(Len(s) + 1) /\ ~(i <= p + 1)
        /\ i - (p + 1) \in 1..(Len(s) - p) /\ p + (i - (p + 1)) = i - 1
    BY <1>4
  <2> QED
    BY <1>3, <1>7, <2>1, Zenon
<1>11. DOMAIN s = 1..Len(s) /\ DOMAIN r = 1..Len(r)
  BY <1>7
<1>12. IsSplice(r, s, p, e)
  BY <1>4, <1>7, <1>8, <1>9, <1>10, <1>11, Zenon DEF IsSplice
<1> QED
  BY <1>7, <1>12, Zenon DEF r

(* The list without its element k.                                         *)
LEMMA Cut ==
  ASSUME NEW S, NEW s \in Seq(S), NEW k \in 1..Len(s)
  PROVE  Unlink(s, k) \in Seq(S) /\ IsCut(Unlink(s, k), s, k)
<1> DEFINE r == Unlink(s, k)
           a == SubSeq(s, 1, k - 1)
           b == SubSeq(s, k + 1, Len(s))
<1>1. a \in Seq(S) /\ Len(a) = k - 1 /\ \A i \in 1..(k - 1) : a[i] = s[i]
  OBVIOUS
<1>2. /\ b \in Seq(S) /\ Len(b) = Len(s) - k
      /\ \A i \in 1..(Len(s) - k) : b[i] = s[k + i]
  BY Drop
<1>3. /\ Len(s) \in Nat /\ k \in Nat /\ 1 <= k /\ k <= Len(s)
      /\ (k - 1) + (Len(s) - k) = Len(s) - 1
  OBVIOUS
<1>4. r = a \o b
  BY Zenon DEF Unlink
<1> HIDE DEF a, b, r
<1>5. /\ a \o b \in Seq(S) /\ Len(a \o b) = Len(a) + Len(b)
      /\ \A i \in 1..(Len(a) + Len(b)) :
           (a \o b)[i] = IF i <= Len(a) THEN a[i] ELSE b[i - Len(a)]
  BY <1>1, <1>2, Concat, Zenon
<1>6. /\ r \in Seq(S) /\ Len(r) = Len(s) - 1
      /\ \A i \in 1..(Len(s) - 1) : r[i] = IF i <= k - 1 THEN a[i] ELSE b[i - (k - 1)]
  BY <1>1, <1>2, <1>3, <1>4, <1>5, Zenon
<1>7. ASSUME NEW i \in 1..(k - 1) PROVE r[i] = s[i]
  <2>1. i \in 1..(Len(s) - 1) /\ i <= k - 1
    BY <1>3
  <2> QED
    BY <1>1, <1>6, <2>1, Zenon
<1>8. ASSUME NEW i \in k..(Len(s) - 1) PROVE r[i] = s[i + 1]
  <2>1. /\ i \in 1..(Len(s) - 1) /\ ~(i <= k - 1)
        /\ i - (k - 1) \in 1..(Len(s) - k) /\ k + (i - (k - 1)) = i + 1
    BY <1>3
  <2> QED
    BY <1>2, <1>6, <2>1, Zenon
<1>9. DOMAIN s = 1..Len(s) /\ DOMAIN r = 1..Len(r)
  BY <1>6
<1>10. IsCut(r, s, k)
  BY <1>3, <1>6, <1>7, <1>8, <1>9, Zenon DEF IsCut
<1> QED
  BY <1>6, <1>10, Zenon DEF r

-----------------------------------------------------------------------------
(* move_due_timeouts takes the first n timers of l to the end of d.        *)
LEMMA MoveApart ==
  ASSUME NEW r, NEW m, NEW l, NEW d, NEW n, IsMove(r, m, l, d, n), Apart(l, d)
  PROVE  Apart(r, m) /\ MovedFrom(m, l, d, n)
<1> DEFINE L == Len(l)
           K == Len(d)
<1>0. /\ L \in Nat /\ K \in Nat /\ n \in 0..L /\ DOMAIN l = 1..L /\ DOMAIN d = 1..K
      /\ DOMAIN r = 1..(L - n) /\ DOMAIN m = 1..(K + n)
      /\ \A i \in 1..(L - n) : r[i] = l[n + i]
      /\ \A i \in 1..K : m[i] = d[i]
      /\ \A i \in 1..n : m[K + i] = l[i].timer
      /\ Apart(l, d)
  BY Zenon DEF IsMove
<1> HIDE DEF L, K
<1> L \in Nat /\ K \in Nat /\ n \in 0..L
  BY <1>0, Zenon
<1>1. ASSUME NEW i \in DOMAIN m
      PROVE  \/ i \in DOMAIN d /\ m[i] = d[i]
             \/ /\ i - K \in DOMAIN l /\ i - K \in 1..n /\ i - K <= n
                /\ m[i] = l[i - K].timer
  <2>1. i \in 1..(K + n)
    BY <1>0, Zenon
  <2>2. CASE i \in 1..K
    BY <1>0, <2>2, Zenon
  <2>3. CASE i - K \in 1..n
    <3>1. i = K + (i - K) /\ i - K \in 1..L /\ i - K <= n
      BY <2>1, <2>3
    <3> QED
      BY <1>0, <2>3, <3>1, Zenon
  <2> QED
    BY <2>1, <2>2, <2>3
<1>2. ASSUME NEW i \in DOMAIN r
      PROVE  n + i \in DOMAIN l /\ ~(n + i <= n) /\ r[i] = l[n + i] /\ i \in Nat
  <2>1. i \in 1..(L - n)
    BY <1>0, Zenon
  <2>2. n + i \in 1..L /\ ~(n + i <= n) /\ i \in Nat
    BY <2>1
  <2> QED
    BY <1>0, <2>1, <2>2, Zenon
<1>3. ASSUME NEW i \in DOMAIN r, NEW j \in DOMAIN r, r[i].timer = r[j].timer
      PROVE  i = j
  <2>0. l[n + i].timer = l[n + j].timer
    BY <1>2, <1>3
  <2>1. n + i = n + j
    BY <1>0, <1>2, <2>0, Zenon DEF Apart
  <2>2. i \in Nat /\ j \in Nat
    BY <1>2, Zenon
  <2> QED
    BY <2>1, <2>2
<1>4. ASSUME NEW i \in DOMAIN m, NEW j \in DOMAIN m, m[i] = m[j]
      PROVE  i = j
  <2> DEFINE a == i - K
             b == j - K
  <2>1. \/ i \in DOMAIN d /\ m[i] = d[i]
        \/ a \in DOMAIN l /\ m[i] = l[a].timer
    BY <1>1, Zenon
  <2>2. \/ j \in DOMAIN d /\ m[j] = d[j]
        \/ b \in DOMAIN l /\ m[j] = l[b].timer
    BY <1>1, Zenon
  <2>3. i \in Int /\ j \in Int
    BY <1>0
  <2>4. a = b => i = j
    BY <2>3
  <2> HIDE DEF a, b
  <2>5. CASE i \in DOMAIN d /\ m[i] = d[i] /\ j \in DOMAIN d /\ m[j] = d[j]
    BY <1>0, <1>4, <2>5, Zenon DEF Apart
  <2>6. CASE i \in DOMAIN d /\ m[i] = d[i] /\ b \in DOMAIN l /\ m[j] = l[b].timer
    <3>1. l[b].timer # d[i]
      BY <1>0, <2>6, Zenon DEF Apart
    <3> QED
      BY <1>4, <2>6, <3>1, Zenon
  <2>7. CASE a \in DOMAIN l /\ m[i] = l[a].timer /\ j \in DOMAIN d /\ m[j] = d[j]
    BY <1>0, <1>4, <2>7, Zenon DEF Apart
  <2>8. CASE a \in DOMAIN l /\ m[i] = l[a].timer /\ b \in DOMAIN l /\ m[j] = l[b].timer
    BY <1>0, <1>4, <2>4, <2>8, Zenon DEF Apart
  <2> QED
    BY <2>1, <2>2, <2>5, <2>6, <2>7, <2>8, Zenon
<1>5. ASSUME NEW i \in DOMAIN r, NEW j \in DOMAIN m PROVE r[i].timer # m[j]
  <2>1. CASE j \in DOMAIN d /\ m[j] = d[j]
    <3>1. l[n + i].timer # d[j]
      BY <1>0, <1>2, <2>1, Zenon DEF Apart
    <3> QED
      BY <1>2, <2>1, <3>1
  <2>2. CASE /\ j - K \in DOMAIN l /\ j - K \in 1..n /\ j - K <= n
             /\ m[j] = l[j - K].timer
    <3>1. n + i # j - K
      BY <1>2, <2>2, Zenon
    <3> QED
      <4>1. l[n + i].timer # l[j - K].timer
        BY <1>0, <1>2, <2>2, <3>1, Zenon DEF Apart
      <4>2. r[i] = l[n + i]
        BY <1>2, Zenon
      <4> QED
        BY <2>2, <4>1, <4>2, Zenon
  <2> QED
    BY <1>1, <2>1, <2>2, Zenon
<1>6. Apart(r, m)
  BY <1>3, <1>4, <1>5, Zenon DEF Apart
<1> QED
  BY <1>1, <1>6, Zenon DEF MovedFrom, K

(* A timer that is on neither list is put on the first.                    *)
LEMMA InsertApart ==
  ASSUME NEW r, NEW l, NEW d, NEW p, NEW e, IsSplice(r, l, p, e),
         Apart(l, d), Absent(e.timer, l, d)
  PROVE  Apart(r, d)
<1> DEFINE L == Len(l)
<1>0. /\ L \in Nat /\ p \in 0..L /\ DOMAIN l = 1..L /\ DOMAIN r = 1..(L + 1)
      /\ \A i \in 1..p : r[i] = l[i]
      /\ \A i \in (p + 2)..(L + 1) : r[i] = l[i - 1]
      /\ Apart(l, d) /\ Absent(r[p + 1].timer, l, d)
  BY Zenon DEF IsSplice
<1> HIDE DEF L
<1> L \in Nat /\ p \in 0..L
  BY <1>0, Zenon
<1> DEFINE At(i) == IF i <= p THEN i ELSE i - 1
<1>1. ASSUME NEW i \in DOMAIN r, i # p + 1
      PROVE  At(i) \in DOMAIN l /\ r[i] = l[At(i)]
  <2>1. i \in 1..p \/ i \in (p + 2)..(L + 1)
    BY <1>0, <1>1
  <2>2. CASE i \in 1..p
    <3>1. i \in 1..L /\ At(i) = i
      BY <2>2
    <3> QED
      BY <1>0, <2>2, <3>1, Zenon
  <2>3. CASE i \in (p + 2)..(L + 1)
    <3>1. i - 1 \in 1..L /\ At(i) = i - 1
      BY <2>3
    <3> QED
      BY <1>0, <2>3, <3>1, Zenon
  <2> QED
    BY <2>1, <2>2, <2>3
<1>2. \A i, j \in DOMAIN r : i # p + 1 /\ j # p + 1 /\ At(i) = At(j) => i = j
  BY <1>0
<1> HIDE DEF At
<1>3. \A k \in DOMAIN r : k # p + 1 => r[k].timer # r[p + 1].timer
  BY <1>0, <1>1, Zenon DEF Absent
<1>4. ASSUME NEW i \in DOMAIN r, NEW j \in DOMAIN r, r[i].timer = r[j].timer
      PROVE  i = j
  <2>1. CASE i # p + 1 /\ j # p + 1
    <3>1. l[At(i)].timer = l[At(j)].timer
      BY <1>1, <1>4, <2>1
    <3>2. At(i) = At(j)
      BY <1>0, <1>1, <2>1, <3>1, Zenon DEF Apart
    <3> QED
      BY <1>2, <2>1, <3>2, Zenon
  <2>2. CASE i = p + 1 /\ j # p + 1
    BY <1>3, <1>4, <2>2, Zenon
  <2>3. CASE i # p + 1 /\ j = p + 1
    BY <1>3, <1>4, <2>3, Zenon
  <2> QED
    BY <2>1, <2>2, <2>3, Zenon
<1>5. ASSUME NEW i \in DOMAIN r, NEW j \in DOMAIN d PROVE r[i].timer # d[j]
  <2>1. CASE i = p + 1
    BY <1>0, <2>1, Zenon DEF Absent
  <2>2. CASE i # p + 1
    <3>1. l[At(i)].timer # d[j]
      BY <1>0, <1>1, <2>2, Zenon DEF Apart
    <3> QED
      BY <1>1, <2>2, <3>1
  <2> QED
    BY <2>1, <2>2, Zenon
<1>6. \A i, j \in DOMAIN d : d[i] = d[j] => i = j
  BY <1>0, Zenon DEF Apart
<1> QED
  BY <1>4, <1>5, <1>6, Zenon DEF Apart

(* Where the elements of a list without element k were in it.              *)
LEMMA CutIndex ==
  ASSUME NEW r, NEW l, NEW k, IsCut(r, l, k)
  PROVE  \E f : Places(f, r, l, k)
<1> DEFINE L == Len(l)
<1>0. /\ L \in Nat /\ k \in 1..L /\ DOMAIN l = 1..L /\ DOMAIN r = 1..(L - 1)
      /\ \A i \in 1..(k - 1) : r[i] = l[i]
      /\ \A i \in k..(L - 1) : r[i] = l[i + 1]
  BY Zenon DEF IsCut
<1> HIDE DEF L
<1> L \in Nat /\ k \in 1..L
  BY <1>0, Zenon
<1> DEFINE f == [i \in 1..(L - 1) |-> IF i < k THEN i ELSE i + 1]
<1>1. ASSUME NEW i \in 1..(L - 1)
      PROVE  f[i] \in 1..L /\ f[i] # k /\ r[i] = l[f[i]]
  <2>1. CASE i \in 1..(k - 1)
    <3>1. f[i] = i /\ i \in 1..L /\ i # k
      BY <2>1
    <3> QED
      BY <1>0, <2>1, <3>1, Zenon
  <2>2. CASE i \in k..(L - 1)
    <3>1. f[i] = i + 1 /\ i + 1 \in 1..L /\ i + 1 # k
      BY <2>2
    <3> QED
      BY <1>0, <2>2, <3>1, Zenon
  <2> QED
    BY <2>1, <2>2
<1>2. \A i, j \in 1..(L - 1) : i < j => f[i] < f[j]
  OBVIOUS
<1>3. \A i, j \in 1..(L - 1) : f[i] = f[j] => i = j
  OBVIOUS
<1> HIDE DEF f
<1>4. DOMAIN r = 1..(L - 1) /\ DOMAIN l = 1..L
  BY <1>0, Zenon
<1>5. Places(f, r, l, k)
  BY <1>1, <1>2, <1>3, <1>4, Zenon DEF Places
<1> QED
  BY <1>5, Zenon

(* Taking a timer off a list keeps the lists apart, and the first in order. *)
LEMMA CutFirst ==
  ASSUME NEW r, NEW l, NEW k, NEW d, IsCut(r, l, k), Apart(l, d), Sorted(l)
  PROVE  Apart(r, d) /\ Sorted(r) /\ AllIn(r, l)
<1>0. PICK f : Places(f, r, l, k)
  BY CutIndex, Zenon
<1>1. /\ \A i \in DOMAIN r : f[i] \in DOMAIN l /\ f[i] # k /\ r[i] = l[f[i]]
      /\ \A i, j \in DOMAIN r : i < j => f[i] < f[j]
      /\ \A i, j \in DOMAIN r : f[i] = f[j] => i = j
  BY <1>0, Zenon DEF Places
<1>2. ASSUME NEW i \in DOMAIN r, NEW j \in DOMAIN r, r[i].timer = r[j].timer
      PROVE  i = j
  <2>1. l[f[i]].timer = l[f[j]].timer
    BY <1>1, <1>2
  <2>2. f[i] = f[j]
    BY <1>1, <2>1, Zenon DEF Apart
  <2> QED
    BY <1>1, <2>2, Zenon
<1>3. ASSUME NEW i \in DOMAIN r, NEW j \in DOMAIN d PROVE r[i].timer # d[j]
  <2>1. l[f[i]].timer # d[j]
    BY <1>1, Zenon DEF Apart
  <2> QED
    BY <1>1, <2>1
<1>4. ASSUME NEW i \in DOMAIN r, NEW j \in DOMAIN r, i < j
      PROVE  r[i].left <= r[j].left
  <2>1. l[f[i]].left <= l[f[j]].left
    BY <1>1, <1>4, Zenon DEF Sorted
  <2>2. r[i] = l[f[i]] /\ r[j] = l[f[j]]
    BY <1>1, Zenon
  <2> QED
    BY <2>1, <2>2, Zenon
<1>5. \A i, j \in DOMAIN d : d[i] = d[j] => i = j
  BY Zenon DEF Apart
<1>6. Apart(r, d)
  BY <1>2, <1>3, <1>5, Zenon DEF Apart
<1>7. Sorted(r)
  BY <1>4, Zenon DEF Sorted
<1> QED
  BY <1>1, <1>6, <1>7, Zenon DEF AllIn

(* The same for the due list; the timer taken off is then on neither list. *)
LEMMA CutSecond ==
  ASSUME NEW r, NEW d, NEW k, NEW l, IsCut(r, d, k), Apart(l, d)
  PROVE  Apart(l, r) /\ Absent(d[k], l, r) /\ AllIn(r, d)
<1>0. PICK f : Places(f, r, d, k)
  BY CutIndex, Zenon
<1>1. /\ \A i \in DOMAIN r : f[i] \in DOMAIN d /\ f[i] # k /\ r[i] = d[f[i]]
      /\ \A i, j \in DOMAIN r : i < j => f[i] < f[j]
      /\ \A i, j \in DOMAIN r : f[i] = f[j] => i = j
  BY <1>0, Zenon DEF Places
<1>2. k \in DOMAIN d
  BY Zenon DEF IsCut
<1>3. ASSUME NEW i \in DOMAIN r, NEW j \in DOMAIN r, r[i] = r[j]
      PROVE  i = j
  <2>1. d[f[i]] = d[f[j]]
    BY <1>1, <1>3
  <2>2. f[i] = f[j]
    BY <1>1, <2>1, Zenon DEF Apart
  <2> QED
    BY <1>1, <2>2, Zenon
<1>4. ASSUME NEW i \in DOMAIN l, NEW j \in DOMAIN r PROVE l[i].timer # r[j]
  <2>1. l[i].timer # d[f[j]]
    BY <1>1, Zenon DEF Apart
  <2> QED
    BY <1>1, <2>1
<1>5. ASSUME NEW i \in DOMAIN r PROVE r[i] # d[k]
  <2>1. d[f[i]] # d[k]
    BY <1>1, <1>2, Zenon DEF Apart
  <2> QED
    BY <1>1, <2>1
<1>6. Apart(l, r)
  BY <1>3, <1>4, Zenon DEF Apart
<1>7. Absent(d[k], l, r)
  BY <1>2, <1>5, Zenon DEF Apart, Absent
<1> QED
  BY <1>1, <1>6, <1>7, Zenon DEF AllIn

-----------------------------------------------------------------------------
(* The due list without its head.                                          *)
LEMMA TailIsCut ==
  ASSUME NEW S, NEW s \in Seq(S), s # <<>>
  PROVE  /\ Tail(s) \in Seq(S) /\ IsCut(Tail(s), s, 1)
         /\ 1 \in 1..Len(s) /\ Head(s) = s[1]
<1> DEFINE r == Tail(s)
<1>1. /\ r \in Seq(S) /\ Len(r) = Len(s) - 1
      /\ \A i \in 1..(Len(s) - 1) : r[i] = s[i + 1]
  OBVIOUS
<1>2. 1 \in 1..Len(s) /\ Head(s) = s[1]
  OBVIOUS
<1> HIDE DEF r
<1>3. Len(s) \in Nat /\ DOMAIN s = 1..Len(s) /\ DOMAIN r = 1..Len(r)
  BY <1>1
<1>4. \A i \in 1..(1 - 1) : r[i] = s[i]
  OBVIOUS
<1>5. IsCut(r, s, 1)
  BY <1>1, <1>2, <1>3, <1>4, Zenon DEF IsCut
<1> QED
  BY <1>1, <1>2, <1>5, Zenon DEF r

(* move_due_timeouts as a move of n timers.                                *)
LEMMA PrefixIsMove ==
  ASSUME NEW d \in Seq(Timers), timeouts \in Seq(Entry), NEW n \in 0..Len(timeouts)
  PROVE  LET r == SubSeq(timeouts, n + 1, Len(timeouts))
             m == d \o DuePrefix(n)
         IN r \in Seq(Entry) /\ m \in Seq(Timers) /\ IsMove(r, m, timeouts, d, n)
<1> DEFINE l == timeouts
           r == SubSeq(l, n + 1, Len(l))
           q == DuePrefix(n)
           m == d \o q
<1>1. /\ r \in Seq(Entry) /\ Len(r) = Len(l) - n
      /\ \A i \in 1..(Len(l) - n) : r[i] = l[n + i]
  BY Drop, Zenon
<1>2. Len(l) \in Nat /\ Len(d) \in Nat /\ DOMAIN l = 1..Len(l) /\ DOMAIN d = 1..Len(d)
  OBVIOUS
<1>3. ASSUME NEW i \in 1..n PROVE l[i].timer \in Timers
  <2>1. i \in 1..Len(l)
    BY <1>2
  <2>2. l[i] \in Entry
    BY <2>1
  <2> QED
    BY <2>2 DEF Entry
<1>4. q \in [1..n -> Timers] /\ \A i \in 1..n : q[i] = l[i].timer
  BY <1>3, Zenon DEF DuePrefix
<1> HIDE DEF l, r, q, m
<1>5. q \in Seq(Timers) /\ Len(q) = n
  BY <1>4, <1>2
<1>6. /\ m \in Seq(Timers) /\ Len(m) = Len(d) + Len(q)
      /\ \A i \in 1..(Len(d) + Len(q)) :
           m[i] = IF i <= Len(d) THEN d[i] ELSE q[i - Len(d)]
  BY <1>5, Concat, Zenon DEF m
<1>7. DOMAIN r = 1..Len(r) /\ DOMAIN m = 1..Len(m)
  BY <1>1, <1>6
<1>8. ASSUME NEW i \in 1..Len(d) PROVE m[i] = d[i]
  <2>1. i \in 1..(Len(d) + Len(q)) /\ i <= Len(d)
    BY <1>2, <1>5
  <2> QED
    BY <1>6, <2>1, Zenon
<1>9. ASSUME NEW i \in 1..n PROVE m[Len(d) + i] = l[i].timer
  <2> DEFINE j == Len(d) + i
  <2>1. j \in 1..(Len(d) + Len(q)) /\ ~(j <= Len(d)) /\ j - Len(d) = i
    BY <1>2, <1>5
  <2> HIDE DEF j
  <2>2. m[j] = q[i]
    BY <1>6, <2>1, Zenon
  <2> QED
    BY <1>4, <2>2, Zenon DEF j
<1>10. n \in 0..Len(l)
  BY DEF l
<1>11. IsMove(r, m, l, d, n)
  BY <1>1, <1>2, <1>5, <1>6, <1>7, <1>8, <1>9, <1>10, Zenon DEF IsMove
<1> QED
  BY <1>1, <1>6, <1>11, Zenon DEF l, r, q, m

-----------------------------------------------------------------------------
(* The clock and the older reading of it that a poll uses.                 *)
LEMMA Clocks ==
  ASSUME TypeOK, Lag <= MaxLag
  PROVE  /\ Wrap \in Nat \ {0} /\ Middle \in Nat \ {0} /\ Wrap = 2 * Middle
         /\ MaxLag \in Nat /\ 2 * MaxLag < Middle
         /\ now \in 0..(Wrap - 1) /\ cur \in 0..(Wrap - 1) /\ Lag \in 0..MaxLag
         /\ now = cur + Lag \/ now = (cur + Lag) - Wrap
<1>1. /\ Wrap \in Nat \ {0} /\ Middle \in Nat \ {0} /\ Wrap = 2 * Middle
      /\ MaxLag \in Nat /\ 2 * MaxLag < Middle
  BY TimeoutAssumption DEF Wrap
<1>2. now \in 0..(Wrap - 1) /\ cur \in 0..(Wrap - 1)
  BY DEF TypeOK
<1>3. /\ Lag \in 0..(Wrap - 1)
      /\ now = cur + Lag \/ now = (cur + Lag) - Wrap
  BY <1>1, <1>2, Distance, Zenon DEF Lag
<1>4. Lag \in 0..MaxLag
  BY <1>1, <1>3
<1> QED
  BY <1>1, <1>2, <1>3, <1>4

(* The time a pending timer has left is what rel_time says, by the clock   *)
(* and by cur.                                                             *)
LEMMA TimeLeft ==
  ASSUME TimeoutInv, NEW i \in DOMAIN timeouts
  PROVE  LET e == timeouts[i]
         IN /\ e \in Entry /\ e.left \in Int
            /\ -(2 * MaxLag) <= e.left
            /\ Floor <= e.left + Lag /\ e.left + Lag < Middle
            /\ rel_time(now, e.ts) = e.left
            /\ rel_time(cur, e.ts) = e.left + Lag
<1> DEFINE e == timeouts[i]
           x == e.left
<1>1. e \in Entry
  BY DEF TimeoutInv, TypeOK
<1>2. x \in Int
  BY <1>1 DEF Entry
<1>3. OnTime(e, now, Lag, Floor)
  BY Zenon DEF TimeoutInv
<1>4. e.ts = (now + x) % Wrap /\ Floor <= x + Lag /\ x + Lag < Middle
  BY <1>3, Zenon DEF OnTime
<1> HIDE DEF x, e
<1>5. /\ Wrap \in Nat \ {0} /\ Middle \in Nat \ {0} /\ Wrap = 2 * Middle
      /\ MaxLag \in Nat /\ 2 * MaxLag < Middle
      /\ now \in 0..(Wrap - 1) /\ cur \in 0..(Wrap - 1) /\ Lag \in 0..MaxLag
      /\ now = cur + Lag \/ now = (cur + Lag) - Wrap
  BY Clocks, Zenon DEF TimeoutInv
<1>6. Floor \in Int /\ -MaxLag <= Floor
  BY <1>5 DEF Floor
<1> HIDE DEF Lag, Floor
<1>7. -(2 * MaxLag) <= x /\ -Middle < x /\ x < Middle /\ -Middle < x + Lag
  BY <1>2, <1>4, <1>5, <1>6
<1>8. rel_time(now, (now + x) % Wrap) = x
  BY <1>2, <1>5, <1>7, RelTime
<1>9. rel_time(cur, (cur + (x + Lag)) % Wrap) = x + Lag
  <2>1. x + Lag \in Int
    BY <1>2, <1>5
  <2> QED
    BY <1>4, <1>5, <1>7, <2>1, RelTime
<1>10. (now + x) % Wrap = (cur + (x + Lag)) % Wrap
  <2> DEFINE a == now + x
             b == cur + (x + Lag)
  <2>1. a \in (-Wrap)..(2 * Wrap - 1) /\ b \in (-Wrap)..(2 * Wrap - 1)
    BY <1>2, <1>4, <1>5, <1>7
  <2>2. b = a \/ b = a + Wrap \/ b = a - Wrap
    BY <1>2, <1>5
  <2> HIDE DEF a, b
  <2>3. a % Wrap = b % Wrap
    BY <1>5, <2>1, <2>2, ModEq, Zenon
  <2> QED
    BY <2>3 DEF a, b
<1> QED
  BY <1>1, <1>2, <1>4, <1>7, <1>8, <1>9, <1>10, Zenon DEF e, x

(* move_due_timeouts by the clock (k = 0) or by cur (k = Lag) moves just   *)
(* the timers whose time has come by it.                                   *)
LEMMA DueSplit ==
  ASSUME TimeoutInv, NEW c, NEW k,
         \/ c = now /\ k = 0
         \/ c = cur /\ k = Lag
  PROVE  /\ NumDue(c) \in 0..Len(timeouts)
         /\ \A i \in 1..NumDue(c) : timeouts[i].left + k <= 0
         /\ \A i \in (NumDue(c) + 1)..Len(timeouts) : timeouts[i].left + k > 0
<1> DEFINE N == Len(timeouts)
           D(n) == n < N => ~timeout_due(timeouts[n + 1], c)
           S == {n \in 0..N : D(n)}
<1>1. N \in Nat /\ DOMAIN timeouts = 1..N
  BY DEF TimeoutInv, TypeOK
<1> HIDE DEF N
<1>2. k \in Nat
  BY Clocks, TimeoutAssumption DEF TimeoutInv
<1>3. ASSUME NEW i \in 1..N
      PROVE  /\ timeouts[i].left \in Int
             /\ timeout_due(timeouts[i], c) <=> timeouts[i].left + k <= 0
  <2>1. i \in DOMAIN timeouts
    BY <1>1, Zenon
  <2>2. /\ timeouts[i].left \in Int
        /\ rel_time(now, timeouts[i].ts) = timeouts[i].left
        /\ rel_time(cur, timeouts[i].ts) = timeouts[i].left + Lag
    BY <2>1, TimeLeft, Zenon
  <2>3. timeouts[i].left + 0 = timeouts[i].left
    BY <2>2
  <2>4. rel_time(c, timeouts[i].ts) = timeouts[i].left + k
    BY <2>2, <2>3, Zenon
  <2> QED
    BY <2>2, <2>4, Zenon DEF timeout_due
<1>4. N \in S
  BY <1>1
<1>5. PICK m \in S : \A n \in S : m <= n
  <2>0. 0..N \subseteq Nat
    BY <1>1
  <2>1. S \in SUBSET Nat /\ S # {}
    BY <1>4, <2>0, Zenon
  <2> HIDE DEF S
  <2> QED
    BY <2>1, Least, Zenon
<1>6. ASSUME NEW i \in 1..m PROVE timeout_due(timeouts[i], c)
  <2>1. i - 1 \in 0..N /\ i - 1 < N /\ ~(m <= i - 1) /\ (i - 1) + 1 = i
    BY <1>1, <1>5
  <2>2. i - 1 \notin S
    BY <1>5, <2>1, Zenon
  <2>3. ~D(i - 1)
    BY <2>1, <2>2, Zenon
  <2> QED
    BY <2>1, <2>3, Zenon
<1>7. \E n \in 0..N : /\ \A i \in 1..n : timeout_due(timeouts[i], c)
                      /\ n < N => ~timeout_due(timeouts[n + 1], c)
  BY <1>5, <1>6, Zenon
<1> DEFINE n == NumDue(c)
<1>8. /\ n \in 0..N
      /\ \A i \in 1..n : timeout_due(timeouts[i], c)
      /\ n < N => ~timeout_due(timeouts[n + 1], c)
  BY <1>7, Zenon DEF NumDue, N
<1> HIDE DEF n
<1>9. ASSUME NEW i \in 1..n PROVE timeouts[i].left + k <= 0
  <2>1. i \in 1..N
    BY <1>1, <1>8
  <2> QED
    BY <1>3, <1>8, <2>1, Zenon
<1>10. ASSUME NEW i \in (n + 1)..N PROVE timeouts[i].left + k > 0
  <2>1. /\ n < N /\ n + 1 \in 1..N /\ i \in 1..N /\ (n + 1 = i \/ n + 1 < i)
    BY <1>1, <1>8
  <2>2. ~(timeouts[n + 1].left + k <= 0)
    BY <1>3, <1>8, <2>1, Zenon
  <2>3. n + 1 = i \/ timeouts[n + 1].left <= timeouts[i].left
    BY <1>1, <2>1, Zenon DEF TimeoutInv, Sorted
  <2>4. timeouts[i].left \in Int /\ timeouts[n + 1].left \in Int
    BY <1>3, <2>1, Zenon
  <2> DEFINE u == timeouts[n + 1].left
             v == timeouts[i].left
  <2>5. ~(u + k <= 0) /\ (u = v \/ u <= v) /\ u \in Int /\ v \in Int
    BY <2>2, <2>3, <2>4, Zenon
  <2> HIDE DEF u, v
  <2>6. v + k > 0
    BY <1>2, <2>5
  <2> QED
    BY <2>6 DEF v
<1> QED
  BY <1>8, <1>9, <1>10, Zenon DEF n, N

-----------------------------------------------------------------------------
(* util_timeout_arm_ts puts the timer behind all that have no more time.   *)
LEMMA InsertSorted ==
  ASSUME NEW l \in Seq(Entry), NEW e \in Entry, NEW us \in Nat, NEW c, Sorted(l),
         \A i \in 1..Len(l) : l[i].left > 0 /\ rel_time(c, l[i].ts) = l[i].left,
         e.left = us
  PROVE  /\ Insert(l, e, us, c) \in Seq(Entry)
         /\ Sorted(Insert(l, e, us, c))
         /\ \E p \in 0..Len(l) : IsSplice(Insert(l, e, us, c), l, p, e)
<1> DEFINE L == Len(l)
           T == {i \in 1..L : rel_time(c, l[i].ts) \in 0..us}
           p == IF T = {} THEN 0 ELSE Max(T)
           r == Insert(l, e, us, c)
<1>1. L \in Nat /\ DOMAIN l = 1..L
  OBVIOUS
<1>2. ASSUME NEW i \in 1..L PROVE l[i].left \in Int /\ l[i].left > 0
  <2>1. l[i] \in Entry
    OBVIOUS
  <2> QED
    BY <2>1 DEF Entry
<1> HIDE DEF L
<1>3. ASSUME NEW i \in 1..L PROVE i \in T <=> l[i].left <= us
  <2> DEFINE u == l[i].left
  <2>1. rel_time(c, l[i].ts) = u
    BY Zenon DEF L
  <2>2. u \in Int /\ u > 0
    BY <1>2, Zenon
  <2> HIDE DEF u
  <2>3. u \in 0..us <=> u <= us
    BY <2>2
  <2> QED
    BY <2>1, <2>3, Zenon DEF u
<1>4. /\ p \in 0..L
      /\ \A i \in 1..L : i \in T => i <= p
      /\ p \in 1..L => p \in T
  <2>1. CASE T = {}
    <3>1. p = 0
      BY <2>1, Zenon
    <3> HIDE DEF p
    <3> QED
      BY <1>1, <2>1, <3>1
  <2>2. CASE T # {}
    <3>1. T \in SUBSET (1..L)
      BY Zenon
    <3>2. p = Max(T)
      BY <2>2, Zenon
    <3> HIDE DEF T, p
    <3>3. Max(T) \in T /\ \A y \in T : y <= Max(T)
      BY <1>1, <2>2, <3>1, MaxIndex, Zenon
    <3>4. p \in 1..L
      BY <3>1, <3>2, <3>3, Zenon
    <3>5. p \in 0..L
      BY <1>1, <3>4
    <3> QED
      BY <3>2, <3>3, <3>5, Zenon
  <2> QED
    BY <2>1, <2>2, Zenon
<1>5. r \in Seq(Entry) /\ IsSplice(r, l, p, e)
  <2>1. r = Spliced(l, p, e)
    BY Zenon DEF Insert, Spliced, L
  <2>2. p \in 0..Len(l)
    BY <1>4, Zenon DEF L
  <2> HIDE DEF r, p
  <2> QED
    BY <2>1, <2>2, Splice, Zenon
<1> HIDE DEF T, p, r
<1>6. ASSUME NEW i \in 1..p PROVE i \in 1..L /\ l[i].left <= us
  <2>1. i \in 1..L /\ p \in 1..L /\ (i = p \/ i < p)
    BY <1>1, <1>4
  <2>2. l[p].left <= us
    BY <1>3, <1>4, <2>1, Zenon
  <2>3. i = p \/ l[i].left <= l[p].left
    BY <1>1, <2>1, Zenon DEF Sorted
  <2>4. l[i].left \in Int /\ l[p].left \in Int
    BY <1>2, <2>1, Zenon
  <2> DEFINE u == l[i].left
             v == l[p].left
  <2>5. v <= us /\ (u = v \/ u <= v) /\ u \in Int /\ v \in Int
    BY <2>2, <2>3, <2>4, Zenon
  <2> HIDE DEF u, v
  <2>6. u <= us
    BY <2>5
  <2> QED
    BY <2>1, <2>6, Zenon DEF u
<1>7. ASSUME NEW i \in (p + 1)..L PROVE i \in 1..L /\ us <= l[i].left
  <2>1. i \in 1..L /\ ~(i <= p)
    BY <1>1, <1>4
  <2>2. ~(l[i].left <= us) /\ l[i].left \in Int
    BY <1>2, <1>3, <1>4, <2>1, Zenon
  <2> DEFINE u == l[i].left
  <2>3. ~(u <= us) /\ u \in Int
    BY <2>2, Zenon
  <2> HIDE DEF u
  <2>4. us <= u
    BY <2>3
  <2> QED
    BY <2>1, <2>4, Zenon DEF u
<1>8. /\ DOMAIN r = 1..(L + 1) /\ r[p + 1] = e
      /\ \A i \in 1..p : r[i] = l[i]
      /\ \A i \in (p + 2)..(L + 1) : r[i] = l[i - 1]
  BY <1>5, Zenon DEF IsSplice, L
<1>9. Sorted(r)
  <2> SUFFICES ASSUME NEW i \in 1..(L + 1), NEW j \in 1..(L + 1), i < j
               PROVE  r[i].left <= r[j].left
    BY <1>8, Zenon DEF Sorted
  <2>1. CASE i \in 1..p /\ j \in 1..p
    <3>1. l[i].left <= l[j].left
      BY <1>1, <1>6, <2>1, Zenon DEF Sorted
    <3> QED
      BY <1>8, <2>1, <3>1, Zenon
  <2>2. CASE i \in 1..p /\ j = p + 1
    <3>1. l[i].left <= e.left
      BY <1>6, <2>2, Zenon
    <3> QED
      BY <1>8, <2>2, <3>1, Zenon
  <2>3. CASE i \in 1..p /\ j \in (p + 2)..(L + 1)
    <3>1. i < j - 1 /\ j - 1 \in (p + 1)..L
      BY <1>1, <1>4, <2>3
    <3>2. l[i].left <= l[j - 1].left
      BY <1>1, <1>6, <1>7, <2>3, <3>1, Zenon DEF Sorted
    <3> QED
      BY <1>8, <2>3, <3>2, Zenon
  <2>4. CASE i = p + 1 /\ j \in (p + 2)..(L + 1)
    <3>1. j - 1 \in (p + 1)..L
      BY <1>1, <1>4, <2>4
    <3>2. e.left <= l[j - 1].left
      BY <1>7, <3>1, Zenon
    <3> QED
      BY <1>8, <2>4, <3>2, Zenon
  <2>5. CASE i \in (p + 2)..(L + 1) /\ j \in (p + 2)..(L + 1)
    <3>1. /\ i - 1 < j - 1 /\ i - 1 \in (p + 1)..L /\ j - 1 \in (p + 1)..L
      BY <1>1, <1>4, <2>5
    <3>2. l[i - 1].left <= l[j - 1].left
      BY <1>1, <1>7, <3>1, Zenon DEF Sorted
    <3> QED
      BY <1>8, <2>5, <3>2, Zenon
  <2> QED
    BY <1>1, <1>4, <2>1, <2>2, <2>3, <2>4, <2>5
<1> QED
  BY <1>4, <1>5, <1>9, Zenon DEF r, L

(* Every timer on the due list m was on d, or was pending and had no time  *)
(* left.                                                                   *)
Came(m, d) ==
  \A i \in DOMAIN m :
    \/ \E j \in DOMAIN d : m[i] = d[j]
    \/ \E j \in DOMAIN timeouts : timeouts[j].timer = m[i] /\ timeouts[j].left <= 0

(* move_due_timeouts keeps the lists as they should be.                    *)
LEMMA MoveKeeps ==
  ASSUME TimeoutInv, NEW c, NEW k,
         \/ c = now /\ k = 0
         \/ c = cur /\ k = Lag,
         NEW d \in Seq(Timers), Apart(timeouts, d)
  PROVE  LET n == NumDue(c)
             r == SubSeq(timeouts, n + 1, Len(timeouts))
             m == d \o DuePrefix(n)
         IN /\ r \in Seq(Entry) /\ m \in Seq(Timers)
            /\ Apart(r, m) /\ Sorted(r) /\ Came(m, d)
            /\ \A i \in DOMAIN r :
                 r[i].left + k > 0 /\ \E j \in DOMAIN timeouts : r[i] = timeouts[j]
            /\ \A t : Absent(t, timeouts, d) => Absent(t, r, m)
<1> DEFINE n == NumDue(c)
           L == Len(timeouts)
           r == SubSeq(timeouts, n + 1, Len(timeouts))
           m == d \o DuePrefix(n)
<1>1. /\ n \in 0..L
      /\ \A i \in 1..n : timeouts[i].left + k <= 0
      /\ \A i \in (n + 1)..L : timeouts[i].left + k > 0
  BY DueSplit, Zenon
<1>2. timeouts \in Seq(Entry) /\ Apart(timeouts, d) /\ Sorted(timeouts)
  BY Zenon DEF TimeoutInv, TypeOK
<1>3. r \in Seq(Entry) /\ m \in Seq(Timers) /\ IsMove(r, m, timeouts, d, n)
  BY <1>1, <1>2, PrefixIsMove, Zenon
<1> HIDE DEF n, r, m
<1>4. Apart(r, m) /\ MovedFrom(m, timeouts, d, n)
  BY <1>2, <1>3, MoveApart, Zenon
<1>5. /\ L \in Nat /\ DOMAIN timeouts = 1..L /\ DOMAIN r = 1..(L - n)
      /\ \A i \in 1..(L - n) : r[i] = timeouts[n + i]
  BY <1>3, Zenon DEF IsMove
<1> HIDE DEF L
<1>6. k \in Nat
  BY Clocks, TimeoutAssumption DEF TimeoutInv
<1>7. ASSUME NEW i \in DOMAIN r
      PROVE  /\ n + i \in DOMAIN timeouts /\ n + i \in (n + 1)..L
             /\ r[i] = timeouts[n + i] /\ i \in Nat
  <2>1. i \in 1..(L - n)
    BY <1>5, Zenon
  <2>2. n + i \in 1..L /\ n + i \in (n + 1)..L /\ i \in Nat
    BY <1>1, <1>5, <2>1
  <2> QED
    BY <1>5, <2>1, <2>2, Zenon
<1>8. ASSUME NEW j \in 1..n PROVE j \in DOMAIN timeouts /\ timeouts[j].left <= 0
  <2>1. j \in 1..L
    BY <1>1, <1>5
  <2>2. j \in DOMAIN timeouts
    BY <1>5, <2>1, Zenon
  <2>3. timeouts[j].left \in Int
    BY <2>2, TimeLeft, Zenon
  <2>4. timeouts[j].left + k <= 0
    BY <1>1, Zenon
  <2> DEFINE u == timeouts[j].left
  <2>5. u \in Int /\ u + k <= 0
    BY <2>3, <2>4, Zenon
  <2> HIDE DEF u
  <2>6. u <= 0
    BY <1>6, <2>5
  <2> QED
    BY <2>2, <2>6, Zenon DEF u
<1>9. ASSUME NEW i \in DOMAIN r, NEW j \in DOMAIN r, i < j
      PROVE  r[i].left <= r[j].left
  <2>1. n + i < n + j
    BY <1>1, <1>7, <1>9
  <2>2. timeouts[n + i].left <= timeouts[n + j].left
    BY <1>2, <1>7, <2>1, Zenon DEF Sorted
  <2>3. r[i] = timeouts[n + i] /\ r[j] = timeouts[n + j]
    BY <1>7, Zenon
  <2> QED
    BY <2>2, <2>3, Zenon
<1>10. Sorted(r)
  BY <1>9, Zenon DEF Sorted
<1>11. Came(m, d)
  <2> SUFFICES ASSUME NEW i \in DOMAIN m
               PROVE  \/ \E j \in DOMAIN d : m[i] = d[j]
                      \/ \E j \in DOMAIN timeouts :
                           timeouts[j].timer = m[i] /\ timeouts[j].left <= 0
    BY Zenon DEF Came
  <2> QED
    BY <1>4, <1>8, Zenon DEF MovedFrom
<1>12. ASSUME NEW i \in DOMAIN r
       PROVE  r[i].left + k > 0 /\ \E j \in DOMAIN timeouts : r[i] = timeouts[j]
  <2>1. timeouts[n + i].left + k > 0
    BY <1>1, <1>7, Zenon
  <2>2. r[i] = timeouts[n + i] /\ n + i \in DOMAIN timeouts
    BY <1>7, Zenon
  <2> QED
    BY <2>1, <2>2, Zenon
<1>13. ASSUME NEW t, Absent(t, timeouts, d) PROVE Absent(t, r, m)
  <2>1. ASSUME NEW i \in DOMAIN r PROVE r[i].timer # t
    <3>1. timeouts[n + i].timer # t
      BY <1>7, <1>13, Zenon DEF Absent
    <3>2. r[i] = timeouts[n + i]
      BY <1>7, Zenon
    <3> QED
      BY <3>1, <3>2, Zenon
  <2>2. ASSUME NEW i \in DOMAIN m PROVE m[i] # t
    <3>1. CASE i \in DOMAIN d /\ m[i] = d[i]
      BY <1>13, <3>1, Zenon DEF Absent
    <3>2. CASE i - Len(d) \in 1..n /\ m[i] = timeouts[i - Len(d)].timer
      <4>1. i - Len(d) \in DOMAIN timeouts
        BY <1>8, <3>2, Zenon
      <4> QED
        BY <1>13, <3>2, <4>1, Zenon DEF Absent
    <3> QED
      BY <1>4, <3>1, <3>2, Zenon DEF MovedFrom
  <2> QED
    BY <2>1, <2>2, Zenon DEF Absent
<1> QED
  BY <1>3, <1>4, <1>10, <1>11, <1>12, <1>13, Zenon DEF r, m, n

(* util_timeout_arm keeps the lists as they should be; only timers whose   *)
(* time has come become due.                                               *)
LEMMA ArmKeeps ==
  ASSUME TimeoutInv, NEW t \in Timers, NEW us \in Delays, NEW d \in Seq(Timers),
         Apart(timeouts, d), Absent(t, timeouts, d), util_timeout_arm(t, us, d)
  PROVE  /\ timeouts' \in Seq(Entry) /\ due' \in Seq(Timers)
         /\ \A i \in DOMAIN timeouts' : OnTime(timeouts'[i], now, Lag, Floor)
         /\ Sorted(timeouts') /\ Apart(timeouts', due') /\ Came(due', d)
<1> DEFINE n == NumDue(now)
           r == SubSeq(timeouts, n + 1, Len(timeouts))
           m == d \o DuePrefix(n)
           e == [timer |-> t, ts |-> (now + us) % Wrap, left |-> us]
           q == Insert(r, e, us, now)
<1>1. due' = m /\ timeouts' = q
  BY Zenon DEF util_timeout_arm
<1>2. /\ r \in Seq(Entry) /\ m \in Seq(Timers)
      /\ Apart(r, m) /\ Sorted(r) /\ Came(m, d)
      /\ \A i \in DOMAIN r :
           r[i].left + 0 > 0 /\ \E j \in DOMAIN timeouts : r[i] = timeouts[j]
      /\ Absent(t, r, m)
  BY MoveKeeps, Zenon
<1>3. /\ Wrap \in Nat \ {0} /\ Middle \in Nat \ {0} /\ Wrap = 2 * Middle
      /\ MaxLag \in Nat /\ now \in 0..(Wrap - 1) /\ Lag \in 0..MaxLag
  BY Clocks, Zenon DEF TimeoutInv
<1>4. us \in Nat /\ us + MaxLag < Middle
  BY TimeoutAssumption
<1>5. e \in Entry /\ e.left = us /\ e.timer = t /\ e.ts = (now + us) % Wrap
  <2>1. (now + us) % Wrap \in 0..(Wrap - 1)
    BY <1>3, <1>4
  <2> QED
    BY <1>4, <2>1 DEF Entry
<1> HIDE DEF n, r, m, e, q
<1>6. DOMAIN r = 1..Len(r)
  BY <1>2
<1>7. ASSUME NEW i \in 1..Len(r)
      PROVE  r[i].left > 0 /\ rel_time(now, r[i].ts) = r[i].left
  <2>1. PICK j \in DOMAIN timeouts : r[i] = timeouts[j]
    BY <1>2, <1>6, Zenon
  <2>2. r[i].left \in Int /\ rel_time(now, r[i].ts) = r[i].left
    BY <2>1, TimeLeft, Zenon
  <2>3. r[i].left + 0 > 0
    BY <1>2, <1>6, Zenon
  <2> DEFINE u == r[i].left
  <2>4. u \in Int /\ u + 0 > 0
    BY <2>2, <2>3, Zenon
  <2> HIDE DEF u
  <2>5. u > 0
    BY <2>4
  <2> QED
    BY <2>2, <2>5, Zenon DEF u
<1>8. /\ q \in Seq(Entry) /\ Sorted(q) /\ \E p \in 0..Len(r) : IsSplice(q, r, p, e)
  BY <1>2, <1>4, <1>5, <1>7, InsertSorted, Zenon DEF q
<1>9. PICK p \in 0..Len(r) : IsSplice(q, r, p, e)
  BY <1>8, Zenon
<1>10. Apart(q, m)
  <2>1. Absent(e.timer, r, m)
    BY <1>2, <1>5, Zenon
  <2> QED
    BY <1>2, <1>9, <2>1, InsertApart, Zenon
<1>11. Floor \in Int /\ Floor <= 0
  BY <1>3 DEF Floor
<1>12. OnTime(e, now, Lag, Floor)
  <2>1. Floor <= us + Lag /\ us + Lag < Middle
    BY <1>3, <1>4, <1>11
  <2> QED
    BY <1>5, <2>1, Zenon DEF OnTime
<1>13. ASSUME NEW j \in DOMAIN r PROVE OnTime(r[j], now, Lag, Floor)
  BY <1>2, Zenon DEF TimeoutInv
<1>14. ASSUME NEW i \in DOMAIN q PROVE q[i] = e \/ \E j \in DOMAIN r : q[i] = r[j]
  <2>1. /\ Len(r) \in Nat /\ DOMAIN r = 1..Len(r) /\ DOMAIN q = 1..(Len(r) + 1)
        /\ \A x \in 1..p : q[x] = r[x]
        /\ q[p + 1] = e
        /\ \A x \in (p + 2)..(Len(r) + 1) : q[x] = r[x - 1]
    BY <1>9, Zenon DEF IsSplice
  <2>2. i \in 1..(Len(r) + 1)
    BY <2>1, Zenon
  <2>3. CASE i \in 1..p /\ i \in 1..Len(r)
    BY <2>1, <2>3, Zenon
  <2>4. CASE i = p + 1
    BY <2>1, <2>4, Zenon
  <2>5. CASE i \in (p + 2)..(Len(r) + 1) /\ i - 1 \in 1..Len(r)
    BY <2>1, <2>5, Zenon
  <2>6. Len(r) \in Nat
    BY <2>1, Zenon
  <2>7. \/ i \in 1..p /\ i \in 1..Len(r)
        \/ i = p + 1
        \/ i \in (p + 2)..(Len(r) + 1) /\ i - 1 \in 1..Len(r)
    BY <2>2, <2>6
  <2> QED
    BY <2>3, <2>4, <2>5, <2>7, Zenon
<1>15. ASSUME NEW i \in DOMAIN q PROVE OnTime(q[i], now, Lag, Floor)
  BY <1>12, <1>13, <1>14, Zenon
<1> QED
  BY <1>1, <1>2, <1>8, <1>10, <1>15, Zenon

-----------------------------------------------------------------------------
(* util_timeout_init sets the invariant up.                                *)
LEMMA InitTimeout == Init => TimeoutInv
<1> SUFFICES ASSUME Init PROVE TimeoutInv
  OBVIOUS
<1>1. /\ Wrap \in Nat \ {0} /\ MaxLag \in Nat /\ MaxTimeouts \in Nat
      /\ now \in 0..(Wrap - 1) /\ cur = now
      /\ timeouts = <<>> /\ due = <<>>
  BY TimeoutAssumption DEF Init, Wrap
<1>2. TypeOK
  BY <1>1 DEF TypeOK, Init
<1>3. Lag <= MaxLag
  <2>1. now - cur = 0 /\ 0 % Wrap = 0
    BY <1>1
  <2> QED
    BY <1>1, <2>1 DEF Lag
<1>4. DOMAIN timeouts = {} /\ DOMAIN due = {}
  BY <1>1
<1> QED
  BY <1>2, <1>3, <1>4, Zenon DEF TimeoutInv, Sorted, Apart

(* The clock and cur move on together.                                     *)
LEMMA TickKeeps == TimeoutInv /\ Tick => TimeoutInv'
<1> SUFFICES ASSUME TimeoutInv, Tick PROVE TimeoutInv'
  OBVIOUS
<1>1. /\ Wrap \in Nat \ {0} /\ Middle \in Nat \ {0} /\ Wrap = 2 * Middle
      /\ MaxLag \in Nat /\ 2 * MaxLag < Middle
      /\ now \in 0..(Wrap - 1) /\ cur \in 0..(Wrap - 1) /\ Lag \in 0..MaxLag
      /\ now = cur + Lag \/ now = (cur + Lag) - Wrap
  BY Clocks, Zenon DEF TimeoutInv
<1>2. /\ Lag < MaxLag /\ now' = (now + 1) % Wrap
      /\ timeouts' = [i \in DOMAIN timeouts |-> [timeouts[i] EXCEPT !.left = @ - 1]]
      /\ cur' = cur /\ pc' = pc /\ num' = num /\ due' = due
  BY DEF Tick
<1>3. /\ now' \in 0..(Wrap - 1)
      /\ now' = now + 1 \/ now' = (now + 1) - Wrap
  <2>1. CASE now + 1 \in 0..(Wrap - 1)
    <3>1. (now + 1) % Wrap = now + 1
      BY <1>1, <2>1
    <3> QED
      BY <1>2, <2>1, <3>1
  <2>2. CASE now + 1 = Wrap
    <3>1. Wrap % Wrap = 0
      BY <1>1
    <3> QED
      BY <1>1, <1>2, <2>2, <3>1
  <2> QED
    BY <1>1, <2>1, <2>2
<1>4. Lag' = Lag + 1
  <2> DEFINE g == Lag + 1
             h == now'
  <2>1. g \in 0..(Wrap - 1) /\ (h - cur = g \/ h - cur = g - Wrap)
    BY <1>1, <1>2, <1>3
  <2>2. Lag' = (h - cur) % Wrap
    BY <1>2, Zenon DEF Lag
  <2>3. h \in 0..(Wrap - 1)
    BY <1>3
  <2> HIDE DEF g, h
  <2> DEFINE a == h - cur
  <2>4. /\ a \in (-Wrap)..(2 * Wrap - 1) /\ g \in (-Wrap)..(2 * Wrap - 1)
        /\ g = a \/ g = a + Wrap \/ g = a - Wrap
    BY <1>1, <2>1, <2>3
  <2>5. g % Wrap = g
    BY <1>1, <2>1
  <2> HIDE DEF a
  <2>6. a % Wrap = g % Wrap
    BY <1>1, <2>4, ModEq, Zenon
  <2> QED
    BY <2>2, <2>5, <2>6, Zenon DEF a, g
<1>5. Floor' = Floor /\ Floor \in Int /\ -MaxLag <= Floor
  BY <1>1, <1>2 DEF Floor
<1> HIDE DEF Lag, Floor
<1>6. timeouts \in Seq(Entry) /\ DOMAIN timeouts = 1..Len(timeouts) /\ Len(timeouts) \in Nat
  BY DEF TimeoutInv, TypeOK
<1>7. DOMAIN timeouts' = DOMAIN timeouts
  BY <1>2, Zenon
<1>8. ASSUME NEW i \in DOMAIN timeouts
      PROVE  /\ timeouts'[i] \in Entry
             /\ timeouts'[i].timer = timeouts[i].timer
             /\ timeouts'[i].ts = timeouts[i].ts
             /\ timeouts'[i].left = timeouts[i].left - 1
             /\ timeouts[i].left \in Int
  <2>1. timeouts'[i] = [timeouts[i] EXCEPT !.left = @ - 1]
    BY <1>2, Zenon
  <2>2. timeouts[i] \in Entry
    BY TimeLeft, Zenon
  <2> DEFINE e == timeouts[i]
             x == timeouts'[i]
  <2>3. x = [e EXCEPT !.left = @ - 1] /\ e \in Entry
    BY <2>1, <2>2, Zenon
  <2> HIDE DEF e, x
  <2>4. /\ x \in Entry /\ x.timer = e.timer /\ x.ts = e.ts
        /\ x.left = e.left - 1 /\ e.left \in Int
    BY <2>3 DEF Entry
  <2> QED
    BY <2>4, Zenon DEF e, x
<1>9. timeouts' \in Seq(Entry)
  <2> DEFINE q == timeouts'
  <2>1. q = [i \in 1..Len(timeouts) |-> q[i]]
    BY <1>2, <1>6, Zenon
  <2>2. \A i \in 1..Len(timeouts) : q[i] \in Entry
    BY <1>6, <1>8, Zenon
  <2>3. q \in [1..Len(timeouts) -> Entry]
    BY <2>1, <2>2, Zenon
  <2> HIDE DEF q
  <2>4. q \in Seq(Entry)
    BY <1>6, <2>3
  <2> QED
    BY <2>4 DEF q
<1>10. TypeOK'
  BY <1>2, <1>3, <1>9, Zenon DEF TimeoutInv, TypeOK
<1>11. ASSUME NEW i \in DOMAIN timeouts'
       PROVE  OnTime(timeouts'[i], now', Lag', Floor')
  <2> DEFINE e == timeouts[i]
             x == timeouts'[i]
             u == e.left
             h == now'
             b == h + (u - 1)
             a == now + u
  <2>1. /\ x.ts = e.ts /\ x.left = u - 1 /\ u \in Int
    BY <1>7, <1>8, Zenon
  <2>2. e.ts = (now + u) % Wrap /\ Floor <= u + Lag /\ u + Lag < Middle
    BY <1>7, Zenon DEF TimeoutInv, OnTime
  <2> HIDE DEF e, x, u
  <2>3. Floor <= (u - 1) + (Lag + 1) /\ (u - 1) + (Lag + 1) < Middle
    BY <1>1, <1>5, <2>1, <2>2
  <2>4. h \in 0..(Wrap - 1) /\ (h = now + 1 \/ h = (now + 1) - Wrap)
    BY <1>3
  <2> HIDE DEF h
  <2>5. -Middle < u /\ u < Middle
    BY <1>1, <1>5, <2>1, <2>2
  <2>6. a \in (-Wrap)..(2 * Wrap - 1) /\ b \in (-Wrap)..(2 * Wrap - 1)
    BY <1>1, <2>1, <2>4, <2>5
  <2>7. b = a \/ b = a + Wrap \/ b = a - Wrap
    BY <1>1, <2>1, <2>4
  <2>8. a % Wrap = b % Wrap
    <3> HIDE DEF a, b
    <3> QED
      BY <1>1, <2>6, <2>7, ModEq
  <2>9. x.ts = (now' + (u - 1)) % Wrap
    BY <2>1, <2>2, <2>8, Zenon DEF h
  <2>10. OnTime(x, now', Lag', Floor')
    BY <1>4, <1>5, <2>1, <2>3, <2>9, Zenon DEF OnTime
  <2> QED
    BY <2>10, Zenon DEF x
<1>12. Sorted(timeouts')
  <2> SUFFICES ASSUME NEW i \in DOMAIN timeouts, NEW j \in DOMAIN timeouts, i < j
               PROVE  timeouts'[i].left <= timeouts'[j].left
    BY <1>7, Zenon DEF Sorted
  <2> DEFINE u == timeouts[i].left
             v == timeouts[j].left
  <2>1. u <= v
    BY Zenon DEF TimeoutInv, Sorted
  <2>2. u \in Int /\ v \in Int
    BY <1>8, Zenon
  <2>3. timeouts'[i].left = u - 1 /\ timeouts'[j].left = v - 1
    BY <1>8, Zenon
  <2> HIDE DEF u, v
  <2>4. u - 1 <= v - 1
    BY <2>1, <2>2
  <2> QED
    BY <2>3, <2>4, Zenon
<1>13. Apart(timeouts', due')
  <2>1. Apart(timeouts, due)
    BY Zenon DEF TimeoutInv
  <2>2. \A i \in DOMAIN timeouts : timeouts'[i].timer = timeouts[i].timer
    BY <1>8, Zenon
  <2>3. \A i, j \in DOMAIN timeouts' : timeouts'[i].timer = timeouts'[j].timer => i = j
    BY <1>7, <2>1, <2>2 DEF Apart
  <2>4. \A i \in DOMAIN timeouts', j \in DOMAIN due : timeouts'[i].timer # due[j]
    BY <1>7, <2>1, <2>2 DEF Apart
  <2>5. Apart(timeouts', due)
    BY <2>1, <2>3, <2>4, Zenon DEF Apart
  <2> QED
    BY <1>2, <2>5, Zenon
<1>14. Lag' <= MaxLag
  BY <1>1, <1>2, <1>4
<1> QED
  BY <1>10, <1>11, <1>12, <1>13, <1>14, Zenon DEF TimeoutInv

(* At the top of the loop no timer was overdue by the last cur_ts, so none *)
(* is overdue by more than MaxLag by the new one.                          *)
LEMMA LoopTopKeeps == TimeoutInv /\ LoopTop => TimeoutInv'
<1> SUFFICES ASSUME TimeoutInv, LoopTop PROVE TimeoutInv'
  OBVIOUS
<1>1. /\ Wrap \in Nat \ {0} /\ Middle \in Nat \ {0}
      /\ MaxLag \in Nat /\ now \in 0..(Wrap - 1) /\ Lag \in 0..MaxLag
  BY Clocks, Zenon DEF TimeoutInv
<1>2. /\ pc = "top" /\ pc' = "work" /\ cur' = now
      /\ now' = now /\ num' = num /\ timeouts' = timeouts /\ due' = due
  BY DEF LoopTop
<1>3. Lag' = 0
  <2>1. now - now = 0 /\ 0 % Wrap = 0
    BY <1>1
  <2> QED
    BY <1>2, <2>1, Zenon DEF Lag
<1>4. Floor = 0 /\ Floor' = -MaxLag
  BY <1>2 DEF Floor
<1>5. TypeOK'
  BY <1>1, <1>2 DEF TimeoutInv, TypeOK
<1>6. ASSUME NEW i \in DOMAIN timeouts
      PROVE  OnTime(timeouts[i], now, 0, -MaxLag)
  <2> DEFINE u == timeouts[i].left
  <2>1. u \in Int /\ Floor <= u + Lag /\ u + Lag < Middle
    BY TimeLeft, Zenon
  <2>2. timeouts[i].ts = (now + u) % Wrap
    BY Zenon DEF TimeoutInv, OnTime
  <2> HIDE DEF u, Lag, Floor
  <2>3. -MaxLag <= u + 0 /\ u + 0 < Middle
    BY <1>1, <1>4, <2>1
  <2> QED
    BY <2>2, <2>3, Zenon DEF OnTime, u
<1>7. 0 <= MaxLag
  BY <1>1
<1> QED
  BY <1>2, <1>3, <1>4, <1>5, <1>6, <1>7, Zenon DEF TimeoutInv

(* The pollers arm a timer that is on no list.                             *)
LEMMA ArmStep ==
  ASSUME TimeoutInv, NEW t \in Timers, NEW us \in Delays, Arm(t, us)
  PROVE  TimeoutInv' /\ Came(due', due)
<1>1. /\ t \notin Pending \cup Due /\ util_timeout_arm(t, us, due)
      /\ now' = now /\ cur' = cur /\ pc' = pc /\ num' = num
  BY DEF Arm
<1>2. due \in Seq(Timers) /\ Apart(timeouts, due)
  BY Zenon DEF TimeoutInv, TypeOK
<1>3. Absent(t, timeouts, due)
  BY <1>1, Zenon DEF Absent, Pending, Due, Range
<1>4. /\ timeouts' \in Seq(Entry) /\ due' \in Seq(Timers)
      /\ \A i \in DOMAIN timeouts' : OnTime(timeouts'[i], now, Lag, Floor)
      /\ Sorted(timeouts') /\ Apart(timeouts', due') /\ Came(due', due)
  BY <1>1, <1>2, <1>3, ArmKeeps, Zenon
<1>5. Lag' = Lag /\ Floor' = Floor
  BY <1>1, Zenon DEF Lag, Floor
<1>6. TypeOK'
  BY <1>1, <1>4, Zenon DEF TimeoutInv, TypeOK
<1> QED
  BY <1>1, <1>4, <1>5, <1>6, Zenon DEF TimeoutInv

(* They disarm one that is on a list.                                      *)
LEMMA DisarmStep ==
  ASSUME TimeoutInv, NEW t \in Timers, Disarm(t)
  PROVE  TimeoutInv' /\ Came(due', due)
<1>1. /\ util_timeout_disarm(t)
      /\ now' = now /\ cur' = cur /\ pc' = pc /\ num' = num
  BY DEF Disarm
<1>2. /\ timeouts \in Seq(Entry) /\ due \in Seq(Timers) /\ Apart(timeouts, due)
      /\ Sorted(timeouts) /\ \A i \in DOMAIN timeouts : OnTime(timeouts[i], now, Lag, Floor)
  BY Zenon DEF TimeoutInv, TypeOK
<1>3. Lag' = Lag /\ Floor' = Floor
  BY <1>1, Zenon DEF Lag, Floor
<1>4. DOMAIN timeouts = 1..Len(timeouts) /\ DOMAIN due = 1..Len(due)
  BY <1>2
<1> DEFINE Kept == /\ timeouts' \in Seq(Entry) /\ due' \in Seq(Timers)
                   /\ \A i \in DOMAIN timeouts' : OnTime(timeouts'[i], now, Lag, Floor)
                   /\ Sorted(timeouts') /\ Apart(timeouts', due')
                   /\ AllIn(due', due)
<1>5. Kept
  <2>1. ASSUME NEW k \in DOMAIN timeouts, timeouts' = Unlink(timeouts, k), due' = due
        PROVE  Kept
    <3>1. timeouts' \in Seq(Entry) /\ IsCut(timeouts', timeouts, k)
      BY <1>2, <1>4, <2>1, Cut, Zenon
    <3>2. /\ Apart(timeouts', due) /\ Sorted(timeouts')
          /\ AllIn(timeouts', timeouts)
      BY <1>2, <3>1, CutFirst, Zenon
    <3>3. \A i \in DOMAIN timeouts' : OnTime(timeouts'[i], now, Lag, Floor)
      BY <1>2, <3>2, Zenon DEF AllIn
    <3> QED
      BY <1>2, <2>1, <3>1, <3>2, <3>3, Zenon DEF AllIn
  <2>2. ASSUME NEW k \in DOMAIN due, due' = Unlink(due, k), timeouts' = timeouts
        PROVE  Kept
    <3>1. due' \in Seq(Timers) /\ IsCut(due', due, k)
      BY <1>2, <1>4, <2>2, Cut, Zenon
    <3>2. /\ Apart(timeouts, due')
          /\ AllIn(due', due)
      BY <1>2, <3>1, CutSecond, Zenon
    <3> QED
      BY <1>2, <2>2, <3>1, <3>2, Zenon
  <2> QED
    BY <1>1, <2>1, <2>2, Zenon DEF util_timeout_disarm
<1>6. TypeOK'
  BY <1>1, <1>5, Zenon DEF TimeoutInv, TypeOK
<1>7. Came(due', due)
  BY <1>5, Zenon DEF Came, AllIn
<1> QED
  BY <1>1, <1>3, <1>5, <1>6, <1>7, Zenon DEF TimeoutInv

(* A poll leaves no timer whose time had come by cur_ts.                   *)
LEMMA PollStartStep ==
  ASSUME TimeoutInv, PollStart
  PROVE  TimeoutInv' /\ Came(due', due)
<1>1. /\ pc' = "poll" /\ num' = 0 /\ now' = now /\ cur' = cur
      /\ due' = due \o DuePrefix(NumDue(cur))
      /\ timeouts' = SubSeq(timeouts, NumDue(cur) + 1, Len(timeouts))
  BY Zenon DEF PollStart
<1>2. due \in Seq(Timers) /\ Apart(timeouts, due)
  BY Zenon DEF TimeoutInv, TypeOK
<1>3. /\ timeouts' \in Seq(Entry) /\ due' \in Seq(Timers)
      /\ Apart(timeouts', due') /\ Sorted(timeouts') /\ Came(due', due)
      /\ \A i \in DOMAIN timeouts' :
           /\ timeouts'[i].left + Lag > 0
           /\ \E j \in DOMAIN timeouts : timeouts'[i] = timeouts[j]
  BY <1>1, <1>2, MoveKeeps, Zenon
<1>4. Lag' = Lag /\ Floor' = 0
  BY <1>1 DEF Lag, Floor
<1>5. ASSUME NEW i \in DOMAIN timeouts' PROVE OnTime(timeouts'[i], now, Lag, 0)
  <2> DEFINE e == timeouts'[i]
             u == e.left
  <2>1. PICK j \in DOMAIN timeouts : e = timeouts[j]
    BY <1>3, Zenon
  <2>2. u \in Int /\ u + Lag < Middle
    BY <2>1, TimeLeft, Zenon
  <2>3. e.ts = (now + u) % Wrap
    BY <2>1, Zenon DEF TimeoutInv, OnTime
  <2>4. u + Lag > 0
    BY <1>3, Zenon
  <2>5. Lag \in Nat
    BY Clocks DEF TimeoutInv
  <2> HIDE DEF e, u, Lag
  <2>6. 0 <= u + Lag
    BY <2>2, <2>4, <2>5
  <2> QED
    BY <2>2, <2>3, <2>6, Zenon DEF OnTime, e, u
<1>6. TypeOK'
  BY <1>1, <1>3, TimeoutAssumption DEF TimeoutInv, TypeOK
<1> QED
  BY <1>1, <1>3, <1>4, <1>5, <1>6, Zenon DEF TimeoutInv

(* The handler at the head of the due list runs, and may arm its timer.    *)
LEMMA FireStep ==
  ASSUME TimeoutInv, NEW t \in Timers, Fire(t)
  PROVE  TimeoutInv' /\ Came(due', due)
<1>1. /\ due # <<>> /\ t = Head(due) /\ num < MaxTimeouts /\ num' = num + 1
      /\ now' = now /\ cur' = cur /\ pc' = pc
      /\ \/ due' = Tail(due) /\ timeouts' = timeouts
         \/ \E us \in Delays : util_timeout_arm(t, us, Tail(due))
  BY DEF Fire
<1>2. /\ timeouts \in Seq(Entry) /\ due \in Seq(Timers) /\ Apart(timeouts, due)
      /\ Sorted(timeouts) /\ \A i \in DOMAIN timeouts : OnTime(timeouts[i], now, Lag, Floor)
  BY Zenon DEF TimeoutInv, TypeOK
<1> DEFINE d == Tail(due)
<1>3. /\ d \in Seq(Timers) /\ IsCut(d, due, 1)
      /\ 1 \in 1..Len(due) /\ Head(due) = due[1]
  BY <1>1, <1>2, TailIsCut, Zenon
<1> HIDE DEF d
<1>4. /\ Apart(timeouts, d) /\ Absent(due[1], timeouts, d)
      /\ AllIn(d, due)
  BY <1>2, <1>3, CutSecond, Zenon
<1>5. Absent(t, timeouts, d)
  BY <1>1, <1>3, <1>4, Zenon
<1>6. /\ timeouts' \in Seq(Entry) /\ due' \in Seq(Timers)
      /\ \A i \in DOMAIN timeouts' : OnTime(timeouts'[i], now, Lag, Floor)
      /\ Sorted(timeouts') /\ Apart(timeouts', due') /\ Came(due', d)
  <2>1. CASE due' = d /\ timeouts' = timeouts
    <3>1. Came(due', d)
      BY <2>1, Zenon DEF Came
    <3> QED
      BY <1>2, <1>3, <1>4, <2>1, <3>1, Zenon
  <2>2. CASE \E us \in Delays : util_timeout_arm(t, us, d)
    BY <1>3, <1>4, <1>5, <2>2, ArmKeeps, Zenon
  <2> QED
    BY <1>1, <2>1, <2>2, Zenon DEF d
<1>7. Lag' = Lag /\ Floor' = Floor
  BY <1>1, Zenon DEF Lag, Floor
<1>8. num' \in 0..MaxTimeouts
  BY <1>1, TimeoutAssumption DEF TimeoutInv, TypeOK
<1>9. TypeOK'
  BY <1>1, <1>6, <1>8, Zenon DEF TimeoutInv, TypeOK
<1>10. Came(due', due)
  <2> SUFFICES ASSUME NEW i \in DOMAIN due',
                      ~\E j \in DOMAIN timeouts :
                         timeouts[j].timer = due'[i] /\ timeouts[j].left <= 0
               PROVE  \E j \in DOMAIN due : due'[i] = due[j]
    BY Zenon DEF Came
  <2>1. PICK j \in DOMAIN d : due'[i] = d[j]
    BY <1>6, Zenon DEF Came
  <2> QED
    BY <1>4, <2>1, Zenon DEF AllIn
<1> QED
  BY <1>1, <1>6, <1>7, <1>9, <1>10, Zenon DEF TimeoutInv

(* The end of a poll changes no list.                                      *)
LEMMA PollEndKeeps == TimeoutInv /\ PollEnd => TimeoutInv'
<1> SUFFICES ASSUME TimeoutInv, PollEnd PROVE TimeoutInv'
  OBVIOUS
<1>1. /\ pc = "poll" /\ pc' = "top"
      /\ now' = now /\ cur' = cur /\ num' = num /\ timeouts' = timeouts /\ due' = due
  BY DEF PollEnd
<1>2. Lag' = Lag /\ Floor' = Floor
  BY <1>1 DEF Lag, Floor
<1>3. TypeOK'
  BY <1>1 DEF TimeoutInv, TypeOK
<1> QED
  BY <1>1, <1>2, <1>3, Zenon DEF TimeoutInv

-----------------------------------------------------------------------------
(* Every step keeps the invariant, and makes only timers due whose time    *)
(* has come.                                                               *)
LEMMA NextTimeout ==
  ASSUME TimeoutInv, [Next]_vars
  PROVE  TimeoutInv' /\ Came(due', due)
<1>1. due' = due => Came(due', due)
  BY Zenon DEF Came
<1>2. CASE Tick
  <2>1. due' = due
    BY <1>2 DEF Tick
  <2> QED
    BY <1>1, <1>2, <2>1, TickKeeps, Zenon
<1>3. CASE LoopTop
  <2>1. due' = due
    BY <1>3 DEF LoopTop
  <2> QED
    BY <1>1, <1>3, <2>1, LoopTopKeeps, Zenon
<1>4. CASE PollStart
  BY <1>4, PollStartStep, Zenon
<1>5. CASE PollEnd
  <2>1. due' = due
    BY <1>5 DEF PollEnd
  <2> QED
    BY <1>1, <1>5, <2>1, PollEndKeeps, Zenon
<1>6. ASSUME NEW t \in Timers, Disarm(t) PROVE TimeoutInv' /\ Came(due', due)
  BY <1>6, DisarmStep, Zenon
<1>7. ASSUME NEW t \in Timers, Fire(t) PROVE TimeoutInv' /\ Came(due', due)
  BY <1>7, FireStep, Zenon
<1>8. ASSUME NEW t \in Timers, NEW us \in Delays, Arm(t, us)
      PROVE  TimeoutInv' /\ Came(due', due)
  BY <1>8, ArmStep, Zenon
<1>9. CASE UNCHANGED vars
  <2>1. /\ now' = now /\ cur' = cur /\ pc' = pc /\ num' = num
        /\ timeouts' = timeouts /\ due' = due
    BY <1>9 DEF vars
  <2>2. Lag' = Lag /\ Floor' = Floor /\ TypeOK'
    BY <2>1, Zenon DEF Lag, Floor, TimeoutInv, TypeOK
  <2> QED
    BY <1>1, <2>1, <2>2, Zenon DEF TimeoutInv
<1> QED
  BY <1>2, <1>3, <1>4, <1>5, <1>6, <1>7, <1>8, <1>9, Zenon DEF Next

(* The invariant holds in every state of the slow path.                    *)
LEMMA TimeoutInvariant == Spec => []TimeoutInv
<1>1. TimeoutInv /\ [Next]_vars => TimeoutInv'
  BY NextTimeout, Zenon
<1> QED
  BY InitTimeout, <1>1, PTL DEF Spec

(* The lists hold every timer at most once.                                *)
LEMMA ListsInjective ==
  ASSUME TimeoutInv
  PROVE  IsInjective(DuePrefix(Len(timeouts)) \o due)
<1> DEFINE L == Len(timeouts)
           q == DuePrefix(L)
           m == q \o due
<1>1. timeouts \in Seq(Entry) /\ due \in Seq(Timers) /\ Apart(timeouts, due)
  BY Zenon DEF TimeoutInv, TypeOK
<1>2. L \in Nat /\ DOMAIN timeouts = 1..L /\ Len(due) \in Nat /\ DOMAIN due = 1..Len(due)
  BY <1>1
<1>3. ASSUME NEW i \in DOMAIN timeouts PROVE timeouts[i].timer \in Timers
  <2>1. timeouts[i] \in Entry
    BY TimeLeft, Zenon
  <2> QED
    BY <2>1 DEF Entry
<1> HIDE DEF L
<1>4. q \in [1..L -> Timers] /\ \A i \in 1..L : q[i] = timeouts[i].timer
  BY <1>2, <1>3, Zenon DEF DuePrefix
<1> HIDE DEF q
<1>5. q \in Seq(Timers) /\ Len(q) = L
  BY <1>2, <1>4
<1>6. /\ m \in Seq(Timers) /\ Len(m) = Len(q) + Len(due)
      /\ \A i \in 1..(Len(q) + Len(due)) :
           m[i] = IF i <= Len(q) THEN q[i] ELSE due[i - Len(q)]
  BY <1>1, <1>5, Concat, Zenon
<1> HIDE DEF m
<1>7. DOMAIN m = 1..(L + Len(due))
  BY <1>5, <1>6
<1>8. ASSUME NEW i \in DOMAIN m
      PROVE  /\ i \in Int
             /\ \/ i \in DOMAIN timeouts /\ m[i] = timeouts[i].timer
                \/ i - L \in DOMAIN due /\ m[i] = due[i - L]
  <2>1. i \in 1..(L + Len(due))
    BY <1>7, Zenon
  <2>2. i \in Int
    BY <2>1
  <2>3. CASE i <= L
    <3>1. i \in 1..L
      BY <1>2, <2>1, <2>3
    <3> QED
      BY <1>2, <1>4, <1>5, <1>6, <2>1, <2>2, <2>3, <3>1, Zenon
  <2>4. CASE ~(i <= L)
    <3>1. i - L \in 1..Len(due)
      BY <1>2, <2>1, <2>4
    <3> QED
      BY <1>2, <1>5, <1>6, <2>1, <2>2, <2>4, <3>1, Zenon
  <2> QED
    BY <2>3, <2>4, Zenon
<1>9. ASSUME NEW i \in DOMAIN m, NEW j \in DOMAIN m, m[i] = m[j] PROVE i = j
  <2> DEFINE a == i - L
             b == j - L
  <2>1. a = b => i = j
    BY <1>2, <1>8
  <2>2. /\ \/ i \in DOMAIN timeouts /\ m[i] = timeouts[i].timer
           \/ a \in DOMAIN due /\ m[i] = due[a]
        /\ \/ j \in DOMAIN timeouts /\ m[j] = timeouts[j].timer
           \/ b \in DOMAIN due /\ m[j] = due[b]
    BY <1>8, Zenon
  <2> HIDE DEF a, b
  <2>3. CASE i \in DOMAIN timeouts /\ m[i] = timeouts[i].timer
    <3>1. CASE j \in DOMAIN timeouts /\ m[j] = timeouts[j].timer
      BY <1>1, <1>9, <2>3, <3>1, Zenon DEF Apart
    <3>2. CASE b \in DOMAIN due /\ m[j] = due[b]
      <4>1. timeouts[i].timer # due[b]
        BY <1>1, <2>3, <3>2, Zenon DEF Apart
      <4> QED
        BY <1>9, <2>3, <3>2, <4>1, Zenon
    <3> QED
      BY <2>2, <3>1, <3>2, Zenon
  <2>4. CASE a \in DOMAIN due /\ m[i] = due[a]
    <3>1. CASE j \in DOMAIN timeouts /\ m[j] = timeouts[j].timer
      <4>1. timeouts[j].timer # due[a]
        BY <1>1, <2>4, <3>1, Zenon DEF Apart
      <4> QED
        BY <1>9, <2>4, <3>1, <4>1, Zenon
    <3>2. CASE b \in DOMAIN due /\ m[j] = due[b]
      BY <1>1, <1>9, <2>1, <2>4, <3>2, Zenon DEF Apart
    <3> QED
      BY <2>2, <3>1, <3>2, Zenon
  <2> QED
    BY <2>2, <2>3, <2>4, Zenon
<1> QED
  BY <1>9, Zenon DEF IsInjective, m, q, L

(* What the invariant says of the timestamps.                              *)
LEMMA InvFaithful == TimeoutInv => ClockFaithful
<1> SUFFICES ASSUME TimeoutInv PROVE ClockFaithful
  OBVIOUS
<1>1. DOMAIN timeouts = 1..Len(timeouts) /\ Len(timeouts) \in Nat
  BY DEF TimeoutInv, TypeOK
<1>2. NeverForgotten
  <2>1. \A i \in DOMAIN timeouts : -(2 * MaxLag) <= timeouts[i].left
    BY TimeLeft, Zenon
  <2>2. \A i \in DOMAIN timeouts : timeouts[i].left \in Int
    BY TimeLeft, Zenon
  <2>3. MaxLag \in Nat
    BY TimeoutAssumption
  <2>4. \A i \in DOMAIN timeouts : timeouts[i].left >= -(2 * MaxLag)
    BY <2>1, <2>2, <2>3
  <2> QED
    BY <2>4, ListsInjective, Zenon DEF NeverForgotten
<1>3. ASSUME NEW i \in 1..Len(timeouts)
      PROVE  /\ rel_time(now, timeouts[i].ts) = timeouts[i].left
             /\ pc # "top" => rel_time(cur, timeouts[i].ts) = timeouts[i].left + Lag
  BY <1>1, TimeLeft, Zenon
<1>4. ASSUME NEW i \in 1..Len(timeouts), NEW j \in 1..i
      PROVE  timeouts[j].left <= timeouts[i].left
  <2>1. j \in 1..Len(timeouts) /\ (j = i \/ j < i)
    BY <1>1
  <2>2. j < i => timeouts[j].left <= timeouts[i].left
    BY <1>1, <2>1, Zenon DEF TimeoutInv, Sorted
  <2>3. timeouts[i].left \in Int
    BY <1>1, TimeLeft, Zenon
  <2>4. timeouts[i].left <= timeouts[i].left
    BY <2>3
  <2> QED
    BY <2>1, <2>2, <2>4, Zenon
<1>5. TypeOK
  BY Zenon DEF TimeoutInv
<1> QED
  BY <1>2, <1>3, <1>4, <1>5, Zenon DEF ClockFaithful

(* For any timers, timestamp width, delays and iteration time (within      *)
(* TimeoutAssumption): rel_time is the time a pending timer really has     *)
(* left, by the clock and by the cur_ts of the poll, across the            *)
(* wrap-around; the pending list of util/timeout.c is in that order; and   *)
(* no timer is on it twice, on both lists, or left on it for more than two *)
(* iterations.                                                             *)
THEOREM TimeoutClockFaithful == Spec => []ClockFaithful
BY TimeoutInvariant, InvFaithful, PTL

(* move_due_timeouts makes a timer due only when its time has come, in     *)
(* util_timeout_arm and in util_timeout_poll_ts alike.                     *)
THEOREM TimeoutNeverEarly == Spec => NeverEarly
<1>1. ASSUME TimeoutInv, [Next]_vars
      PROVE  \A t \in Due' \ Due : \E i \in DOMAIN timeouts :
               timeouts[i].timer = t /\ timeouts[i].left <= 0
  <2>1. Came(due', due)
    BY <1>1, NextTimeout, Zenon
  <2>2. ASSUME NEW t \in Due', t \notin Due
        PROVE  \E i \in DOMAIN timeouts : timeouts[i].timer = t /\ timeouts[i].left <= 0
    <3>1. PICK k \in DOMAIN due' : t = due'[k]
      BY Zenon DEF Due, Range
    <3>2. ~\E j \in DOMAIN due : due'[k] = due[j]
      BY <2>2, <3>1, Zenon DEF Due, Range
    <3> QED
      BY <2>1, <3>1, <3>2, Zenon DEF Came
  <2> QED
    BY <2>2, Zenon
<1>2. TimeoutInv /\ [Next]_vars =>
        [\A t \in Due' \ Due : \E i \in DOMAIN timeouts :
           timeouts[i].timer = t /\ timeouts[i].left <= 0]_vars
  BY <1>1, Zenon
<1> QED
  BY TimeoutInvariant, <1>2, PTL DEF Spec, NeverEarly
=============================================================================
