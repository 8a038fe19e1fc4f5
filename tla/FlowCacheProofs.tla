--------------------------- MODULE FlowCacheProofs ---------------------------
(***************************************************************************)
(* Proofs about FlowCache, for any number of contexts, entries, CLS slots  *)
(* and flows: LatestFound and OwnState.                                    *)
(***************************************************************************)
EXTENDS FlowCache, TLAPS

Slots == 0..(NumSlots - 1)
Tags == Flows \cup {NoTag(e) : e \in Entries}
Copies == [flow : Flows \cup {None}, latest : BOOLEAN]
Latest(f) == Copy(f, TRUE)
Busy(c) == job[c].pc # "idle"
Cached(f) == \E e \in Entries : cam[e].tag = f

Types ==
  /\ cam \in [Entries -> [tag : Tags, locked : BOOLEAN]]
  /\ lru \in [1..NumEntries -> Entries]
  /\ lm \in [Entries -> Copies]
  /\ status \in [Slots -> Tags \cup {None}]
  /\ cls \in [Slots -> Copies]
  /\ emem \in [Flows -> Copies]
  /\ lockq \in [Entries -> Seq(Ctx)]
  /\ job \in [Ctx -> [pc : {"idle", "fetch", "lock", "retry", "ready"},
                      flow : Flows \cup {None}, entry : Entries, fs : Copies]]
  /\ turn \in Ctx

(* Turns taken since context c took its last work, its own included.       *)
Age(c) == IF c < turn THEN turn - c ELSE turn - c + NumCtx

(* Every entry is in lru once.  The entry a busy context took Age(c) turns *)
(* ago has at most that many entries from it to the end.                   *)
Order ==
  /\ \A i, j \in 1..NumEntries : lru[i] = lru[j] => i = j
  /\ \A e \in Entries : \E i \in 1..NumEntries : lru[i] = e
  /\ \A c \in Ctx : Busy(c) =>
       \E i \in 1..NumEntries : lru[i] = job[c].entry /\ i > NumEntries - Age(c)

(* No two entries have the same tag; a busy context's entry has the tag of *)
(* its flow.                                                               *)
Pinned ==
  /\ \A d, e \in Entries : cam[d].tag = cam[e].tag => d = e
  /\ \A c \in Ctx : Busy(c) =>
       job[c].flow \in Flows /\ cam[job[c].entry].tag = job[c].flow

(* An entry is locked while exactly one context fetches its state, and     *)
(* that context holds the lock of the entry.                               *)
Locking ==
  /\ \A e \in Entries : cam[e].locked =>
       \E c \in Ctx : job[c].pc = "fetch" /\ job[c].entry = e
  /\ \A c \in Ctx : job[c].pc = "fetch" =>
       /\ cam[job[c].entry].locked
       /\ lockq[job[c].entry] # <<>> /\ Head(lockq[job[c].entry]) = c
  /\ \A c \in Ctx : job[c].pc = "lock" =>
       \E i \in DOMAIN lockq[job[c].entry] : lockq[job[c].entry][i] = c
  /\ \A c \in Ctx : job[c].pc = "ready" => ~cam[job[c].entry].locked
  /\ \A e \in Entries : \A i \in DOMAIN lockq[e] :
       /\ job[lockq[e][i]].pc \in {"fetch", "lock"} /\ job[lockq[e][i]].entry = e
       /\ \A j \in DOMAIN lockq[e] : lockq[e][i] = lockq[e][j] => i = j
  /\ \A e \in Entries : Len(lockq[e]) <= LockCap

(* Where the latest state of a flow is.  A tag with a CLS slot is not in   *)
(* the CAM.                                                                *)
Places ==
  /\ \A s \in Slots : status[s] # None =>
       Slot(status[s]) = s /\ \A e \in Entries : cam[e].tag # status[s]
  /\ \A e \in Entries : cam[e].tag \in Flows /\ ~cam[e].locked =>
       lm[e] = Latest(cam[e].tag)
  /\ \A c \in Ctx : job[c].pc = "fetch" => job[c].fs = Latest(job[c].flow)
  /\ \A f \in Flows : ~Cached(f) =>
       IF status[Slot(f)] = f THEN cls[Slot(f)] = Latest(f) ELSE emem[f] = Latest(f)

CacheInv == Types /\ Order /\ Pinned /\ Locking /\ Places

-----------------------------------------------------------------------------
(* Numbers, tags and turns.                                                *)

LEMMA CacheNat ==
  /\ NumCtx \in Nat /\ NumCtx > 0 /\ NumEntries \in Nat /\ NumEntries > 0
  /\ NumSlots \in Nat /\ NumSlots > 0 /\ NumFlows \in Nat /\ NumFlows > 0
  /\ LockCap \in Nat /\ LockCap > 0
  /\ NumCtx <= NumEntries
  BY FlowCacheAssumption

(* The tags of init_lm_cache are not flows, and differ.                    *)
LEMMA NoTagApart ==
  ASSUME NEW e \in Entries
  PROVE  /\ NoTag(e) \in Nat /\ NoTag(e) > NumFlows
         /\ \A d \in Entries : NoTag(d) = NoTag(e) => d = e
  <1> DEFINE m == NumFlows + NumEntries + 1
             p == NumSlots * m
  <1>1. /\ NumSlots \in Nat /\ NumSlots >= 1 /\ m \in Nat /\ e \in Nat /\ e < NumEntries
        /\ NumFlows \in Nat /\ NumEntries \in Nat
    BY CacheNat DEF Entries
  <1>2. p \in Nat /\ p >= m
    <2>1. \A a, b \in Nat : a >= 1 => a * b \in Nat /\ a * b >= b  OBVIOUS
    <2> HIDE DEF m
    <2> QED  BY <1>1, <2>1, Zenon
  <1>3. NoTag(e) = p - 1 - e /\ \A d \in Entries : NoTag(d) = p - 1 - d
    BY Zenon DEF NoTag
  <1> HIDE DEF p
  <1>4. \A d \in Entries : d \in Int  BY CacheNat DEF Entries
  <1> QED  BY <1>1, <1>2, <1>3, <1>4

LEMMA TagNat ==
  /\ Tags \subseteq Nat /\ None \notin Tags /\ Flows \subseteq Tags
  /\ \A t \in Tags : Slot(t) \in Slots
  <1>1. \A f \in Flows : f \in Nat /\ f # None  BY CacheNat DEF Flows, None
  <1>2. \A e \in Entries : NoTag(e) \in Nat /\ NoTag(e) # None
    BY CacheNat, NoTagApart DEF None
  <1>3. \A t \in Nat : t % NumSlots \in 0..(NumSlots - 1)  BY CacheNat
  <1> QED  BY <1>1, <1>2, <1>3, Zenon DEF Tags, Slot, Slots

(* The LRU order after a use of entry e.                                   *)
LEMMA UsedOrder ==
  ASSUME Types, Order, NEW e \in Entries
  PROVE  /\ Used(e) \in [1..NumEntries -> Entries]
         /\ \A i, j \in 1..NumEntries : Used(e)[i] = Used(e)[j] => i = j
         /\ Used(e)[NumEntries] = e
         /\ \A i \in 1..NumEntries : lru[i] # e =>
              \E j \in 1..NumEntries : Used(e)[j] = lru[i] /\ j >= i - 1
  <1> DEFINE k == CHOOSE i \in DOMAIN lru : lru[i] = e
             a == SubSeq(lru, 1, k - 1)
             b == SubSeq(lru, k + 1, Len(lru))
             n == NumEntries
  <1>1. /\ n \in Nat /\ n > 0 /\ lru \in Seq(Entries) /\ Len(lru) = n
        /\ DOMAIN lru = 1..n
    BY CacheNat DEF Types
  <1>2. k \in 1..n /\ lru[k] = e
    BY <1>1, Zenon DEF Order
  <1>3. Used(e) = Append(a \o b, e)  BY Zenon DEF Used
  <1> HIDE DEF k
  <1>4. a \in Seq(Entries) /\ Len(a) = k - 1 /\ \A i \in 1..(k - 1) : a[i] = lru[i]
    <2>1. CASE k = 1  BY <1>1, <2>1
    <2>2. CASE k > 1  BY <1>1, <1>2, <2>2
    <2> QED  BY <1>2, <2>1, <2>2
  <1>5. b \in Seq(Entries) /\ Len(b) = n - k /\ \A i \in 1..(n - k) : b[i] = lru[k + i]
    <2>1. CASE k = n  BY <1>1, <2>1
    <2>2. CASE k < n  BY <1>1, <1>2, <2>2
    <2> QED  BY <1>1, <1>2, <2>1, <2>2
  <1> HIDE DEF a, b
  <1>6. /\ a \o b \in Seq(Entries) /\ Len(a \o b) = n - 1
        /\ \A i \in 1..(n - 1) : (a \o b)[i] = IF i < k THEN lru[i] ELSE lru[i + 1]
    <2>0. /\ a \o b \in Seq(Entries) /\ Len(a \o b) = Len(a) + Len(b)
          /\ \A i \in 1..(Len(a) + Len(b)) :
               (a \o b)[i] = IF i <= Len(a) THEN a[i] ELSE b[i - Len(a)]
      BY <1>4, <1>5
    <2>1. /\ a \o b \in Seq(Entries) /\ Len(a \o b) = (k - 1) + (n - k)
          /\ \A i \in 1..(k - 1) + (n - k) :
               (a \o b)[i] = IF i <= k - 1 THEN a[i] ELSE b[i - (k - 1)]
      BY <1>4, <1>5, <2>0, Zenon
    <2>2. (k - 1) + (n - k) = n - 1  BY <1>1, <1>2
    <2>3. ASSUME NEW i \in 1..(n - 1)
          PROVE  (a \o b)[i] = IF i < k THEN lru[i] ELSE lru[i + 1]
      <3>1. CASE i < k
        <4>1. i \in 1..(k - 1)  BY <1>1, <1>2, <3>1
        <4> QED  BY <1>4, <2>1, <2>2, <3>1, <4>1
      <3>2. CASE ~(i < k)
        <4>1. i - (k - 1) \in 1..(n - k) /\ k + (i - (k - 1)) = i + 1 /\ ~(i <= k - 1)
          BY <1>1, <1>2, <3>2
        <4> QED  BY <1>5, <2>1, <2>2, <3>2, <4>1, Zenon
      <3> QED  BY <3>1, <3>2, Zenon
    <2> QED  BY <2>1, <2>2, <2>3, Zenon
  <1>7. /\ Used(e) \in Seq(Entries) /\ Len(Used(e)) = n
        /\ Used(e)[n] = e
        /\ \A i \in 1..(n - 1) : Used(e)[i] = IF i < k THEN lru[i] ELSE lru[i + 1]
    <2> DEFINE ab == a \o b
    <2> HIDE DEF ab
    <2>1. /\ ab \in Seq(Entries) /\ Len(ab) = n - 1
          /\ \A i \in 1..(n - 1) : ab[i] = IF i < k THEN lru[i] ELSE lru[i + 1]
      BY <1>6, Zenon DEF ab
    <2>2. /\ Append(ab, e) \in Seq(Entries) /\ Len(Append(ab, e)) = n
          /\ Append(ab, e)[n] = e
          /\ \A i \in 1..(n - 1) : Append(ab, e)[i] = ab[i]
      BY <1>1, <2>1
    <2> QED  BY <1>3, <2>1, <2>2, Zenon DEF ab
  <1>8. Used(e) \in [1..n -> Entries]  BY <1>1, <1>7
  <1> DEFINE u == Used(e)
  <1> HIDE DEF u
  <1>9. /\ u[n] = e /\ \A i \in 1..(n - 1) : u[i] = IF i < k THEN lru[i] ELSE lru[i + 1]
    BY <1>7, Zenon DEF u
  <1>10. ASSUME NEW i \in 1..n, NEW j \in 1..n, i < j, u[i] = u[j] PROVE FALSE
    <2>1. i \in 1..(n - 1) /\ i + 1 \in 1..n  BY <1>1, <1>10
    <2>2. \A x, y \in 1..n : lru[x] = lru[y] => x = y  BY Zenon DEF Order
    <2>3. CASE j = n
      <3>1. u[i] = lru[k]  BY <1>2, <1>9, <1>10, <2>3, Zenon
      <3>2. CASE i < k  BY <1>2, <1>9, <2>1, <2>2, <3>1, <3>2
      <3>3. CASE ~(i < k)  BY <1>2, <1>9, <2>1, <2>2, <3>1, <3>3
      <3> QED  BY <3>2, <3>3, Zenon
    <2>4. CASE j # n
      <3>1. j \in 1..(n - 1) /\ j + 1 \in 1..n  BY <1>1, <2>4
      <3>2. u[j] = IF j < k THEN lru[j] ELSE lru[j + 1]  BY <1>9, <3>1, Zenon
      <3>3. u[i] = IF i < k THEN lru[i] ELSE lru[i + 1]  BY <1>9, <2>1, Zenon
      <3> QED  BY <1>1, <1>2, <1>10, <2>1, <2>2, <3>1, <3>2, <3>3
    <2> QED  BY <2>3, <2>4, Zenon
  <1>11. \A i, j \in 1..n : u[i] = u[j] => i = j
    BY <1>1, <1>10
  <1>12. ASSUME NEW i \in 1..n, lru[i] # e
         PROVE  \E j \in 1..n : u[j] = lru[i] /\ j >= i - 1
    <2>1. i # k  BY <1>2, <1>12, Zenon
    <2>2. CASE i < k
      <3>1. i \in 1..(n - 1)  BY <1>1, <1>2, <2>2
      <3> QED  BY <1>1, <1>9, <2>2, <3>1
    <2>3. CASE i > k
      <3>1. i - 1 \in 1..(n - 1) /\ ~(i - 1 < k) /\ (i - 1) + 1 = i /\ i - 1 \in 1..n
        BY <1>1, <1>2, <2>3
      <3>2. u[i - 1] = lru[i]  BY <1>9, <3>1, Zenon
      <3> QED  BY <3>1, <3>2
    <2> QED  BY <1>1, <1>2, <2>1, <2>2, <2>3
  <1> QED  BY <1>8, <1>9, <1>11, <1>12, Zenon DEF u

(* The turn moves on by one context.                                       *)
LEMMA AgeGrows ==
  ASSUME NEW c \in Ctx, turn = c, turn' = (turn + 1) % NumCtx
  PROVE  /\ turn' \in Ctx /\ Age(c)' = 1
         /\ \A d \in Ctx : d # c =>
              Age(d)' = Age(d) + 1 /\ Age(d) < NumCtx /\ Age(d) \in Nat
  <1>1. NumCtx \in Nat /\ NumCtx > 0 /\ turn \in Nat /\ turn < NumCtx
    BY CacheNat DEF Ctx
  <1>2. turn' = IF turn = NumCtx - 1 THEN 0 ELSE turn + 1
    BY <1>1
  <1> QED  BY <1>1, <1>2 DEF Age, Ctx

(* A context takes work in its turn and uses entry e.                      *)
LEMMA OrderTake ==
  ASSUME Types, Order, NEW c \in Ctx, turn = c, ~Busy(c),
         turn' = (turn + 1) % NumCtx, NEW e \in Entries, lru' = Used(e),
         job'[c].entry = e, \A d \in Ctx : d # c => job'[d] = job[d]
  PROVE  Order'
  <1>1. NumEntries \in Nat /\ NumEntries > 0 /\ NumCtx \in Nat  BY CacheNat, Zenon
  <1>2. \A i, j \in 1..NumEntries : lru'[i] = lru'[j] => i = j  BY UsedOrder
  <1>3. lru'[NumEntries] = e  BY UsedOrder, Zenon
  <1>4. ASSUME NEW x \in Entries, NEW i \in 1..NumEntries, lru[i] = x, x # e
        PROVE  \E j \in 1..NumEntries : lru'[j] = x /\ j >= i - 1
    BY <1>4, UsedOrder, Zenon
  <1>5. ASSUME NEW x \in Entries PROVE \E i \in 1..NumEntries : lru'[i] = x
    <2>1. CASE x = e  BY <1>1, <1>3, <2>1
    <2>2. CASE x # e  BY <1>4, <2>2 DEF Order
    <2> QED  BY <2>1, <2>2, Zenon
  <1>6. ASSUME NEW d \in Ctx, Busy(d)'
        PROVE  \E i \in 1..NumEntries : lru'[i] = job'[d].entry /\ i > NumEntries - Age(d)'
    <2>1. CASE d = c
      <3>1. Age(d)' = 1  BY <2>1, AgeGrows, Zenon
      <3> QED  BY <1>1, <1>3, <2>1, <3>1
    <2>2. CASE d # c
      <3>1. Age(d)' = Age(d) + 1 /\ Age(d) \in Nat  BY <2>2, AgeGrows, Zenon
      <3>2. job'[d] = job[d] /\ Busy(d)  BY <1>6, <2>2, Zenon DEF Busy
      <3>3. PICK i \in 1..NumEntries : lru[i] = job[d].entry /\ i > NumEntries - Age(d)
        BY <3>2, Zenon DEF Order
      <3>4. CASE job[d].entry = e
        <4>1. NumEntries > NumEntries - Age(d)'  BY <1>1, <3>1
        <4> QED  BY <1>1, <1>3, <3>2, <3>4, <4>1
      <3>5. CASE job[d].entry # e
        <4>1. job[d].entry \in Entries  BY Zenon DEF Types
        <4>2. PICK j \in 1..NumEntries : lru'[j] = job[d].entry /\ j >= i - 1
          BY <1>4, <3>3, <3>5, <4>1, Zenon
        <4>3. j > NumEntries - Age(d)'  BY <1>1, <3>1, <3>3, <4>2
        <4> QED  BY <3>2, <4>2, <4>3, Zenon
      <3> QED  BY <3>4, <3>5, Zenon
    <2> QED  BY <2>1, <2>2, Zenon
  <1> QED  BY <1>2, <1>5, <1>6, Zenon DEF Order

(* No other step changes the order.                                        *)
LEMMA OrderKept ==
  ASSUME Order, UNCHANGED <<lru, turn>>,
         \A d \in Ctx : Busy(d)' => Busy(d) /\ job'[d].entry = job[d].entry
  PROVE  Order'
  BY Zenon DEF Order, Age

(* The entry handle_miss takes: used least recently, and by no context     *)
(* that is still busy, because a context has to be idle to get its turn.   *)
LEMMA HeadFree ==
  ASSUME CacheInv, NEW c \in Ctx, turn = c, ~Busy(c)
  PROVE  /\ Head(lru) \in Entries
         /\ \A d \in Ctx : Busy(d) => job[d].entry # Head(lru)
         /\ ~cam[Head(lru)].locked /\ lockq[Head(lru)] = <<>>
  <1> USE DEF CacheInv
  <1>1. NumEntries \in Nat /\ NumEntries > 0 /\ NumCtx \in Nat /\ NumCtx <= NumEntries
    BY CacheNat, Zenon
  <1>2. Head(lru) = lru[1] /\ lru[1] \in Entries  BY <1>1 DEF Types
  <1>3. ASSUME NEW d \in Ctx, Busy(d), job[d].entry = lru[1] PROVE FALSE
    <2>1. d # c  BY <1>3, Zenon
    <2>2. Age(d) < NumCtx /\ Age(d) \in Nat
      BY <1>1, <2>1 DEF Age, Ctx
    <2>3. PICK i \in 1..NumEntries : lru[i] = job[d].entry /\ i > NumEntries - Age(d)
      BY <1>3, Zenon DEF Order
    <2>4. i = 1  BY <1>1, <1>3, <2>3 DEF Order
    <2> QED  BY <1>1, <2>2, <2>3, <2>4
  <1>4. ~cam[lru[1]].locked  BY <1>2, <1>3 DEF Locking, Busy
  <1>5. lockq[lru[1]] = <<>>
    <2>1. SUFFICES ASSUME lockq[lru[1]] # <<>> PROVE FALSE  BY Zenon
    <2>2. lockq[lru[1]] \in Seq(Ctx)  BY <1>2, Zenon DEF Types
    <2>3. 1 \in DOMAIN lockq[lru[1]] /\ lockq[lru[1]][1] \in Ctx  BY <2>1, <2>2
    <2>4. Busy(lockq[lru[1]][1]) /\ job[lockq[lru[1]][1]].entry = lru[1]
      BY <1>2, <2>3 DEF Locking, Busy
    <2> QED  BY <1>3, <2>3, <2>4, Zenon
  <1> QED  BY <1>2, <1>3, <1>4, <1>5, Zenon

-----------------------------------------------------------------------------
(* A lookup that hits.                                                     *)

Jobs == [pc : {"idle", "fetch", "lock", "retry", "ready"},
         flow : Flows \cup {None}, entry : Entries, fs : Copies]

LEMMA CopyTypes ==
  /\ Garbage \in Copies
  /\ \A f \in Flows : Latest(f) \in Copies
  /\ \A f \in Flows, v \in Copies : Aged(v, f) \in Copies
  BY Zenon DEF Copies, Garbage, Latest, Copy, Aged, None

LEMMA HitReady ==
  ASSUME CacheInv, NEW c \in Ctx, NEW f \in Flows, NEW e \in Entries,
         turn = c, ~Busy(c), turn' = (turn + 1) % NumCtx, lru' = Used(e),
         cam[e].tag = f, ~cam[e].locked,
         job' = [job EXCEPT ![c] = [pc |-> "ready", flow |-> f, entry |-> e,
                                    fs |-> Garbage]],
         UNCHANGED <<cam, lm, status, cls, emem, lockq>>
  PROVE  CacheInv'
  <1> USE DEF CacheInv
  <1>1. /\ job'[c].pc = "ready" /\ job'[c].flow = f /\ job'[c].entry = e
        /\ \A d \in Ctx : d # c => job'[d] = job[d]
    BY Zenon DEF Types
  <1>2. Types'
    BY UsedOrder, AgeGrows, CopyTypes DEF Types
  <1>3. Order'  BY <1>1, OrderTake, Zenon
  <1>4. Pinned'  BY <1>1 DEF Pinned, Busy
  <1>5. Locking'
    <2>1. \A d \in Ctx : job'[d].pc = "fetch" => d # c  BY <1>1, Zenon
    <2>2. \A d \in Ctx : job[d].pc \in {"fetch", "lock"} => d # c  BY Zenon DEF Busy
    <2>3. \A x \in Entries : \A i \in DOMAIN lockq[x] : lockq[x][i] \in Ctx
      BY DEF Types
    <2>4. \A x \in Entries : \A i \in DOMAIN lockq[x] :
            job'[lockq[x][i]] = job[lockq[x][i]]
      BY <1>1, <2>2, <2>3 DEF Locking
    <2> QED  BY <1>1, <2>1, <2>2, <2>4 DEF Locking
  <1>6. Places'  BY <1>1 DEF Places, Cached
  <1> QED  BY <1>2, <1>3, <1>4, <1>5, <1>6, Zenon

-----------------------------------------------------------------------------
(* The lock queues.                                                        *)

LEMMA Enqueue ==
  ASSUME NEW q \in Seq(Ctx), NEW c \in Ctx
  PROVE  /\ Append(q, c) \in Seq(Ctx) /\ Len(Append(q, c)) = Len(q) + 1
         /\ Append(q, c) # <<>> /\ Head(Append(q, c)) = IF q = <<>> THEN c ELSE Head(q)
         /\ Append(q, c)[Len(q) + 1] = c
         /\ \A i \in DOMAIN Append(q, c) :
              \/ i \in DOMAIN q /\ Append(q, c)[i] = q[i]
              \/ i = Len(q) + 1
         /\ \A i \in DOMAIN q : i \in DOMAIN Append(q, c) /\ Append(q, c)[i] = q[i]
         /\ Len(q) + 1 \in DOMAIN Append(q, c)
  <1>1. /\ Append(q, c) \in Seq(Ctx) /\ Len(Append(q, c)) = Len(q) + 1
        /\ Append(q, c)[Len(q) + 1] = c
        /\ \A i \in 1..Len(q) : Append(q, c)[i] = q[i]
        /\ DOMAIN q = 1..Len(q) /\ DOMAIN Append(q, c) = 1..(Len(q) + 1)
        /\ Len(q) \in Nat
    OBVIOUS
  <1>2. Head(Append(q, c)) = Append(q, c)[1]  BY <1>1
  <1>3. q # <<>> => Head(q) = q[1] /\ 1 \in 1..Len(q)  BY <1>1
  <1>4. q = <<>> => Len(q) = 0  OBVIOUS
  <1>5. Head(Append(q, c)) = IF q = <<>> THEN c ELSE Head(q)
    BY <1>1, <1>2, <1>3, <1>4
  <1>6. Append(q, c) # <<>>  BY <1>1
  <1> QED  BY <1>1, <1>5, <1>6

LEMMA Dequeue ==
  ASSUME NEW q \in Seq(Ctx), q # <<>>
  PROVE  /\ Tail(q) \in Seq(Ctx) /\ Len(Tail(q)) = Len(q) - 1
         /\ Head(q) = q[1] /\ 1 \in DOMAIN q
         /\ \A i \in DOMAIN Tail(q) :
              i + 1 \in DOMAIN q /\ Tail(q)[i] = q[i + 1] /\ i + 1 # 1 /\ i \in Nat
         /\ \A i \in DOMAIN q : i # 1 => i - 1 \in DOMAIN Tail(q) /\ Tail(q)[i - 1] = q[i]
  <1>1. /\ Tail(q) \in Seq(Ctx) /\ Len(Tail(q)) = Len(q) - 1
        /\ \A i \in 1..(Len(q) - 1) : Tail(q)[i] = q[i + 1]
        /\ Head(q) = q[1] /\ Len(q) \in Nat /\ Len(q) > 0
        /\ DOMAIN q = 1..Len(q) /\ DOMAIN Tail(q) = 1..(Len(q) - 1)
    OBVIOUS
  <1> QED  BY <1>1

(* cls_lockq_lock_retry by a context that holds no place in any queue.     *)
LEMMA TryLockKeeps ==
  ASSUME CacheInv, NEW c \in Ctx, NEW f \in Flows, NEW e \in Entries,
         cam[e].tag = f, job[c].pc \in {"idle", "retry"}, TryLock(c, f, e),
         UNCHANGED <<cam, lm, status, cls, emem>>
  PROVE  /\ Pinned' /\ Locking' /\ Places'
         /\ job' \in [Ctx -> Jobs] /\ lockq' \in [Entries -> Seq(Ctx)]
         /\ job'[c].entry = e /\ \A d \in Ctx : d # c => job'[d] = job[d]
  <1> USE DEF CacheInv
  <1> DEFINE q == lockq[e]
  <1>0. q \in Seq(Ctx) /\ Len(q) \in Nat /\ LockCap \in Nat  BY CacheNat DEF Types
  <1>1. /\ job'[c].pc \in {"lock", "retry"} /\ job'[c].flow = f /\ job'[c].entry = e
        /\ \A d \in Ctx : d # c => job'[d] = job[d]
        /\ job' \in [Ctx -> Jobs]
    BY CopyTypes, Zenon DEF TryLock, Types, Jobs
  <1>2. \A x \in Entries : \A i \in DOMAIN lockq[x] :
          /\ lockq[x][i] \in Ctx /\ lockq[x][i] # c
          /\ job'[lockq[x][i]] = job[lockq[x][i]]
    <2>1. \A x \in Entries : \A i \in DOMAIN lockq[x] : lockq[x][i] \in Ctx
      BY DEF Types
    <2> QED  BY <1>1, <2>1 DEF Locking
  <1>3. Pinned'  BY <1>1, Zenon DEF Pinned, Busy
  <1>4. Places'  BY <1>1 DEF Places, Cached
  <1>5. CASE Len(q) < LockCap
    <2> DEFINE r == Append(q, c)
    <2>1. /\ job'[c].pc = "lock"
          /\ lockq' = [lockq EXCEPT ![e] = r]
      BY <1>5, Zenon DEF TryLock, Types
    <2>2. /\ lockq'[e] = r /\ \A x \in Entries : x # e => lockq'[x] = lockq[x]
      BY <2>1, Zenon DEF Types
    <2>3. /\ r \in Seq(Ctx) /\ Len(r) = Len(q) + 1
          /\ r # <<>> /\ Head(r) = IF q = <<>> THEN c ELSE Head(q)
          /\ r[Len(q) + 1] = c
          /\ \A i \in DOMAIN r : (i \in DOMAIN q /\ r[i] = q[i]) \/ i = Len(q) + 1
          /\ \A i \in DOMAIN q : i \in DOMAIN r /\ r[i] = q[i]
          /\ Len(q) + 1 \in DOMAIN r
      BY <1>0, Enqueue, Zenon
    <2>4. lockq' \in [Entries -> Seq(Ctx)]  BY <2>1, <2>3, Zenon DEF Types
    <2> HIDE DEF r
    <2>5. \A x \in Entries : cam'[x].locked =>
            \E d \in Ctx : job'[d].pc = "fetch" /\ job'[d].entry = x
      BY <1>1 DEF Locking
    <2>6. ASSUME NEW d \in Ctx, job'[d].pc = "fetch"
          PROVE  /\ cam'[job'[d].entry].locked
                 /\ lockq'[job'[d].entry] # <<>> /\ Head(lockq'[job'[d].entry]) = d
      <3>1. d # c /\ job'[d] = job[d] /\ job[d].entry \in Entries
        BY <1>1, <2>1, <2>6, Zenon DEF Types
      <3>2. /\ cam[job[d].entry].locked
            /\ lockq[job[d].entry] # <<>> /\ Head(lockq[job[d].entry]) = d
        BY <2>6, <3>1 DEF Locking
      <3> QED  BY <2>2, <2>3, <3>1, <3>2
    <2>7. ASSUME NEW d \in Ctx, job'[d].pc = "lock"
          PROVE  \E i \in DOMAIN lockq'[job'[d].entry] : lockq'[job'[d].entry][i] = d
      <3>1. CASE d = c  BY <1>1, <2>2, <2>3, <3>1, Zenon
      <3>2. CASE d # c
        <4>1. job'[d] = job[d] /\ job[d].entry \in Entries /\ job[d].pc = "lock"
          BY <1>1, <2>7, <3>2, Zenon DEF Types
        <4>2. PICK i \in DOMAIN lockq[job[d].entry] : lockq[job[d].entry][i] = d
          BY <4>1, Zenon DEF Locking
        <4> QED  BY <2>2, <2>3, <4>1, <4>2
      <3> QED  BY <3>1, <3>2, Zenon
    <2>8. ASSUME NEW d \in Ctx, job'[d].pc = "ready" PROVE ~cam'[job'[d].entry].locked
      BY <1>1, <2>1, <2>8 DEF Locking
    <2>9. ASSUME NEW x \in Entries, NEW i \in DOMAIN lockq'[x]
          PROVE  /\ job'[lockq'[x][i]].pc \in {"fetch", "lock"}
                 /\ job'[lockq'[x][i]].entry = x
                 /\ \A j \in DOMAIN lockq'[x] : lockq'[x][i] = lockq'[x][j] => i = j
      <3>1. CASE x # e  BY <1>2, <2>2, <2>9, <3>1 DEF Locking
      <3>2. CASE x = e
        <4>1. lockq'[x] = r  BY <2>2, <3>2, Zenon
        <4>2. \A j \in DOMAIN q : /\ q[j] # c /\ job'[q[j]].pc \in {"fetch", "lock"}
                                  /\ job'[q[j]].entry = e
                                  /\ \A k \in DOMAIN q : q[j] = q[k] => j = k
          BY <1>2 DEF Locking
        <4>3. i \in DOMAIN r  BY <2>9, <4>1, Zenon
        <4> QED  BY <1>1, <2>1, <2>3, <3>2, <4>1, <4>2, <4>3
      <3> QED  BY <3>1, <3>2, Zenon
    <2>10. ASSUME NEW x \in Entries PROVE Len(lockq'[x]) <= LockCap
      BY <1>0, <1>5, <2>2, <2>3 DEF Locking
    <2>11. Locking'  BY <2>5, <2>6, <2>7, <2>8, <2>9, <2>10 DEF Locking
    <2> QED  BY <1>1, <1>3, <1>4, <2>4, <2>11, Zenon
  <1>6. CASE ~(Len(q) < LockCap)
    <2>1. job'[c].pc = "retry" /\ lockq' = lockq  BY <1>6, Zenon DEF TryLock, Types
    <2>2. Locking'  BY <1>1, <1>2, <2>1 DEF Locking
    <2> QED  BY <1>1, <1>3, <1>4, <2>1, <2>2, Zenon DEF Types
  <1> QED  BY <1>5, <1>6, Zenon

LEMMA HitLocked ==
  ASSUME CacheInv, NEW c \in Ctx, NEW f \in Flows, NEW e \in Entries,
         turn = c, ~Busy(c), turn' = (turn + 1) % NumCtx, lru' = Used(e),
         cam[e].tag = f, TryLock(c, f, e),
         UNCHANGED <<cam, lm, status, cls, emem>>
  PROVE  CacheInv'
  <1> USE DEF CacheInv
  <1>1. job[c].pc \in {"idle", "retry"}  BY Zenon DEF Busy
  <1>2. /\ Pinned' /\ Locking' /\ Places'
        /\ job' \in [Ctx -> Jobs] /\ lockq' \in [Entries -> Seq(Ctx)]
        /\ job'[c].entry = e /\ \A d \in Ctx : d # c => job'[d] = job[d]
    BY <1>1, TryLockKeeps, Zenon
  <1>3. Order'  BY <1>2, OrderTake, Zenon
  <1>4. Types'  BY <1>2, UsedOrder, AgeGrows, Zenon DEF Types, Jobs
  <1> QED  BY <1>2, <1>3, <1>4, Zenon

LEMMA RetryKeeps ==
  ASSUME CacheInv, NEW c \in Ctx, Retry(c)
  PROVE  CacheInv'
  <1> USE DEF CacheInv
  <1> DEFINE f == job[c].flow  e == job[c].entry
  <1>1. /\ job[c].pc = "retry" /\ TryLock(c, f, e)
        /\ UNCHANGED <<cam, lru, lm, status, cls, emem, turn>>
    BY Zenon DEF Retry
  <1>2. Busy(c) /\ e \in Entries /\ f \in Flows /\ cam[e].tag = f
    BY <1>1, Zenon DEF Busy, Types, Pinned
  <1> HIDE DEF f
  <1>3. /\ Pinned' /\ Locking' /\ Places'
        /\ job' \in [Ctx -> Jobs] /\ lockq' \in [Entries -> Seq(Ctx)]
        /\ job'[c].entry = e /\ \A d \in Ctx : d # c => job'[d] = job[d]
    BY <1>1, <1>2, TryLockKeeps, Zenon
  <1>4. \A d \in Ctx : Busy(d)' => Busy(d) /\ job'[d].entry = job[d].entry
    BY <1>2, <1>3, Zenon DEF Busy
  <1>5. Order'  BY <1>1, <1>4, OrderKept, Zenon
  <1>6. Types'  BY <1>1, <1>3, Zenon DEF Types, Jobs
  <1> QED  BY <1>3, <1>5, <1>6, Zenon

(* The holder of an entry's lock leaves the queue and becomes ready.       *)
LEMMA Unqueue ==
  ASSUME CacheInv, NEW c \in Ctx, job[c].pc \in {"fetch", "lock"},
         NEW e, e = job[c].entry, Head(lockq[e]) = c,
         lockq' = [lockq EXCEPT ![e] = Tail(@)],
         job' \in [Ctx -> Jobs], job'[c].pc = "ready", job'[c].entry = e,
         \A d \in Ctx : d # c => job'[d] = job[d]
  PROVE  /\ lockq' \in [Entries -> Seq(Ctx)]
         /\ \A d \in Ctx : job'[d].pc = "fetch" =>
              /\ job'[d].entry # e
              /\ lockq'[job'[d].entry] # <<>> /\ Head(lockq'[job'[d].entry]) = d
         /\ \A d \in Ctx : job'[d].pc = "lock" =>
              \E i \in DOMAIN lockq'[job'[d].entry] : lockq'[job'[d].entry][i] = d
         /\ \A x \in Entries : \A i \in DOMAIN lockq'[x] :
              /\ job'[lockq'[x][i]].pc \in {"fetch", "lock"}
              /\ job'[lockq'[x][i]].entry = x
              /\ \A j \in DOMAIN lockq'[x] : lockq'[x][i] = lockq'[x][j] => i = j
         /\ \A x \in Entries : Len(lockq'[x]) <= LockCap
  <1> USE DEF CacheInv
  <1> DEFINE q == lockq[e]  r == Tail(q)
  <1>0. e \in Entries /\ q \in Seq(Ctx) /\ LockCap \in Nat  BY CacheNat, Zenon DEF Types
  <1>1. q # <<>>
    <2>1. CASE job[c].pc = "fetch"  BY <2>1 DEF Locking
    <2>2. CASE job[c].pc = "lock"
      <3>1. \E i \in DOMAIN q : q[i] = c  BY <2>2 DEF Locking
      <3> QED  BY <1>0, <3>1
    <2> QED  BY <2>1, <2>2, Zenon
  <1>2. /\ r \in Seq(Ctx) /\ Len(r) = Len(q) - 1
        /\ Head(q) = q[1] /\ 1 \in DOMAIN q
        /\ \A i \in DOMAIN r : i + 1 \in DOMAIN q /\ r[i] = q[i + 1] /\ i + 1 # 1 /\ i \in Nat
        /\ \A i \in DOMAIN q : i # 1 => i - 1 \in DOMAIN r /\ r[i - 1] = q[i]
    BY <1>0, <1>1, Dequeue, Zenon
  <1>3. lockq'[e] = r /\ \A x \in Entries : x # e => lockq'[x] = lockq[x]
    BY <1>0, Zenon DEF Types
  <1>4. lockq' \in [Entries -> Seq(Ctx)]  BY <1>0, <1>2, Zenon DEF Types
  <1> HIDE DEF r
  <1>5. \A x \in Entries : \A i \in DOMAIN lockq[x] : lockq[x][i] \in Ctx
    BY DEF Types
  <1>6. \A j \in DOMAIN q : /\ q[j] \in Ctx /\ job[q[j]].pc \in {"fetch", "lock"}
                            /\ job[q[j]].entry = e
                            /\ \A k \in DOMAIN q : q[j] = q[k] => j = k
    BY <1>0, <1>5 DEF Locking
  <1>7. \A j \in DOMAIN q : j # 1 => q[j] # c  BY <1>2, <1>6
  <1>8. ASSUME NEW d \in Ctx, job'[d].pc = "fetch"
        PROVE  /\ job'[d].entry # e
               /\ lockq'[job'[d].entry] # <<>> /\ Head(lockq'[job'[d].entry]) = d
    <2>1. d # c /\ job'[d] = job[d] /\ job[d].entry \in Entries
      BY <1>8, Zenon DEF Types
    <2>2. lockq[job[d].entry] # <<>> /\ Head(lockq[job[d].entry]) = d
      BY <1>8, <2>1 DEF Locking
    <2>3. job[d].entry # e  BY <2>1, <2>2, Zenon
    <2> QED  BY <1>3, <2>1, <2>2, <2>3, Zenon
  <1>9. ASSUME NEW d \in Ctx, job'[d].pc = "lock"
        PROVE  \E i \in DOMAIN lockq'[job'[d].entry] : lockq'[job'[d].entry][i] = d
    <2>1. d # c /\ job'[d] = job[d] /\ job[d].entry \in Entries
      BY <1>9, Zenon DEF Types
    <2>2. PICK i \in DOMAIN lockq[job[d].entry] : lockq[job[d].entry][i] = d
      BY <1>9, <2>1 DEF Locking
    <2>3. CASE job[d].entry # e  BY <1>3, <2>1, <2>2, <2>3
    <2>4. CASE job[d].entry = e
      <3>1. i # 1  BY <1>2, <2>1, <2>2, <2>4, Zenon
      <3>2. i \in DOMAIN q /\ q[i] = d  BY <2>2, <2>4, Zenon
      <3>3. i - 1 \in DOMAIN r /\ r[i - 1] = d  BY <1>2, <3>1, <3>2, Zenon
      <3>4. lockq'[job'[d].entry] = r  BY <1>3, <2>1, <2>4, Zenon
      <3> QED  BY <3>3, <3>4, Zenon
    <2> QED  BY <2>3, <2>4, Zenon
  <1>10. ASSUME NEW x \in Entries, NEW i \in DOMAIN lockq'[x]
         PROVE  /\ job'[lockq'[x][i]].pc \in {"fetch", "lock"}
                /\ job'[lockq'[x][i]].entry = x
                /\ \A j \in DOMAIN lockq'[x] : lockq'[x][i] = lockq'[x][j] => i = j
    <2>1. CASE x # e
      <3>1. lockq'[x] = lockq[x]  BY <1>3, <2>1, Zenon
      <3>2. \A j \in DOMAIN lockq[x] : lockq[x][j] # c  BY <1>5, <2>1 DEF Locking
      <3> QED  BY <1>5, <3>1, <3>2 DEF Locking
    <2>2. CASE x = e
      <3>1. lockq'[x] = r /\ i \in DOMAIN r  BY <1>3, <2>2, Zenon
      <3>2. r[i] = q[i + 1] /\ i + 1 \in DOMAIN q /\ r[i] # c  BY <1>2, <1>7, <3>1
      <3>3. ASSUME NEW j \in DOMAIN r, r[i] = r[j] PROVE i = j
        <4>1. /\ j + 1 \in DOMAIN q /\ r[j] = q[j + 1] /\ j \in Nat /\ i \in Nat
          BY <1>2, <3>1, Zenon
        <4>2. i + 1 = j + 1  BY <1>6, <3>2, <3>3, <4>1, Zenon
        <4> QED  BY <4>1, <4>2
      <3> QED  BY <1>6, <2>2, <3>1, <3>2, <3>3
    <2> QED  BY <2>1, <2>2, Zenon
  <1>11. ASSUME NEW x \in Entries PROVE Len(lockq'[x]) <= LockCap
    <2>1. Len(q) <= LockCap /\ Len(q) \in Nat  BY <1>0 DEF Locking
    <2> QED  BY <1>0, <1>2, <1>3, <2>1 DEF Locking
  <1> QED  BY <1>4, <1>8, <1>9, <1>10, <1>11, Zenon

LEMMA FillKeeps ==
  ASSUME CacheInv, NEW c \in Ctx, Fill(c)
  PROVE  CacheInv'
  <1> USE DEF CacheInv
  <1> DEFINE e == job[c].entry
  <1>1. /\ job[c].pc = "fetch" /\ Head(lockq[e]) = c
        /\ lm' = [lm EXCEPT ![e] = job[c].fs]
        /\ lockq' = [lockq EXCEPT ![e] = Tail(@)]
        /\ cam' = [cam EXCEPT ![e].locked = FALSE]
        /\ job' = [job EXCEPT ![c].pc = "ready", ![c].fs = Garbage]
        /\ UNCHANGED <<lru, status, cls, emem, turn>>
    BY Zenon DEF Fill
  <1>2. e \in Entries /\ job[c].fs \in Copies /\ Busy(c)  BY <1>1, Zenon DEF Types, Busy
  <1>3. /\ job' \in [Ctx -> Jobs] /\ job'[c].pc = "ready" /\ job'[c].entry = e
        /\ job'[c].flow = job[c].flow /\ \A d \in Ctx : d # c => job'[d] = job[d]
    BY <1>1, CopyTypes DEF Types, Jobs
  <1>4. /\ cam' \in [Entries -> [tag : Tags, locked : BOOLEAN]]
        /\ \A x \in Entries : cam'[x].tag = cam[x].tag
        /\ cam'[e].locked = FALSE /\ \A x \in Entries : x # e => cam'[x] = cam[x]
    <2> DEFINE r == [cam[e] EXCEPT !.locked = FALSE]
    <2>1. /\ r \in [tag : Tags, locked : BOOLEAN] /\ r.tag = cam[e].tag
          /\ r.locked = FALSE
      BY <1>2 DEF Types
    <2>2. cam' = [cam EXCEPT ![e] = r]  BY <1>1, Zenon
    <2> HIDE DEF r, e
    <2> QED  BY <1>2, <2>1, <2>2, Zenon DEF Types
  <1>5. /\ lm' \in [Entries -> Copies] /\ lm'[e] = job[c].fs
        /\ \A x \in Entries : x # e => lm'[x] = lm[x]
    BY <1>1, <1>2, Zenon DEF Types
  <1> HIDE DEF e
  <1>6. /\ lockq' \in [Entries -> Seq(Ctx)]
        /\ \A d \in Ctx : job'[d].pc = "fetch" =>
             /\ job'[d].entry # e
             /\ lockq'[job'[d].entry] # <<>> /\ Head(lockq'[job'[d].entry]) = d
        /\ \A d \in Ctx : job'[d].pc = "lock" =>
             \E i \in DOMAIN lockq'[job'[d].entry] : lockq'[job'[d].entry][i] = d
        /\ \A x \in Entries : \A i \in DOMAIN lockq'[x] :
             /\ job'[lockq'[x][i]].pc \in {"fetch", "lock"}
             /\ job'[lockq'[x][i]].entry = x
             /\ \A j \in DOMAIN lockq'[x] : lockq'[x][i] = lockq'[x][j] => i = j
        /\ \A x \in Entries : Len(lockq'[x]) <= LockCap
    <2>1. e = job[c].entry /\ job[c].pc \in {"fetch", "lock"}  BY <1>1, Zenon DEF e
    <2> QED  BY <1>1, <1>3, <2>1, Unqueue, Zenon
  <1>7. Types'  BY <1>1, <1>3, <1>4, <1>5, <1>6, Zenon DEF Types, Jobs
  <1>8. Order'
    <2>1. \A d \in Ctx : Busy(d)' => Busy(d) /\ job'[d].entry = job[d].entry
      BY <1>2, <1>3, Zenon DEF Busy, e
    <2> QED  BY <1>1, <2>1, OrderKept, Zenon
  <1>9. \A d \in Ctx : job[d].entry \in Entries  BY Zenon DEF Types
  <1>10. Pinned'
    <2>1. \A d \in Ctx : Busy(d)' => /\ Busy(d) /\ job'[d].entry = job[d].entry
                                     /\ job'[d].flow = job[d].flow
      BY <1>2, <1>3, Zenon DEF Busy, e
    <2> QED  BY <1>4, <1>9, <2>1 DEF Pinned
  <1>11. Locking'
    <2>1. \A x \in Entries : cam'[x].locked =>
            \E d \in Ctx : job'[d].pc = "fetch" /\ job'[d].entry = x
      BY <1>1, <1>3, <1>4 DEF Locking, e
    <2>2. ASSUME NEW d \in Ctx, job'[d].pc = "fetch" PROVE cam'[job'[d].entry].locked
      <3>1. d # c /\ job'[d] = job[d]  BY <1>3, <2>2, Zenon
      <3> QED  BY <1>4, <1>6, <1>9, <2>2, <3>1 DEF Locking
    <2>3. ASSUME NEW d \in Ctx, job'[d].pc = "ready" PROVE ~cam'[job'[d].entry].locked
      <3>1. CASE d = c  BY <1>3, <1>4, <3>1, Zenon
      <3>2. CASE d # c
        <4>1. job'[d] = job[d] /\ ~cam[job[d].entry].locked
          BY <1>3, <2>3, <3>2 DEF Locking
        <4> QED  BY <1>4, <1>9, <4>1, Zenon
      <3> QED  BY <3>1, <3>2, Zenon
    <2> QED  BY <1>6, <2>1, <2>2, <2>3 DEF Locking
  <1>12. Places'
    <2>1. \A s \in Slots : status'[s] # None =>
            Slot(status'[s]) = s /\ \A x \in Entries : cam'[x].tag # status'[s]
      BY <1>1, <1>4 DEF Places
    <2>2. ASSUME NEW x \in Entries, cam'[x].tag \in Flows, ~cam'[x].locked
          PROVE  lm'[x] = Latest(cam'[x].tag)
      <3>1. CASE x = e
        <4>1. job[c].fs = Latest(job[c].flow) /\ cam[e].tag = job[c].flow
          BY <1>1, <1>2, Zenon DEF Places, Pinned, e
        <4> QED  BY <1>2, <1>4, <1>5, <3>1, <4>1, Zenon
      <3>2. CASE x # e  BY <1>4, <1>5, <2>2, <3>2, Zenon DEF Places
      <3> QED  BY <3>1, <3>2, Zenon
    <2>3. \A d \in Ctx : job'[d].pc = "fetch" => job'[d].fs = Latest(job'[d].flow)
      BY <1>3, Zenon DEF Places
    <2>4. \A f \in Flows : Cached(f)' <=> Cached(f)  BY <1>4, Zenon DEF Cached
    <2>5. \A f \in Flows : ~Cached(f)' =>
            IF status'[Slot(f)] = f THEN cls'[Slot(f)] = Latest(f) ELSE emem'[f] = Latest(f)
      BY <1>1, <2>4, Zenon DEF Places
    <2> QED  BY <2>1, <2>2, <2>3, <2>5, Zenon DEF Places
  <1> QED  BY <1>7, <1>8, <1>10, <1>11, <1>12, Zenon

LEMMA PassKeeps ==
  ASSUME CacheInv, NEW c \in Ctx, Pass(c)
  PROVE  CacheInv'
  <1> USE DEF CacheInv
  <1> DEFINE e == job[c].entry
  <1>1. /\ job[c].pc = "lock" /\ Head(lockq[e]) = c
        /\ lockq' = [lockq EXCEPT ![e] = Tail(@)]
        /\ job' = [job EXCEPT ![c].pc = "ready"]
        /\ UNCHANGED <<cam, lru, lm, status, cls, emem, turn>>
    BY Zenon DEF Pass
  <1>2. e \in Entries /\ Busy(c)  BY <1>1, Zenon DEF Types, Busy
  <1>3. /\ job' \in [Ctx -> Jobs] /\ job'[c].pc = "ready" /\ job'[c].entry = e
        /\ job'[c].flow = job[c].flow /\ \A d \in Ctx : d # c => job'[d] = job[d]
    BY <1>1 DEF Types, Jobs
  <1>4. ~cam[e].locked
    <2>1. SUFFICES ASSUME cam[e].locked PROVE FALSE  BY Zenon
    <2>2. PICK d \in Ctx : job[d].pc = "fetch" /\ job[d].entry = e
      BY <1>2, <2>1, Zenon DEF Locking
    <2>3. Head(lockq[e]) = d  BY <2>2 DEF Locking
    <2> QED  BY <1>1, <2>2, <2>3, Zenon
  <1> HIDE DEF e
  <1>6. /\ lockq' \in [Entries -> Seq(Ctx)]
        /\ \A d \in Ctx : job'[d].pc = "fetch" =>
             /\ job'[d].entry # e
             /\ lockq'[job'[d].entry] # <<>> /\ Head(lockq'[job'[d].entry]) = d
        /\ \A d \in Ctx : job'[d].pc = "lock" =>
             \E i \in DOMAIN lockq'[job'[d].entry] : lockq'[job'[d].entry][i] = d
        /\ \A x \in Entries : \A i \in DOMAIN lockq'[x] :
             /\ job'[lockq'[x][i]].pc \in {"fetch", "lock"}
             /\ job'[lockq'[x][i]].entry = x
             /\ \A j \in DOMAIN lockq'[x] : lockq'[x][i] = lockq'[x][j] => i = j
        /\ \A x \in Entries : Len(lockq'[x]) <= LockCap
    <2>1. e = job[c].entry /\ job[c].pc \in {"fetch", "lock"}  BY <1>1, Zenon DEF e
    <2> QED  BY <1>1, <1>3, <2>1, Unqueue, Zenon
  <1>7. Types'  BY <1>1, <1>3, <1>6, Zenon DEF Types, Jobs
  <1>8. \A d \in Ctx : Busy(d)' => /\ Busy(d) /\ job'[d].entry = job[d].entry
                                   /\ job'[d].flow = job[d].flow
    BY <1>2, <1>3, Zenon DEF Busy, e
  <1>9. Order'  BY <1>1, <1>8, OrderKept, Zenon
  <1>10. Pinned'  BY <1>1, <1>8, Zenon DEF Pinned
  <1>11. \A d \in Ctx : job'[d].pc = "fetch" => job'[d] = job[d]  BY <1>3, Zenon
  <1>12. Locking'
    <2>1. \A x \in Entries : cam'[x].locked =>
            \E d \in Ctx : job'[d].pc = "fetch" /\ job'[d].entry = x
      BY <1>1, <1>3, Zenon DEF Locking
    <2>2. \A d \in Ctx : job'[d].pc = "fetch" => cam'[job'[d].entry].locked
      BY <1>1, <1>11 DEF Locking
    <2>3. \A d \in Ctx : job'[d].pc = "ready" => ~cam'[job'[d].entry].locked
      BY <1>1, <1>3, <1>4 DEF Locking
    <2> QED  BY <1>6, <2>1, <2>2, <2>3 DEF Locking
  <1>13. Places'  BY <1>1, <1>11 DEF Places, Cached
  <1> QED  BY <1>7, <1>9, <1>10, <1>12, <1>13, Zenon

(* The protocol handlers work on the entry: only copies of that flow age,  *)
(* and no place the invariant speaks of has one.                           *)
LEMMA ProcessKeeps ==
  ASSUME CacheInv, NEW c \in Ctx, Process(c)
  PROVE  CacheInv'
  <1> USE DEF CacheInv
  <1> DEFINE e == job[c].entry  f == job[c].flow
  <1>1. job[c].pc = "ready" /\ e \in Entries /\ Busy(c) /\ f \in Flows
    BY Zenon DEF Process, Types, Busy, Pinned
  <1>2. ~cam[e].locked /\ cam[e].tag = f  BY <1>1, Zenon DEF Locking, Pinned
  <1>3. lm[e] = Latest(f) /\ lm[e].flow = f
    BY <1>1, <1>2 DEF Places, Latest, Copy
  <1>4. /\ lm' = [x \in Entries |-> IF x = e THEN Latest(f) ELSE Aged(lm[x], f)]
        /\ cls' = [s \in DOMAIN cls |-> Aged(cls[s], f)]
        /\ emem' = [x \in Flows |-> Aged(emem[x], f)]
        /\ job' = [d \in Ctx |-> IF d = c THEN Idle ELSE [job[d] EXCEPT !.fs = Aged(@, f)]]
        /\ UNCHANGED <<cam, lru, status, lockq, turn>>
    BY <1>3, Zenon DEF Process, Latest
  <1> HIDE DEF e, f
  <1>5. ASSUME NEW d \in Ctx, d # c
        PROVE  /\ job'[d] \in Jobs /\ job'[d].pc = job[d].pc /\ job'[d].flow = job[d].flow
               /\ job'[d].entry = job[d].entry /\ job'[d].fs = Aged(job[d].fs, f)
    <2>1. job[d] \in Jobs  BY Zenon DEF Types, Jobs
    <2>2. Aged(job[d].fs, f) \in Copies  BY <1>1, <2>1, CopyTypes, Zenon DEF Jobs
    <2>3. job'[d] = [job[d] EXCEPT !.fs = Aged(job[d].fs, f)]  BY <1>4, <1>5, Zenon
    <2> QED  BY <2>1, <2>2, <2>3, Zenon DEF Jobs
  <1>6. job'[c] = Idle /\ Idle \in Jobs /\ job'[c].pc = "idle"
    <2>1. 0 \in Entries  BY CacheNat DEF Entries
    <2> QED  BY <1>4, <2>1, CopyTypes, Zenon DEF Idle, Jobs, None
  <1>7. Types'
    <2>1. job' \in [Ctx -> Jobs]
      <3>1. \A d \in Ctx : job'[d] \in Jobs  BY <1>5, <1>6, Zenon
      <3> QED  BY <1>4, <3>1, Zenon
    <2>2. lm' \in [Entries -> Copies]  BY <1>1, <1>4, CopyTypes, Zenon DEF Types
    <2>3. cls' \in [Slots -> Copies]  BY <1>1, <1>4, CopyTypes, Zenon DEF Types
    <2>4. emem' \in [Flows -> Copies]  BY <1>1, <1>4, CopyTypes, Zenon DEF Types
    <2> QED  BY <1>4, <2>1, <2>2, <2>3, <2>4, Zenon DEF Types, Jobs
  <1>8. \A d \in Ctx : Busy(d)' => /\ d # c /\ Busy(d) /\ job'[d].entry = job[d].entry
                                   /\ job'[d].flow = job[d].flow
    BY <1>5, <1>6, Zenon DEF Busy
  <1>9. Order'  BY <1>4, <1>8, OrderKept, Zenon
  <1>10. Pinned'  BY <1>4, <1>8, Zenon DEF Pinned
  <1>11. Locking'
    <2>1. \A d \in Ctx : job'[d].pc # "idle" =>
            d # c /\ job'[d].pc = job[d].pc /\ job'[d].entry = job[d].entry
      BY <1>5, <1>6, Zenon
    <2>2. \A x \in Entries : cam'[x].locked =>
            \E d \in Ctx : job'[d].pc = "fetch" /\ job'[d].entry = x
      BY <1>1, <1>4, <1>5 DEF Locking
    <2>3. \A x \in Entries : \A i \in DOMAIN lockq[x] : lockq[x][i] \in Ctx
      BY DEF Types
    <2>4. \A x \in Entries : \A i \in DOMAIN lockq[x] :
            /\ job'[lockq[x][i]].pc \in {"fetch", "lock"} /\ job'[lockq[x][i]].entry = x
            /\ \A j \in DOMAIN lockq[x] : lockq[x][i] = lockq[x][j] => i = j
      BY <1>1, <1>5, <2>3 DEF Locking
    <2>5. \A d \in Ctx : job'[d].pc = "fetch" =>
            /\ cam'[job'[d].entry].locked
            /\ lockq'[job'[d].entry] # <<>> /\ Head(lockq'[job'[d].entry]) = d
      BY <1>4, <2>1 DEF Locking
    <2>6. \A d \in Ctx : job'[d].pc = "lock" =>
            \E i \in DOMAIN lockq'[job'[d].entry] : lockq'[job'[d].entry][i] = d
      BY <1>4, <2>1 DEF Locking
    <2>7. \A d \in Ctx : job'[d].pc = "ready" => ~cam'[job'[d].entry].locked
      BY <1>4, <2>1 DEF Locking
    <2>8. \A x \in Entries : Len(lockq'[x]) <= LockCap  BY <1>4, Zenon DEF Locking
    <2>9. lockq' = lockq  BY <1>4, Zenon
    <2> QED  BY <2>2, <2>4, <2>5, <2>6, <2>7, <2>8, <2>9 DEF Locking
  <1>12. \A g \in Flows : g # f => Aged(Latest(g), f) = Latest(g)
    BY Zenon DEF Aged, Latest, Copy
  <1>13. Places'
    <2>1. \A s \in Slots : status'[s] # None =>
            Slot(status'[s]) = s /\ \A x \in Entries : cam'[x].tag # status'[s]
      BY <1>4, Zenon DEF Places
    <2>2. ASSUME NEW x \in Entries, cam'[x].tag \in Flows, ~cam'[x].locked
          PROVE  lm'[x] = Latest(cam'[x].tag)
      <3>1. CASE x = e  BY <1>2, <1>4, <3>1, Zenon
      <3>2. CASE x # e
        <4>1. cam[x].tag # f  BY <1>1, <1>2, <3>2, Zenon DEF Pinned
        <4>2. lm[x] = Latest(cam[x].tag)  BY <1>4, <2>2, Zenon DEF Places
        <4> QED  BY <1>4, <1>12, <2>2, <3>2, <4>1, <4>2, Zenon
      <3> QED  BY <3>1, <3>2, Zenon
    <2>3. ASSUME NEW d \in Ctx, job'[d].pc = "fetch"
          PROVE  job'[d].fs = Latest(job'[d].flow)
      <3>1. d # c /\ job[d].pc = "fetch"  BY <1>5, <1>6, <2>3, Zenon
      <3>2. /\ job[d].fs = Latest(job[d].flow) /\ cam[job[d].entry].locked
            /\ cam[job[d].entry].tag = job[d].flow /\ job[d].flow \in Flows
            /\ job[d].entry \in Entries
        BY <3>1 DEF Places, Locking, Pinned, Busy, Types
      <3>3. job[d].flow # f  BY <1>1, <1>2, <3>2, Zenon DEF Pinned
      <3> QED  BY <1>5, <1>12, <3>1, <3>2, <3>3, Zenon
    <2>4. ASSUME NEW g \in Flows, ~Cached(g)'
          PROVE  IF status'[Slot(g)] = g THEN cls'[Slot(g)] = Latest(g)
                                         ELSE emem'[g] = Latest(g)
      <3>1. ~Cached(g) /\ g # f  BY <1>1, <1>2, <1>4, <2>4, Zenon DEF Cached
      <3>2. Slot(g) \in DOMAIN cls  BY TagNat, Zenon DEF Types
      <3> QED  BY <1>4, <1>12, <3>1, <3>2, Zenon DEF Places
    <2> QED  BY <2>1, <2>2, <2>3, <2>4, Zenon DEF Places
  <1> QED  BY <1>7, <1>9, <1>10, <1>11, <1>13, Zenon

-----------------------------------------------------------------------------
(* A miss.                                                                 *)

(* What handle_miss does to the three levels, whatever entry it takes, as  *)
(* long as nobody works on that entry.                                     *)
LEMMA MissPlaces ==
  ASSUME CacheInv, NEW c \in Ctx, NEW f \in Flows, NEW e \in Entries,
         ~Busy(c), ~Cached(f), ~cam[e].locked, handle_miss(c, f, e)
  PROVE  /\ Places'
         /\ cls' \in [Slots -> Copies] /\ emem' \in [Flows -> Copies]
         /\ status' \in [Slots -> Tags \cup {None}] /\ lm' \in [Entries -> Copies]
         /\ job' \in [Ctx -> Jobs]
  <1> USE DEF CacheInv
  <1> DEFINE old == cam[e].tag
             s == Slot(old)
             out == status[s]
             status1 == [status EXCEPT ![s] = old]
             cls1 == [cls EXCEPT ![s] = lm[e]]
             emem1 == IF out \in Flows \ {f} THEN [emem EXCEPT ![out] = cls[s]] ELSE emem
             inCls == status1[Slot(f)] = f
             job1(fs) == [job EXCEPT ![c] = [pc |-> "fetch", flow |-> f, entry |-> e,
                                             fs |-> fs]]
  <1>1. /\ cls' = cls1 /\ emem' = emem1
        /\ cam' = [cam EXCEPT ![e] = [tag |-> f, locked |-> out # f]]
        /\ out = f => /\ lm' = [lm EXCEPT ![e] = cls[s]] /\ status' = status1
                      /\ job' = [job EXCEPT ![c] = [pc |-> "ready", flow |-> f,
                                                    entry |-> e, fs |-> Garbage]]
        /\ out # f => /\ status' = IF inCls THEN [status1 EXCEPT ![Slot(f)] = None]
                                            ELSE status1
                      /\ job' = job1(IF inCls THEN cls1[Slot(f)] ELSE emem1[f])
                      /\ lm' = lm
    BY Zenon DEF handle_miss
  <1>2. /\ old \in Tags /\ old # f /\ old # None /\ s \in Slots /\ Slot(f) \in Slots
        /\ f \in Tags /\ f # None
    BY TagNat DEF Types, Cached
  <1>3. /\ cam'[e].tag = f /\ cam'[e].locked = (out # f)
        /\ \A x \in Entries : x # e => cam'[x] = cam[x]
    BY <1>1, Zenon DEF Types
  <1>4. \A x \in Entries : x # e => cam[x].tag # old  BY Zenon DEF Pinned
  <1>5. /\ status1 \in [Slots -> Tags \cup {None}] /\ status1[s] = old
        /\ \A x \in Slots : x # s => status1[x] = status[x]
    BY <1>2, Zenon DEF Types
  <1>6. /\ cls1 \in [Slots -> Copies] /\ cls1[s] = lm[e]
        /\ \A x \in Slots : x # s => cls1[x] = cls[x]
    BY <1>2, Zenon DEF Types
  <1>7. /\ emem1 \in [Flows -> Copies]
        /\ out \in Flows \ {f} => emem1[out] = cls[s]
        /\ \A x \in Flows : x # out => emem1[x] = emem[x]
        /\ out = f => emem1 = emem
    BY <1>2, Zenon DEF Types
  <1>8. old \in Flows => lm[e] = Latest(old)  BY Zenon DEF Places
  <1>9. /\ out # None => Slot(out) = s /\ \A x \in Entries : cam[x].tag # out
        /\ out \in Flows => cls[s] = Latest(out)
    BY <1>2, TagNat, Zenon DEF Places, Cached
  <1>10. \A x \in Slots : status[x] = f => x = Slot(f)  BY <1>2, Zenon DEF Places
  <1>11. \A x \in Slots : status'[x] # f /\ (status'[x] # None => status'[x] = status1[x])
    <2>1. CASE out = f  BY <1>1, <1>2, <1>5, <1>9, <1>10, <2>1, Zenon
    <2>2. CASE out # f /\ inCls
      <3>1. Slot(f) # s  BY <1>2, <1>5, <2>2, Zenon
      <3>2. status' = [status1 EXCEPT ![Slot(f)] = None]  BY <1>1, <2>2, Zenon
      <3> HIDE DEF status1
      <3>3. /\ status'[Slot(f)] = None
            /\ \A x \in Slots : x # Slot(f) => status'[x] = status1[x]
        BY <1>2, <1>5, <3>2, Zenon
      <3> QED  BY <1>2, <1>5, <1>10, <3>3, Zenon
    <2>3. CASE out # f /\ ~inCls
      <3>1. status' = status1  BY <1>1, <2>3, Zenon
      <3> HIDE DEF status1
      <3> QED  BY <1>2, <1>5, <1>10, <2>3, <3>1, Zenon
    <2> QED  BY <2>1, <2>2, <2>3, Zenon
  <1>12. status' \in [Slots -> Tags \cup {None}]
    BY <1>1, <1>2, <1>5, Zenon
  <1>13. status'[s] = old /\ \A g \in Flows : g # f => (status'[Slot(g)] = g <=> status1[Slot(g)] = g)
    BY <1>1, <1>2, <1>5, TagNat, Zenon
  <1> HIDE DEF status1, cls1, emem1
  <1>14. \A x \in Slots : status'[x] # None =>
           Slot(status'[x]) = x /\ \A y \in Entries : cam'[y].tag # status'[x]
    <2>1. ASSUME NEW x \in Slots, status'[x] # None
          PROVE  Slot(status'[x]) = x /\ \A y \in Entries : cam'[y].tag # status'[x]
      <3>1. status'[x] = status1[x] /\ status'[x] # f  BY <1>11, <2>1, Zenon
      <3>2. CASE x = s  BY <1>2, <1>3, <1>4, <1>5, <3>1, <3>2, Zenon
      <3>3. CASE x # s
        <4>1. status1[x] = status[x]  BY <1>5, <3>3, Zenon
        <4>2. Slot(status[x]) = x /\ \A y \in Entries : cam[y].tag # status[x]
          BY <2>1, <3>1, <4>1, Zenon DEF Places
        <4> QED  BY <1>3, <3>1, <4>1, <4>2, Zenon
      <3> QED  BY <3>2, <3>3, Zenon
    <2> QED  BY <2>1, Zenon
  <1>15. out = f => cls[s] = Latest(f)  BY <1>9, Zenon
  <1>16. out # f => (IF inCls THEN cls1[Slot(f)] ELSE emem1[f]) = Latest(f)
    <2>1. SUFFICES ASSUME out # f
                   PROVE  (IF inCls THEN cls1[Slot(f)] ELSE emem1[f]) = Latest(f)
      BY Zenon
    <2>2. IF status[Slot(f)] = f THEN cls[Slot(f)] = Latest(f) ELSE emem[f] = Latest(f)
      BY Zenon DEF Places
    <2>3. CASE inCls
      <3>1. Slot(f) # s  BY <1>2, <1>5, <2>3, Zenon
      <3> QED  BY <1>2, <1>5, <1>6, <2>2, <2>3, <3>1, Zenon
    <2>4. CASE ~inCls
      <3>1. status[Slot(f)] # f  BY <1>2, <1>5, <2>1, <2>4, Zenon
      <3> QED  BY <1>7, <2>1, <2>2, <2>4, <3>1, Zenon
    <2> QED  BY <2>3, <2>4, Zenon
  <1>17. /\ job' \in [Ctx -> Jobs] /\ \A d \in Ctx : d # c => job'[d] = job[d]
         /\ job'[c].flow = f /\ job'[c].entry = e
         /\ job'[c].pc = "fetch" => job'[c].fs = Latest(f)
    <2>1. CASE out = f
      <3>1. job' = [job EXCEPT ![c] = [pc |-> "ready", flow |-> f, entry |-> e,
                                       fs |-> Garbage]]
        BY <1>1, <2>1, Zenon
      <3> QED  BY <3>1, CopyTypes, Zenon DEF Types, Jobs
    <2>2. CASE out # f
      <3>1. job' = job1(Latest(f))  BY <1>1, <1>16, <2>2, Zenon
      <3> QED  BY <3>1, CopyTypes, Zenon DEF Types, Jobs
    <2> QED  BY <2>1, <2>2, Zenon
  <1>18. /\ lm' \in [Entries -> Copies] /\ \A x \in Entries : x # e => lm'[x] = lm[x]
         /\ out = f => lm'[e] = Latest(f)
    <2>1. CASE out = f
      <3>1. lm' = [lm EXCEPT ![e] = Latest(f)]  BY <1>1, <1>15, <2>1, Zenon
      <3> QED  BY <3>1, CopyTypes, Zenon DEF Types
    <2>2. CASE out # f  BY <1>1, <2>2, Zenon DEF Types
    <2> QED  BY <2>1, <2>2, Zenon
  <1>19. \A x \in Entries : cam'[x].tag \in Flows /\ ~cam'[x].locked =>
           lm'[x] = Latest(cam'[x].tag)
    BY <1>3, <1>18, Zenon DEF Places
  <1>20. \A d \in Ctx : job'[d].pc = "fetch" => job'[d].fs = Latest(job'[d].flow)
    BY <1>17, Zenon DEF Places
  <1>21. ASSUME NEW g \in Flows, ~Cached(g)'
         PROVE  IF status'[Slot(g)] = g THEN cls'[Slot(g)] = Latest(g)
                                        ELSE emem'[g] = Latest(g)
    <2>1. g # f /\ Slot(g) \in Slots /\ (status'[Slot(g)] = g <=> status1[Slot(g)] = g)
      BY <1>3, <1>13, <1>21, TagNat, Zenon DEF Cached
    <2>2. CASE g = old
      BY <1>1, <1>2, <1>5, <1>6, <1>8, <2>1, <2>2, Zenon
    <2>3. CASE g # old
      <3>1. ~Cached(g)  BY <1>3, <1>21, <2>3, Zenon DEF Cached
      <3>2. IF status[Slot(g)] = g THEN cls[Slot(g)] = Latest(g) ELSE emem[g] = Latest(g)
        BY <3>1, Zenon DEF Places
      <3>3. CASE g = out
        <4>1. Slot(g) = s /\ cls[s] = Latest(g)  BY <1>9, <3>3, TagNat, Zenon
        <4>2. status1[Slot(g)] # g  BY <1>5, <2>3, <4>1, Zenon
        <4>3. emem1[g] = Latest(g)  BY <1>7, <2>1, <3>3, <4>1, Zenon
        <4> QED  BY <1>1, <2>1, <4>2, <4>3, Zenon
      <3>4. CASE g # out
        <4>1. emem1[g] = emem[g]  BY <1>7, <3>4, Zenon
        <4>2. CASE Slot(g) = s
          <5>1. status1[Slot(g)] # g /\ status[Slot(g)] # g  BY <1>5, <2>3, <3>4, <4>2, Zenon
          <5> QED  BY <1>1, <2>1, <3>2, <4>1, <5>1, Zenon
        <4>3. CASE Slot(g) # s
          <5>1. status1[Slot(g)] = status[Slot(g)] /\ cls1[Slot(g)] = cls[Slot(g)]
            BY <1>5, <1>6, <2>1, <4>3, Zenon
          <5> QED  BY <1>1, <2>1, <3>2, <4>1, <5>1, Zenon
        <4> QED  BY <4>2, <4>3, Zenon
      <3> QED  BY <3>3, <3>4, Zenon
    <2> QED  BY <2>2, <2>3, Zenon
  <1>22. Places'  BY <1>14, <1>19, <1>20, <1>21, Zenon DEF Places
  <1> QED  BY <1>1, <1>6, <1>7, <1>12, <1>17, <1>18, <1>22, Zenon

LEMMA MissKeeps ==
  ASSUME CacheInv, NEW c \in Ctx, NEW f \in Flows, turn = c, ~Busy(c), ~Cached(f),
         turn' = (turn + 1) % NumCtx, handle_miss(c, f, Head(lru))
  PROVE  CacheInv'
  <1> USE DEF CacheInv
  <1> DEFINE e == Head(lru)
             hit == status[Slot(cam[e].tag)] = f
  <1>1. /\ e \in Entries /\ ~cam[e].locked /\ lockq[e] = <<>>
        /\ \A d \in Ctx : Busy(d) => job[d].entry # e
    BY HeadFree, Zenon
  <1>2. /\ lru' = Used(e)
        /\ cam' = [cam EXCEPT ![e] = [tag |-> f, locked |-> ~hit]]
        /\ lockq' = IF hit THEN lockq ELSE [lockq EXCEPT ![e] = Append(@, c)]
    BY Zenon DEF handle_miss
  <1>3. \E fs : job' = [job EXCEPT ![c] = [pc |-> IF hit THEN "ready" ELSE "fetch",
                                            flow |-> f, entry |-> e, fs |-> fs]]
    BY Zenon DEF handle_miss
  <1>4. /\ Places'
        /\ cls' \in [Slots -> Copies] /\ emem' \in [Flows -> Copies]
        /\ status' \in [Slots -> Tags \cup {None}] /\ lm' \in [Entries -> Copies]
        /\ job' \in [Ctx -> Jobs]
    <2> HIDE DEF e, hit
    <2>1. handle_miss(c, f, e)  BY Zenon DEF e
    <2> QED  BY <1>1, <2>1, MissPlaces, Zenon
  <1>5. hit \in BOOLEAN  BY Zenon
  <1> HIDE DEF e, hit
  <1>6. /\ job'[c].pc = (IF hit THEN "ready" ELSE "fetch") /\ job'[c].flow = f
        /\ job'[c].entry = e /\ \A d \in Ctx : d # c => job'[d] = job[d]
    BY <1>3 DEF Types
  <1>7. /\ cam' \in [Entries -> [tag : Tags, locked : BOOLEAN]]
        /\ cam'[e].tag = f /\ cam'[e].locked = ~hit
        /\ \A x \in Entries : x # e => cam'[x] = cam[x]
    BY <1>1, <1>2, <1>5, TagNat, Zenon DEF Types
  <1>8. Order'  BY <1>1, <1>2, <1>6, OrderTake, Zenon
  <1>9. \A d \in Ctx : Busy(d)' /\ d # c =>
          Busy(d) /\ job'[d] = job[d] /\ job[d].entry # e /\ job[d].entry \in Entries
    BY <1>1, <1>6, Zenon DEF Busy, Types
  <1>10. Pinned'
    <2>1. \A d, x \in Entries : cam'[d].tag = cam'[x].tag => d = x
      BY <1>7 DEF Pinned, Cached
    <2>2. ASSUME NEW d \in Ctx, Busy(d)'
          PROVE  job'[d].flow \in Flows /\ cam'[job'[d].entry].tag = job'[d].flow
      <3>1. CASE d = c  BY <1>6, <1>7, <3>1, Zenon
      <3>2. CASE d # c  BY <1>7, <1>9, <2>2, <3>2 DEF Pinned
      <3> QED  BY <3>1, <3>2, Zenon
    <2> QED  BY <2>1, <2>2, Zenon DEF Pinned
  <1>11. /\ lockq' \in [Entries -> Seq(Ctx)] /\ \A x \in Entries : x # e => lockq'[x] = lockq[x]
         /\ lockq'[e] = IF hit THEN <<>> ELSE <<c>>
    <2>1. CASE hit  BY <1>1, <1>2, <2>1, Zenon DEF Types
    <2>2. CASE ~hit
      <3>1. lockq' = [lockq EXCEPT ![e] = <<c>>]  BY <1>1, <1>2, <2>2
      <3>2. <<c>> \in Seq(Ctx)  OBVIOUS
      <3> QED  BY <1>1, <2>2, <3>1, <3>2, Zenon DEF Types
    <2> QED  BY <2>1, <2>2, Zenon
  <1>12. Locking'
    <2>1. \A x \in Entries : cam'[x].locked =>
            \E d \in Ctx : job'[d].pc = "fetch" /\ job'[d].entry = x
      <3>1. cam'[e].locked => job'[c].pc = "fetch" /\ job'[c].entry = e
        BY <1>6, <1>7, Zenon
      <3>2. \A d \in Ctx : job[d].pc = "fetch" => job'[d] = job[d]
        BY <1>6, Zenon DEF Busy
      <3> QED  BY <1>7, <3>1, <3>2 DEF Locking
    <2>2. ASSUME NEW d \in Ctx, job'[d].pc = "fetch"
          PROVE  /\ cam'[job'[d].entry].locked
                 /\ lockq'[job'[d].entry] # <<>> /\ Head(lockq'[job'[d].entry]) = d
      <3>1. CASE d = c
        <4>1. ~hit  BY <1>6, <2>2, <3>1, Zenon
        <4>2. lockq'[e] = <<c>> /\ <<c>> # <<>> /\ Head(<<c>>) = c  BY <1>11, <4>1
        <4>3. cam'[e].locked  BY <1>7, <4>1, Zenon
        <4> QED  BY <1>6, <3>1, <4>2, <4>3, Zenon
      <3>2. CASE d # c
        <4>1. /\ job'[d] = job[d] /\ job[d].entry # e /\ job[d].entry \in Entries
          BY <1>9, <2>2, <3>2, Zenon DEF Busy
        <4> QED  BY <1>7, <1>11, <2>2, <4>1 DEF Locking
      <3> QED  BY <3>1, <3>2, Zenon
    <2>3. ASSUME NEW d \in Ctx, job'[d].pc = "lock"
          PROVE  \E i \in DOMAIN lockq'[job'[d].entry] : lockq'[job'[d].entry][i] = d
      <3>1. d # c  BY <1>6, <2>3, Zenon
      <3>2. /\ job'[d] = job[d] /\ job[d].entry # e /\ job[d].entry \in Entries
        BY <1>9, <2>3, <3>1, Zenon DEF Busy
      <3> QED  BY <1>11, <2>3, <3>2 DEF Locking
    <2>4. ASSUME NEW d \in Ctx, job'[d].pc = "ready" PROVE ~cam'[job'[d].entry].locked
      <3>1. CASE d = c  BY <1>6, <1>7, <2>4, <3>1, Zenon
      <3>2. CASE d # c
        <4>1. /\ job'[d] = job[d] /\ job[d].entry # e /\ job[d].entry \in Entries
          BY <1>9, <2>4, <3>2, Zenon DEF Busy
        <4> QED  BY <1>7, <2>4, <4>1 DEF Locking
      <3> QED  BY <3>1, <3>2, Zenon
    <2>5. ASSUME NEW x \in Entries, NEW i \in DOMAIN lockq'[x]
          PROVE  /\ job'[lockq'[x][i]].pc \in {"fetch", "lock"}
                 /\ job'[lockq'[x][i]].entry = x
                 /\ \A j \in DOMAIN lockq'[x] : lockq'[x][i] = lockq'[x][j] => i = j
      <3>1. CASE x = e
        <4>1. ~hit /\ lockq'[x] = <<c>> /\ DOMAIN lockq'[x] = {1}
          BY <1>11, <2>5, <3>1
        <4>2. i = 1 /\ lockq'[x][i] = c /\ \A j \in DOMAIN lockq'[x] : j = i
          BY <2>5, <4>1
        <4> QED  BY <1>6, <3>1, <4>1, <4>2, Zenon
      <3>2. CASE x # e
        <4>1. lockq'[x] = lockq[x]  BY <1>11, <3>2, Zenon
        <4>2. \A j \in DOMAIN lockq[x] : lockq[x][j] \in Ctx  BY DEF Types
        <4>3. \A j \in DOMAIN lockq[x] : /\ job[lockq[x][j]].pc \in {"fetch", "lock"}
                                         /\ job[lockq[x][j]].entry = x
          BY DEF Locking
        <4>4. \A j \in DOMAIN lockq[x] : job'[lockq[x][j]] = job[lockq[x][j]]
          BY <1>6, <4>2, <4>3, Zenon DEF Busy
        <4> QED  BY <2>5, <4>1, <4>3, <4>4 DEF Locking
      <3> QED  BY <3>1, <3>2, Zenon
    <2>6. ASSUME NEW x \in Entries PROVE Len(lockq'[x]) <= LockCap
      <3>1. CASE x = e
        <4>1. Len(lockq'[x]) = 0 \/ Len(lockq'[x]) = 1  BY <1>11, <3>1
        <4>2. 0 <= LockCap /\ 1 <= LockCap  BY CacheNat
        <4> QED  BY <4>1, <4>2, Zenon
      <3>2. CASE x # e  BY <1>11, <3>2, Zenon DEF Locking
      <3> QED  BY <3>1, <3>2, Zenon
    <2> QED  BY <2>1, <2>2, <2>3, <2>4, <2>5, <2>6 DEF Locking
  <1>13. Types'
    BY <1>1, <1>2, <1>4, <1>7, <1>11, UsedOrder, AgeGrows, Zenon DEF Types, Jobs
  <1> QED  BY <1>4, <1>8, <1>10, <1>12, <1>13, Zenon

LEMMA TakeWorkKeeps ==
  ASSUME CacheInv, NEW c \in Ctx, NEW f \in Flows, TakeWork(c, f)
  PROVE  CacheInv'
  <1>1. turn = c /\ ~Busy(c) /\ turn' = (turn + 1) % NumCtx
    BY Zenon DEF TakeWork, Busy
  <1>2. CASE Cached(f)
    <2>1. PICK e \in Entries :
            /\ cam[e].tag = f /\ lru' = Used(e)
            /\ IF cam[e].locked THEN TryLock(c, f, e)
               ELSE /\ job' = [job EXCEPT ![c] = [pc |-> "ready", flow |-> f,
                                                  entry |-> e, fs |-> Garbage]]
                    /\ UNCHANGED lockq
            /\ UNCHANGED <<cam, lm, status, cls, emem>>
      BY <1>2, Zenon DEF TakeWork, Cached
    <2>2. CASE cam[e].locked  BY <1>1, <2>1, <2>2, HitLocked, Zenon
    <2>3. CASE ~cam[e].locked  BY <1>1, <2>1, <2>3, HitReady, Zenon
    <2> QED  BY <2>2, <2>3, Zenon
  <1>3. CASE ~Cached(f)
    <2>1. handle_miss(c, f, Head(lru))  BY <1>3, Zenon DEF TakeWork, Cached
    <2> QED  BY <1>1, <1>3, <2>1, MissKeeps, Zenon
  <1> QED  BY <1>2, <1>3, Zenon

LEMMA NextCache == CacheInv /\ [Next]_vars => CacheInv'
  <1> SUFFICES ASSUME CacheInv, [Next]_vars PROVE CacheInv'  BY Zenon
  <1>1. CASE Next
    <2>1. PICK c \in Ctx : (\E f \in Flows : TakeWork(c, f)) \/ Step(c)
      BY <1>1, Zenon DEF Next
    <2>2. CASE \E f \in Flows : TakeWork(c, f)  BY <2>2, TakeWorkKeeps, Zenon
    <2>3. CASE Retry(c)  BY <2>3, RetryKeeps, Zenon
    <2>4. CASE Fill(c)  BY <2>4, FillKeeps, Zenon
    <2>5. CASE Pass(c)  BY <2>5, PassKeeps, Zenon
    <2>6. CASE Process(c)  BY <2>6, ProcessKeeps, Zenon
    <2> QED  BY <2>1, <2>2, <2>3, <2>4, <2>5, <2>6, Zenon DEF Step
  <1>2. CASE UNCHANGED vars
    BY <1>2 DEF vars, CacheInv, Types, Order, Age, Pinned, Locking, Places, Busy, Cached
  <1> QED  BY <1>1, <1>2, Zenon

LEMMA InitCache == Init => CacheInv
  <1> SUFFICES ASSUME Init PROVE CacheInv  BY Zenon
  <1> USE DEF Init
  <1>0. /\ NumEntries \in Nat /\ NumEntries > 0 /\ NumCtx \in Nat /\ NumCtx > 0
        /\ LockCap \in Nat
    BY CacheNat, Zenon
  <1>1. \A c \in Ctx : job[c] = Idle /\ job[c].pc = "idle" /\ ~Busy(c)
    BY Zenon DEF Idle, Busy
  <1>2. Idle \in Jobs
    <2>1. 0 \in Entries  BY <1>0 DEF Entries
    <2> QED  BY <2>1, CopyTypes, Zenon DEF Idle, Jobs, None
  <1>3. Types
    <2>1. lru \in [1..NumEntries -> Entries]  BY <1>0 DEF Entries
    <2>2. cam \in [Entries -> [tag : Tags, locked : BOOLEAN]]  BY Zenon DEF Tags
    <2>3. emem \in [Flows -> Copies]  BY CopyTypes, Zenon DEF Latest
    <2>4. job \in [Ctx -> Jobs]  BY <1>2, Zenon
    <2>5. turn \in Ctx  BY <1>0 DEF Ctx
    <2>6. lockq \in [Entries -> Seq(Ctx)]  OBVIOUS
    <2>7. /\ lm \in [Entries -> Copies] /\ cls \in [Slots -> Copies]
          /\ status \in [Slots -> Tags \cup {None}]
      BY CopyTypes, Zenon DEF Slots
    <2> QED  BY <2>1, <2>2, <2>3, <2>4, <2>5, <2>6, <2>7, Zenon DEF Types, Jobs
  <1>4. Order
    <2>1. \A i \in 1..NumEntries : lru[i] = i - 1  BY Zenon
    <2>2. \A e \in Entries : e + 1 \in 1..NumEntries /\ (e + 1) - 1 = e
      BY <1>0 DEF Entries
    <2>3. \A e \in Entries : \E i \in 1..NumEntries : lru[i] = e  BY <2>1, <2>2, Zenon
    <2>4. \A i, j \in 1..NumEntries : lru[i] = lru[j] => i = j  BY <1>0, <2>1
    <2> QED  BY <1>1, <2>3, <2>4, Zenon DEF Order
  <1>5. \A e \in Entries : cam[e].tag = NoTag(e) /\ ~cam[e].locked  BY Zenon
  <1>6. Pinned  BY <1>1, <1>5, NoTagApart, Zenon DEF Pinned
  <1>7. Locking  BY <1>0, <1>1, <1>5 DEF Locking
  <1>8. Places
    <2>1. \A f \in Flows : f \in Nat /\ f <= NumFlows  BY CacheNat DEF Flows
    <2>2. \A e \in Entries : NoTag(e) \notin Flows  BY <2>1, NoTagApart, CacheNat
    <2>3. \A s \in Slots : status[s] = None  BY Zenon DEF Slots
    <2>4. \A f \in Flows : f # None /\ Slot(f) \in Slots  BY TagNat, Zenon
    <2> QED  BY <1>1, <1>5, <2>2, <2>3, <2>4, Zenon DEF Places, Latest
  <1> QED  BY <1>3, <1>4, <1>6, <1>7, <1>8, Zenon DEF CacheInv

-----------------------------------------------------------------------------
LEMMA CacheFinds == CacheInv => LatestFound
  <1> SUFFICES ASSUME CacheInv PROVE LatestFound  BY Zenon
  <1> USE DEF CacheInv
  <1>1. TypeOK
    <2>1. {lru[i] : i \in DOMAIN lru} = Entries
      <3>1. DOMAIN lru = 1..NumEntries /\ \A i \in 1..NumEntries : lru[i] \in Entries
        BY Zenon DEF Types
      <3> QED  BY <3>1 DEF Order
    <2>2. Len(lru) = NumEntries  BY CacheNat DEF Types
    <2> QED  BY <2>1, <2>2 DEF TypeOK, Types, Tags, Locking
  <1>2. ASSUME NEW f \in Flows PROVE Found(f) = Copy(f, TRUE)
    <2>1. CASE Cached(f)
      <3> DEFINE e == CHOOSE x \in Entries : cam[x].tag = f
                 c == CHOOSE d \in Ctx : job[d].pc = "fetch" /\ job[d].entry = e
      <3>1. e \in Entries /\ cam[e].tag = f  BY <2>1, Zenon DEF Cached
      <3>2. Found(f) = IF cam[e].locked THEN job[c].fs ELSE lm[e]
        BY <2>1, Zenon DEF Found, Cached
      <3> HIDE DEF e
      <3>3. CASE cam[e].locked
        <4>1. c \in Ctx /\ job[c].pc = "fetch" /\ job[c].entry = e
          BY <3>1, <3>3, Zenon DEF Locking
        <4> HIDE DEF c
        <4>2. job[c].fs = Latest(f)
          BY <3>1, <4>1 DEF Places, Pinned, Busy
        <4> QED  BY <3>2, <3>3, <4>2, Zenon DEF Latest
      <3>4. CASE ~cam[e].locked
        <4>1. lm[e] = Latest(f)  BY <3>1, <3>4, Zenon DEF Places
        <4> QED  BY <3>2, <3>4, <4>1, Zenon DEF Latest
      <3> QED  BY <3>3, <3>4, Zenon
    <2>2. CASE ~Cached(f)
      BY <2>2, Zenon DEF Found, Cached, Places, Latest
    <2> QED  BY <2>1, <2>2, Zenon
  <1> QED  BY <1>1, <1>2, Zenon DEF LatestFound, Pinned

LEMMA CacheOwn == CacheInv => OwnState
  <1> SUFFICES ASSUME CacheInv, NEW c \in Ctx, job[c].pc = "ready"
               PROVE  lm[job[c].entry] = Copy(job[c].flow, TRUE)
    BY Zenon DEF OwnState
  <1>1. /\ job[c].entry \in Entries /\ ~cam[job[c].entry].locked
        /\ job[c].flow \in Flows /\ cam[job[c].entry].tag = job[c].flow
    BY DEF CacheInv, Types, Locking, Pinned, Busy
  <1> QED  BY <1>1, Zenon DEF CacheInv, Places, Latest

(* For every number of contexts, entries, slots and flows, and every       *)
(* interleaving of lookups, misses, evictions and fetches, a lookup in     *)
(* process_work finds the latest state of its flow in one of the three     *)
(* levels, and no two entries of the CAM have the same tag.                *)
THEOREM CacheLatestFound == Spec => []LatestFound
  <1>1. Spec => []CacheInv  BY InitCache, NextCache, PTL DEF Spec
  <1> QED  BY <1>1, CacheFinds, PTL

(* What a context works on, after all the waits of process_work, is the    *)
(* latest state of its own flow: handle_miss never takes the entry of a    *)
(* context that is still busy, because contexts take work in turn and      *)
(* there are at least as many entries as contexts.                         *)
THEOREM CacheOwnState == Spec => []OwnState
  <1>1. Spec => []CacheInv  BY InitCache, NextCache, PTL DEF Spec
  <1> QED  BY <1>1, CacheOwn, PTL
=============================================================================
