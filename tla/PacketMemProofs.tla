-------------------------- MODULE PacketMemProofs --------------------------
(***************************************************************************)
(* The packet memory manager never gives one byte of a zone to two owners, *)
(* for every number of zones, zone size and set of request lengths.        *)
(*                                                                         *)
(* The free list is a list that packetmem_free does not keep in order, so  *)
(* the argument cannot rest on its order: it is that every list operation  *)
(* (unlink, split, insert, absorb the next entry) turns a list of disjoint *)
(* blocks that avoid the callers' handles into another such list.          *)
(***************************************************************************)
EXTENDS PacketMem, TLAPS

(* A block lies in its zone and within the page.                           *)
Fits(h, z) == h.zone = z /\ h.base + h.len <= PageSize

(* A free list of zone z whose blocks are disjoint from each other and     *)
(* from the handles of the zone that callers hold.                         *)
GoodList(fl, z, held) ==
  /\ fl \in Seq(Handle)
  /\ \A i \in 1..Len(fl) : Fits(fl[i], z)
  /\ \A i, j \in 1..Len(fl) : i # j => Apart(fl[i], fl[j])
  /\ \A i \in 1..Len(fl) : \A h \in held : h.zone = z => Apart(fl[i], h)

(* The inductive invariant: NoOverlapInZone, with the blocks' bounds,      *)
(* which a split needs to stay well typed.                                 *)
IInv ==
  /\ freelist \in [Zone -> Seq(Handle)]
  /\ allocated \subseteq Handle
  /\ \A h \in allocated : h.base + h.len <= PageSize
  /\ \A z \in Zone : GoodList(freelist[z], z, allocated)
  /\ \A g, h \in allocated : g.zone = h.zone /\ g # h => Apart(g, h)

(* A function on 1..n with values in S is a sequence over S of length n.   *)
LEMMA SeqOfFunction ==
  ASSUME NEW S, NEW n \in Nat, NEW f \in [1..n -> S]
  PROVE  f \in Seq(S) /\ Len(f) = n /\ DOMAIN f = 1..n
  OBVIOUS

(* The fields of a handle, and a handle from its fields.                   *)
LEMMA HandleFields ==
  /\ \A h \in Handle : h.zone \in Zone /\ h.base \in Nat /\ h.len \in Nat \ {0}
  /\ \A z \in Zone : \A b, l \in Nat :
       l # 0 /\ b + l <= PageSize => [zone |-> z, base |-> b, len |-> l] \in Handle
  BY PacketMemAssumption DEF Handle

(* Unlinking an entry (packetmem_zone_alloc's exact fit) keeps a list good. *)
LEMMA RemoveGood ==
  ASSUME NEW z, NEW held, NEW fl, GoodList(fl, z, held), NEW i \in 1..Len(fl)
  PROVE  /\ GoodList(RemoveEntry(fl, i), z, held)
         /\ \A j \in 1..Len(RemoveEntry(fl, i)) : Apart(RemoveEntry(fl, i)[j], fl[i])
<1> DEFINE r == RemoveEntry(fl, i)
           n == Len(fl) - 1
<1>1. n \in Nat /\ fl \in [1..Len(fl) -> Handle]
  BY DEF GoodList
<1>2. r \in [1..n -> Handle]
  BY <1>1 DEF RemoveEntry
<1>3. r \in Seq(Handle) /\ Len(r) = n
  BY <1>1, <1>2, SeqOfFunction
<1>4. ASSUME NEW j \in 1..n
      PROVE  \E k \in 1..Len(fl) : k # i /\ r[j] = fl[k] /\ k = (IF j < i THEN j ELSE j + 1)
  BY <1>1 DEF RemoveEntry
<1> HIDE DEF r, n
<1>5. \A j \in 1..n : Fits(r[j], z)
  BY <1>4 DEF GoodList
<1>6. \A j, k \in 1..n : j # k => Apart(r[j], r[k])
  <2> TAKE j, k \in 1..n
  <2> HAVE j # k
  <2>1. PICK a \in 1..Len(fl) : r[j] = fl[a] /\ a = (IF j < i THEN j ELSE j + 1)
    BY <1>4
  <2>2. PICK b \in 1..Len(fl) : r[k] = fl[b] /\ b = (IF k < i THEN k ELSE k + 1)
    BY <1>4
  <2>3. a # b
    BY <2>1, <2>2, <1>1
  <2> QED
    BY <2>1, <2>2, <2>3 DEF GoodList
<1>7. \A j \in 1..n : \A h \in held : h.zone = z => Apart(r[j], h)
  BY <1>4 DEF GoodList
<1>8. \A j \in 1..n : Apart(r[j], fl[i])
  BY <1>4 DEF GoodList
<1> QED
  BY <1>3, <1>5, <1>6, <1>7, <1>8 DEF GoodList, r

(* Allocating from entry i leaves a good list, and the block handed out is *)
(* disjoint from every entry that stays.                                   *)
LEMMA TakeGood ==
  ASSUME NEW z, NEW held \in SUBSET Handle, NEW fl, GoodList(fl, z, held),
         NEW i \in 1..Len(fl), NEW length \in 1..PageSize, fl[i].len >= length,
         NEW h \in Handle, h.zone = z, h.base = fl[i].base, h.len = length
  PROVE  GoodList(TakeFrom(fl, i, length), z, held \cup {h})
<1> DEFINE t == TakeFrom(fl, i, length)
<1> USE PacketMemAssumption
<1>1. fl \in [1..Len(fl) -> Handle] /\ Len(fl) \in Nat /\ fl[i] \in Handle
  BY DEF GoodList
<1>2. CASE fl[i].len = length
  <2>1. t = RemoveEntry(fl, i)
    BY <1>2 DEF TakeFrom
  <2>2. \A j \in 1..Len(t) : Apart(t[j], h)
    BY <2>1, <1>2, RemoveGood DEF Apart
  <2>3. GoodList(t, z, held)
    BY <2>1, RemoveGood
  <2> HIDE DEF t
  <2>4. GoodList(t, z, held \cup {h})
    BY <2>2, <2>3 DEF GoodList
  <2> QED
    BY <2>4 DEF t
<1>3. CASE fl[i].len # length
  <2> DEFINE rest == [zone |-> fl[i].zone, base |-> fl[i].base + length,
                      len |-> fl[i].len - length]
  <2>1. t = [fl EXCEPT ![i] = rest]
    BY <1>3 DEF TakeFrom
  <2>2. /\ rest \in Handle
        /\ rest.zone = fl[i].zone
        /\ rest.base = fl[i].base + length
        /\ rest.len = fl[i].len - length
    <3>1. /\ fl[i].base + length \in Nat
          /\ fl[i].len - length \in Nat \ {0}
          /\ fl[i].base + length + (fl[i].len - length) <= PageSize
      <4>1. fl[i].base \in Nat /\ fl[i].len \in Nat /\ fl[i].base + fl[i].len <= PageSize
        BY <1>1, HandleFields DEF Fits, GoodList
      <4> QED BY <4>1, <1>3
    <3> QED BY <3>1, <1>1, HandleFields
  <2> HIDE DEF rest
  <2>3. t \in [1..Len(fl) -> Handle] /\ t[i] = rest
    BY <2>1, <2>2, <1>1 DEF rest
  <2>4. t \in Seq(Handle) /\ Len(t) = Len(fl)
    BY <2>3, <1>1, SeqOfFunction
  <2>5. \A j \in 1..Len(fl) : j # i => t[j] = fl[j]
    BY <2>1, <1>1
  <2> HIDE DEF t
  <2>6. \A j \in 1..Len(fl) : fl[j] \in Handle
    BY <1>1
  <2>7. \A g \in Handle : Apart(g, fl[i]) => Apart(g, rest)
    <3> TAKE g \in Handle
    <3>1. /\ g.base \in Nat /\ g.len \in Nat
          /\ fl[i].base \in Nat /\ fl[i].len \in Nat /\ length \in Nat
      BY <1>1, HandleFields
    <3> QED  BY <2>2, <3>1 DEF Apart
  <2>8. \A g \in Handle : Apart(g, fl[i]) => Apart(g, h)
    BY <1>1 DEF Apart, Handle
  <2>9. Apart(rest, h)
    BY <2>2, <1>1 DEF Apart, Handle
  <2>10. \A j \in 1..Len(fl) : Fits(t[j], z)
    <3> TAKE j \in 1..Len(fl)
    <3>1. Fits(fl[j], z) /\ Fits(fl[i], z)  BY DEF GoodList
    <3>2. fl[i].base \in Nat /\ fl[i].len \in Nat /\ length \in Nat
      BY <1>1, HandleFields
    <3>3. Fits(rest, z)  BY <2>2, <3>1, <3>2 DEF Fits
    <3> QED  BY <2>3, <2>5, <3>1, <3>3
  <2>11. \A j, k \in 1..Len(fl) : j # k => Apart(t[j], t[k])
    <3> TAKE j, k \in 1..Len(fl)
    <3> HAVE j # k
    <3>1. Apart(fl[j], fl[k]) /\ Apart(fl[k], fl[j])  BY DEF GoodList
    <3>2. CASE j = i
      <4>1. Apart(fl[k], rest)  BY <3>1, <3>2, <2>6, <2>7
      <4> QED  BY <4>1, <3>2, <2>3, <2>5 DEF Apart
    <3>3. CASE k = i
      BY <3>1, <3>3, <2>3, <2>5, <2>6, <2>7
    <3> QED  BY <3>1, <3>2, <3>3, <2>5
  <2>12. \A j \in 1..Len(fl) : \A g \in held : g.zone = z => Apart(t[j], g)
    <3> TAKE j \in 1..Len(fl)
    <3> TAKE g \in held
    <3> HAVE g.zone = z
    <3>1. Apart(fl[j], g)
      BY DEF GoodList
    <3>2. CASE j # i
      BY <3>1, <3>2, <2>5
    <3>3. CASE j = i
      <4>1. g \in Handle /\ Apart(g, fl[i])  BY <3>1, <3>3 DEF Apart
      <4>2. Apart(g, rest)  BY <4>1, <2>7
      <4> QED  BY <4>2, <3>3, <2>3 DEF Apart
    <3> QED BY <3>2, <3>3
  <2>13. \A j \in 1..Len(fl) : Apart(t[j], h)
    <3> TAKE j \in 1..Len(fl)
    <3>1. CASE j # i
      BY <3>1, <2>5, <2>6, <2>8 DEF GoodList
    <3>2. CASE j = i
      BY <3>2, <2>9, <2>3
    <3> QED BY <3>1, <3>2
  <2> QED
    BY <2>4, <2>10, <2>11, <2>12, <2>13 DEF GoodList, t
<1> QED BY <1>2, <1>3

(* Linking a handle that a caller gives back keeps a list good.            *)
LEMMA InsertGood ==
  ASSUME NEW z, NEW held, NEW fl, GoodList(fl, z, held), NEW p \in 0..Len(fl),
         NEW h \in Handle, Fits(h, z),
         \A i \in 1..Len(fl) : Apart(fl[i], h),
         \A g \in held : g.zone = z => Apart(h, g)
  PROVE  /\ GoodList(InsertAfter(fl, p, h), z, held)
         /\ Len(InsertAfter(fl, p, h)) = Len(fl) + 1
<1> DEFINE r == InsertAfter(fl, p, h)
           n == Len(fl) + 1
           From(j) == IF j <= p THEN j ELSE j - 1
<1>1. n \in Nat /\ Len(fl) \in Nat /\ fl \in [1..Len(fl) -> Handle]
  BY DEF GoodList
<1>2. r \in [1..n -> Handle]
  BY <1>1 DEF InsertAfter
<1>3. r \in Seq(Handle) /\ Len(r) = n
  BY <1>1, <1>2, SeqOfFunction
<1>4. r[p + 1] = h /\ p + 1 \in 1..n
  BY <1>1 DEF InsertAfter
<1>5. \A j \in 1..n : j # p + 1 => From(j) \in 1..Len(fl) /\ r[j] = fl[From(j)]
  BY <1>1 DEF InsertAfter
<1>6. \A j, k \in 1..n : j # k /\ j # p + 1 /\ k # p + 1 => From(j) # From(k)
  BY <1>1
<1> HIDE DEF r, n, From
<1>7. \A j \in 1..n : Fits(r[j], z)
  BY <1>4, <1>5 DEF GoodList
<1>8. \A j, k \in 1..n : j # k => Apart(r[j], r[k])
  <2> TAKE j, k \in 1..n
  <2> HAVE j # k
  <2>1. CASE j = p + 1
    BY <2>1, <1>4, <1>5 DEF Apart
  <2>2. CASE k = p + 1
    BY <2>2, <1>4, <1>5
  <2>3. CASE j # p + 1 /\ k # p + 1
    BY <2>3, <1>5, <1>6 DEF GoodList
  <2> QED BY <2>1, <2>2, <2>3
<1>9. \A j \in 1..n : \A g \in held : g.zone = z => Apart(r[j], g)
  BY <1>4, <1>5 DEF GoodList
<1>10. GoodList(r, z, held)
  BY <1>3, <1>7, <1>8, <1>9 DEF GoodList
<1> QED
  BY <1>3, <1>10 DEF r, n

(* Merging an entry with the next one, when their bytes are adjacent,      *)
(* keeps a list good (merge_items).                                        *)
LEMMA AbsorbGood ==
  ASSUME NEW z \in Zone, NEW held \in SUBSET Handle, NEW fl,
         GoodList(fl, z, held), NEW i, Adjacent(fl, i)
  PROVE  GoodList(Absorb(fl, i), z, held)
<1> DEFINE r == Absorb(fl, i)
           n == Len(fl) - 1
           From(j) == IF j < i THEN j ELSE j + 1
           both == [zone |-> fl[i].zone, base |-> fl[i].base,
                    len |-> fl[i].len + fl[i + 1].len]
<1>1. /\ n \in Nat /\ i \in 1..n /\ Len(fl) \in Nat
      /\ i \in 1..Len(fl) /\ i + 1 \in 1..Len(fl)
      /\ fl \in [1..Len(fl) -> Handle]
  BY DEF GoodList, Adjacent
<1>2. /\ fl[i] \in Handle /\ fl[i + 1] \in Handle
      /\ fl[i].base + fl[i].len = fl[i + 1].base
      /\ Fits(fl[i], z) /\ Fits(fl[i + 1], z)
  BY <1>1 DEF GoodList, Adjacent
<1>3. /\ fl[i].base \in Nat /\ fl[i].len \in Nat \ {0}
      /\ fl[i + 1].base \in Nat /\ fl[i + 1].len \in Nat \ {0}
  BY <1>2, HandleFields
<1>4. both \in Handle /\ Fits(both, z)
  <2>1. /\ fl[i].len + fl[i + 1].len \in Nat \ {0}
        /\ fl[i].base + (fl[i].len + fl[i + 1].len) <= PageSize
        /\ fl[i].zone = z
    BY <1>2, <1>3, PacketMemAssumption DEF Fits
  <2> QED BY <2>1, <1>3, HandleFields DEF Fits
<1>5. \A g \in Handle : Apart(fl[i], g) /\ Apart(fl[i + 1], g)
                          => Apart(both, g) /\ Apart(g, both)
  BY <1>2, <1>3, HandleFields DEF Apart
<1>6. r \in [1..n -> Handle]
  BY <1>1, <1>4 DEF Absorb
<1>7. r \in Seq(Handle) /\ Len(r) = n
  BY <1>1, <1>6, SeqOfFunction
<1>8. r[i] = both
  BY <1>1 DEF Absorb
<1>9. \A j \in 1..n : j # i => /\ From(j) \in 1..Len(fl)
                               /\ From(j) # i /\ From(j) # i + 1
                               /\ r[j] = fl[From(j)]
  BY <1>1 DEF Absorb
<1>10. \A j, k \in 1..n : j # k => From(j) # From(k)
  BY <1>1
<1> HIDE DEF r, n, From, both
<1>11. \A j \in 1..n : Fits(r[j], z)
  BY <1>4, <1>8, <1>9 DEF GoodList
<1>12. \A j \in 1..n : j # i => /\ r[j] \in Handle
                                /\ Apart(fl[i], r[j]) /\ Apart(fl[i + 1], r[j])
  BY <1>1, <1>9 DEF GoodList
<1>13. \A j, k \in 1..n : j # k => Apart(r[j], r[k])
  <2> TAKE j, k \in 1..n
  <2> HAVE j # k
  <2>1. CASE j = i
    BY <2>1, <1>5, <1>8, <1>12
  <2>2. CASE k = i
    BY <2>2, <1>5, <1>8, <1>12
  <2>3. CASE j # i /\ k # i
    BY <2>3, <1>9, <1>10 DEF GoodList
  <2> QED BY <2>1, <2>2, <2>3
<1>14. \A j \in 1..n : \A g \in held : g.zone = z => Apart(r[j], g)
  BY <1>1, <1>5, <1>8, <1>9 DEF GoodList
<1>15. GoodList(r, z, held)
  BY <1>7, <1>11, <1>13, <1>14 DEF GoodList
<1> QED
  BY <1>15 DEF r

(* merge_items keeps a list good.                                          *)
LEMMA MergeGood ==
  ASSUME NEW z \in Zone, NEW held \in SUBSET Handle, NEW fl,
         GoodList(fl, z, held), NEW p
  PROVE  GoodList(MergeItems(fl, p), z, held)
<1> DEFINE merged == IF Adjacent(fl, p) THEN Absorb(fl, p) ELSE fl
           ph     == IF Adjacent(fl, p) THEN p ELSE p + 1
<1>1. GoodList(merged, z, held)
  BY AbsorbGood
<1>2. MergeItems(fl, p) = IF Adjacent(merged, ph) THEN Absorb(merged, ph) ELSE merged
  BY DEF MergeItems
<1> HIDE DEF merged, ph
<1> QED
  BY <1>1, <1>2, AbsorbGood

-----------------------------------------------------------------------------

(* packetmem_init establishes the invariant.                               *)
LEMMA InitIInv == Init => IInv
<1> SUFFICES ASSUME Init PROVE IInv
  OBVIOUS
<1> DEFINE whole(z) == [zone |-> z, base |-> 0, len |-> PageSize]
<1>1. \A z \in Zone : whole(z) \in Handle /\ Fits(whole(z), z)
  BY PacketMemAssumption DEF Handle, Fits
<1>2. \A z \in Zone : freelist[z] = <<whole(z)>>
  BY DEF Init
<1>3. \A z \in Zone : GoodList(<<whole(z)>>, z, {})
  BY <1>1 DEF GoodList
<1> QED
  BY <1>1, <1>2, <1>3 DEF Init, IInv

(* packetmem_alloc preserves the invariant.                                *)
LEMMA AllocIInv ==
  ASSUME IInv, NEW length \in Lengths, Alloc(length)
  PROVE  IInv'
<1>0. PICK z \in Zone : \E i \in 1..Len(freelist[z]) :
         /\ IsFirstFit(freelist[z], i, length)
         /\ freelist' = [freelist EXCEPT ![z] = TakeFrom(freelist[z], i, length)]
         /\ allocated' = allocated \cup
              {[zone |-> z, base |-> freelist[z][i].base, len |-> length]}
  BY DEF Alloc
<1>1. PICK i \in 1..Len(freelist[z]) :
         /\ IsFirstFit(freelist[z], i, length)
         /\ freelist' = [freelist EXCEPT ![z] = TakeFrom(freelist[z], i, length)]
         /\ allocated' = allocated \cup
              {[zone |-> z, base |-> freelist[z][i].base, len |-> length]}
  BY <1>0
<1> DEFINE fl == freelist[z]
           h == [zone |-> z, base |-> fl[i].base, len |-> length]
<1>2. GoodList(fl, z, allocated) /\ fl \in Seq(Handle) /\ fl[i] \in Handle
  BY DEF IInv
<1>3. /\ length \in 1..PageSize /\ length \in Nat \ {0} /\ fl[i].len >= length
      /\ fl[i].base \in Nat /\ fl[i].len \in Nat
      /\ fl[i].base + fl[i].len <= PageSize
  BY <1>1, <1>2, HandleFields, PacketMemAssumption DEF IsFirstFit, GoodList, Fits
<1>4. fl[i].base + length <= PageSize
  BY <1>3, PacketMemAssumption
<1>5. /\ h \in Handle /\ h.zone = z /\ h.base = fl[i].base /\ h.len = length
      /\ h.base + h.len <= PageSize
  BY <1>3, <1>4, HandleFields
<1> HIDE DEF h
<1>6. allocated' = allocated \cup {h} /\ allocated \in SUBSET Handle
  BY <1>1 DEF h, IInv
<1>7. GoodList(TakeFrom(fl, i, length), z, allocated \cup {h})
  BY <1>2, <1>3, <1>5, <1>6, TakeGood
<1>8. freelist'[z] = TakeFrom(fl, i, length)
  BY <1>1 DEF IInv
<1>9. \A y \in Zone : y # z => freelist'[y] = freelist[y]
  BY <1>1 DEF IInv
<1>10. \A g \in allocated : g.zone = z => Apart(g, h) /\ Apart(h, g)
  <2>1. \A g \in allocated : g.zone = z => Apart(fl[i], g)
    BY <1>2 DEF GoodList
  <2>2. \A g \in allocated : g.base \in Nat /\ g.len \in Nat
    BY <1>6, HandleFields
  <2> QED BY <2>1, <2>2, <1>3, <1>5 DEF Apart
<1>11. \A y \in Zone : GoodList(freelist'[y], y, allocated')
  <2> TAKE y \in Zone
  <2>1. CASE y = z
    BY <2>1, <1>6, <1>7, <1>8
  <2>2. CASE y # z
    <3>1. freelist'[y] = freelist[y] /\ GoodList(freelist[y], y, allocated)
      BY <2>2, <1>9 DEF IInv
    <3> QED BY <3>1, <2>2, <1>5, <1>6 DEF GoodList
  <2> QED BY <2>1, <2>2
<1>12. freelist' \in [Zone -> Seq(Handle)]
  BY <1>1, <1>7 DEF IInv, GoodList
<1>13. \A g, k \in allocated' : g.zone = k.zone /\ g # k => Apart(g, k)
  BY <1>5, <1>6, <1>10 DEF IInv
<1>14. allocated' \subseteq Handle /\ \A g \in allocated' : g.base + g.len <= PageSize
  BY <1>5, <1>6 DEF IInv
<1> QED
  BY <1>11, <1>12, <1>13, <1>14 DEF IInv

(* packetmem_free, with its merge_items, preserves the invariant.          *)
LEMMA FreeIInv ==
  ASSUME IInv, NEW h \in allocated, Free(h)
  PROVE  IInv'
<1> DEFINE z == h.zone
           fl == freelist[z]
<1>1. PICK p \in 0..Len(fl) :
         /\ freelist' = [freelist EXCEPT ![z] = MergeItems(InsertAfter(fl, p, h), p)]
         /\ allocated' = allocated \ {h}
  BY DEF Free
<1> DEFINE held == allocated \ {h}
<1>2. h \in Handle /\ z \in Zone /\ Fits(h, z)
  BY HandleFields DEF IInv, Fits
<1>3. held \in SUBSET Handle /\ GoodList(fl, z, held)
  BY <1>2 DEF IInv, GoodList
<1>4. \A i \in 1..Len(fl) : Apart(fl[i], h)
  BY <1>2 DEF IInv, GoodList
<1>5. \A g \in held : g.zone = z => Apart(h, g)
  BY DEF IInv
<1>6. GoodList(InsertAfter(fl, p, h), z, held)
  BY <1>2, <1>3, <1>4, <1>5, InsertGood
<1>7. GoodList(MergeItems(InsertAfter(fl, p, h), p), z, held)
  BY <1>2, <1>3, <1>6, MergeGood
<1>8. \A y \in Zone : GoodList(freelist'[y], y, allocated')
  <2> TAKE y \in Zone
  <2>1. CASE y = z
    BY <2>1, <1>1, <1>2, <1>7 DEF IInv
  <2>2. CASE y # z
    <3>1. freelist'[y] = freelist[y] /\ GoodList(freelist[y], y, allocated)
      BY <2>2, <1>1 DEF IInv
    <3> QED BY <3>1, <1>1 DEF GoodList
  <2> QED BY <2>1, <2>2
<1>9. freelist' \in [Zone -> Seq(Handle)]
  BY <1>1, <1>7 DEF IInv, GoodList
<1> QED
  BY <1>1, <1>8, <1>9 DEF IInv

(* IInv is an invariant of the packet memory manager.                      *)
LEMMA Invariance == Spec => []IInv
<1>1. IInv /\ [Next]_vars => IInv'
  <2> SUFFICES ASSUME IInv, [Next]_vars PROVE IInv'
    OBVIOUS
  <2>1. ASSUME NEW length \in Lengths, Alloc(length) PROVE IInv'
    BY <2>1, AllocIInv
  <2>2. ASSUME NEW h \in allocated, Free(h) PROVE IInv'
    BY <2>2, FreeIInv
  <2>3. CASE UNCHANGED vars
    BY <2>3 DEF vars, IInv, GoodList
  <2> QED BY <2>1, <2>2, <2>3 DEF Next
<1> QED
  BY <1>1, InitIInv, PTL DEF Spec

(* Type correctness of the packet memory manager.                          *)
THEOREM PacketMemTypes == Spec => []TypeOK
<1>1. IInv => TypeOK
  BY DEF IInv, TypeOK
<1> QED
  BY <1>1, Invariance, PTL

(* packetmem_alloc, packetmem_free and merge_items never make two owners   *)
(* of one byte of a zone, for any number and size of zones and any lengths. *)
THEOREM PacketMemSafety == Spec => []NoOverlapInZone
<1>1. IInv => NoOverlapInZone
  BY DEF IInv, GoodList, NoOverlapInZone
<1> QED
  BY <1>1, Invariance, PTL

(* With a single zone, the size the README gives as the default, the       *)
(* buffers handed to two callers never overlap in the DMA region.          *)
THEOREM OneZoneOffsets == TotalZones = 1 => (Spec => []OffsetsDisjoint)
<1>1. TotalZones = 1 /\ IInv => OffsetsDisjoint
  <2> SUFFICES ASSUME TotalZones = 1, IInv, NEW g \in allocated, NEW h \in allocated, g # h
               PROVE  Apart(g, h)
    BY DEF OffsetsDisjoint, Offset, Apart
  <2>1. g.zone = h.zone
    BY HandleFields DEF IInv, Zone
  <2> QED BY <2>1 DEF IInv
<1>2. CASE TotalZones = 1
  <2>1. IInv => OffsetsDisjoint
    BY <1>1, <1>2
  <2> QED BY <2>1, Invariance, PTL
<1> QED BY <1>2

-----------------------------------------------------------------------------
(* The bytes of a block, and whether a list holds byte k.                  *)
Bytes(b) == b.base..(b.base + b.len - 1)
Has(fl, k) == \E i \in 1..Len(fl) : k \in Bytes(fl[i])

(* Unlinking an entry takes no bytes but its own off the list.             *)
LEMMA RemoveHas ==
  ASSUME NEW fl \in Seq(Handle), NEW i \in 1..Len(fl), NEW k, Has(fl, k)
  PROVE  Has(RemoveEntry(fl, i), k) \/ k \in Bytes(fl[i])
<1> DEFINE r == RemoveEntry(fl, i)
           n == Len(fl) - 1
<1>1. n \in Nat /\ fl \in [1..Len(fl) -> Handle]
  OBVIOUS
<1>2. r \in [1..n -> Handle]
  BY <1>1 DEF RemoveEntry
<1>3. Len(r) = n
  BY <1>1, <1>2, SeqOfFunction
<1>4. PICK j \in 1..Len(fl) : k \in Bytes(fl[j])
  BY DEF Has
<1>5. CASE j < i
  <2>1. j \in 1..n /\ r[j] = fl[j]
    BY <1>1, <1>5 DEF RemoveEntry
  <2> QED
    BY <1>3, <1>4, <2>1, Zenon DEF Has
<1>6. CASE j > i
  <2>1. j - 1 \in 1..n /\ r[j - 1] = fl[j]
    BY <1>1, <1>6 DEF RemoveEntry
  <2> QED
    BY <1>3, <1>4, <2>1, Zenon DEF Has
<1>7. CASE j = i
  BY <1>4, <1>7
<1> QED
  BY <1>5, <1>6, <1>7

(* Allocating from entry i takes just the bytes handed out off the list.   *)
LEMMA TakeHas ==
  ASSUME NEW fl \in Seq(Handle), NEW i \in 1..Len(fl), NEW length \in 1..PageSize,
         fl[i].len >= length, NEW h, h.base = fl[i].base, h.len = length,
         NEW k \in Nat, Has(fl, k)
  PROVE  Has(TakeFrom(fl, i, length), k) \/ k \in Bytes(h)
<1> DEFINE t == TakeFrom(fl, i, length)
<1>1. fl \in [1..Len(fl) -> Handle] /\ Len(fl) \in Nat /\ fl[i] \in Handle
  OBVIOUS
<1>2. CASE fl[i].len = length
  <2>1. t = RemoveEntry(fl, i)
    BY <1>2 DEF TakeFrom
  <2>2. Bytes(h) = Bytes(fl[i])
    BY <1>2 DEF Bytes
  <2> QED
    BY <2>1, <2>2, RemoveHas, Zenon
<1>3. CASE fl[i].len # length
  <2> DEFINE rest == [zone |-> fl[i].zone, base |-> fl[i].base + length,
                      len |-> fl[i].len - length]
  <2>1. t = [fl EXCEPT ![i] = rest]
    BY <1>3 DEF TakeFrom
  <2>2. Len(t) = Len(fl) /\ t[i] = rest /\ \A j \in 1..Len(fl) : j # i => t[j] = fl[j]
    BY <2>1
  <2>3. /\ fl[i].base \in Nat /\ fl[i].len \in Nat /\ length \in Nat
    BY <1>1, HandleFields, PacketMemAssumption
  <2>4. k \in Bytes(fl[i]) => k \in Bytes(rest) \/ k \in Bytes(h)
    BY <2>3 DEF Bytes
  <2> HIDE DEF t, rest
  <2>5. PICK j \in 1..Len(fl) : k \in Bytes(fl[j])
    BY DEF Has
  <2>6. CASE j # i
    BY <2>2, <2>5, <2>6, Zenon DEF Has, t
  <2>7. CASE j = i
    <3>1. k \in Bytes(rest) \/ k \in Bytes(h)
      BY <2>4, <2>5, <2>7, Zenon
    <3> QED
      BY <2>2, <3>1, Zenon DEF Has, t
  <2> QED
    BY <2>6, <2>7
<1> QED
  BY <1>2, <1>3

(* An entry put in by packetmem_free adds its bytes and displaces none.    *)
LEMMA InsertHas ==
  ASSUME NEW fl \in Seq(Handle), NEW p \in 0..Len(fl), NEW h \in Handle, NEW k,
         Has(fl, k) \/ k \in Bytes(h)
  PROVE  Has(InsertAfter(fl, p, h), k) /\ InsertAfter(fl, p, h) \in Seq(Handle)
<1> DEFINE r == InsertAfter(fl, p, h)
           n == Len(fl) + 1
<1>1. n \in Nat /\ Len(fl) \in Nat /\ fl \in [1..Len(fl) -> Handle]
  OBVIOUS
<1>2. r \in [1..n -> Handle]
  BY <1>1 DEF InsertAfter
<1>3. Len(r) = n /\ r \in Seq(Handle)
  BY <1>1, <1>2, SeqOfFunction
<1>4. CASE k \in Bytes(h)
  <2>1. p + 1 \in 1..n /\ r[p + 1] = h
    BY <1>1 DEF InsertAfter
  <2> QED
    BY <1>3, <1>4, <2>1, Zenon DEF Has
<1>5. CASE Has(fl, k)
  <2>1. PICK j \in 1..Len(fl) : k \in Bytes(fl[j])
    BY <1>5 DEF Has
  <2>2. CASE j <= p
    <3>1. j \in 1..n /\ r[j] = fl[j]
      BY <1>1, <2>2 DEF InsertAfter
    <3> QED
      BY <1>3, <2>1, <3>1, Zenon DEF Has
  <2>3. CASE j > p
    <3>1. j + 1 \in 1..n /\ r[j + 1] = fl[j]
      BY <1>1, <2>3 DEF InsertAfter
    <3> QED
      BY <1>3, <2>1, <3>1, Zenon DEF Has
  <2> QED
    BY <2>2, <2>3
<1> QED
  BY <1>3, <1>4, <1>5

(* Block c is contiguous blocks a and b joined.                            *)
Joins(a, b, c) ==
  /\ a.base \in Nat /\ a.len \in Nat /\ b.len \in Nat
  /\ a.base + a.len = b.base
  /\ c.base = a.base /\ c.len = a.len + b.len

(* The joined block holds the bytes of both.                               *)
LEMMA JoinBytes ==
  ASSUME NEW a, NEW b, NEW c, Joins(a, b, c),
         NEW k \in Nat, k \in Bytes(a) \/ k \in Bytes(b)
  PROVE  k \in Bytes(c)
BY DEF Bytes, Joins

(* Two adjacent entries merged hold the bytes of both.                     *)
LEMMA AbsorbHas ==
  ASSUME NEW fl \in Seq(Handle), NEW i, Adjacent(fl, i), NEW k \in Nat, Has(fl, k)
  PROVE  Has(Absorb(fl, i), k)
<1> DEFINE r == Absorb(fl, i)
           n == Len(fl) - 1
           both == [zone |-> fl[i].zone, base |-> fl[i].base,
                    len |-> fl[i].len + fl[i + 1].len]
<1>1. /\ n \in Nat /\ i \in 1..n /\ Len(fl) \in Nat
      /\ fl[i] \in Handle /\ fl[i + 1] \in Handle
      /\ fl[i].base + fl[i].len = fl[i + 1].base
  BY DEF Adjacent
<1>2. /\ fl[i].base \in Nat /\ fl[i].len \in Nat /\ fl[i + 1].len \in Nat
  BY <1>1, HandleFields
<1>3. DOMAIN r = 1..n /\ Len(r) = n
  BY <1>1 DEF Absorb
<1>4. r[i] = both
  BY <1>1 DEF Absorb
<1>5. k \in Bytes(fl[i]) \/ k \in Bytes(fl[i + 1]) => k \in Bytes(both)
  <2>1. both.base = fl[i].base /\ both.len = fl[i].len + fl[i + 1].len
    OBVIOUS
  <2> HIDE DEF both
  <2>2. fl[i].base + fl[i].len = fl[i + 1].base
    BY <1>1
  <2>3. Joins(fl[i], fl[i + 1], both)
    BY <1>2, <2>1, <2>2, Zenon DEF Joins
  <2> QED
    BY <2>3, JoinBytes
<1>6. PICK j \in 1..Len(fl) : k \in Bytes(fl[j])
  BY DEF Has
<1> HIDE DEF both
<1>7. CASE j < i
  <2>1. j \in 1..n /\ r[j] = fl[j]
    BY <1>1, <1>7 DEF Absorb
  <2> QED
    BY <1>3, <1>6, <2>1, Zenon DEF Has
<1>8. CASE j = i \/ j = i + 1
  <2>1. k \in Bytes(both)
    BY <1>5, <1>6, <1>8, Zenon
  <2> QED
    BY <1>1, <1>3, <1>4, <2>1, Zenon DEF Has
<1>9. CASE j > i + 1
  <2>1. j - 1 \in 1..n /\ r[j - 1] = fl[j]
    BY <1>1, <1>9 DEF Absorb
  <2> QED
    BY <1>3, <1>6, <2>1, Zenon DEF Has
<1> QED
  BY <1>1, <1>7, <1>8, <1>9

(* merge_items loses no byte.                                              *)
LEMMA MergeHas ==
  ASSUME NEW z \in Zone, NEW held \in SUBSET Handle, NEW fl,
         GoodList(fl, z, held), NEW p, NEW k \in Nat, Has(fl, k)
  PROVE  Has(MergeItems(fl, p), k)
<1> DEFINE merged == IF Adjacent(fl, p) THEN Absorb(fl, p) ELSE fl
           ph     == IF Adjacent(fl, p) THEN p ELSE p + 1
<1>1. fl \in Seq(Handle)
  BY DEF GoodList
<1>2. Has(merged, k)
  BY <1>1, AbsorbHas
<1>3. merged \in Seq(Handle)
  BY <1>1, AbsorbGood DEF GoodList
<1>4. MergeItems(fl, p) = IF Adjacent(merged, ph) THEN Absorb(merged, ph) ELSE merged
  BY DEF MergeItems
<1> HIDE DEF merged, ph
<1> QED
  BY <1>2, <1>3, <1>4, AbsorbHas

(* Byte k of zone z has an owner.                                          *)
Owned(z, k) ==
  \/ Has(freelist[z], k)
  \/ \E h \in allocated : h.zone = z /\ k \in Bytes(h)

(* packetmem_alloc hands every byte it takes off a list to the caller.     *)
LEMMA AllocOwned ==
  ASSUME IInv, NEW length \in Lengths, Alloc(length),
         NEW y \in Zone, NEW k \in Nat, Owned(y, k)
  PROVE  Owned(y, k)'
<1>0. PICK z \in Zone : \E i \in 1..Len(freelist[z]) :
         /\ IsFirstFit(freelist[z], i, length)
         /\ freelist' = [freelist EXCEPT ![z] = TakeFrom(freelist[z], i, length)]
         /\ allocated' = allocated \cup
              {[zone |-> z, base |-> freelist[z][i].base, len |-> length]}
  BY DEF Alloc
<1>1. PICK i \in 1..Len(freelist[z]) :
         /\ IsFirstFit(freelist[z], i, length)
         /\ freelist' = [freelist EXCEPT ![z] = TakeFrom(freelist[z], i, length)]
         /\ allocated' = allocated \cup
              {[zone |-> z, base |-> freelist[z][i].base, len |-> length]}
  BY <1>0
<1> DEFINE fl == freelist[z]
           h == [zone |-> z, base |-> fl[i].base, len |-> length]
<1>2. fl \in Seq(Handle) /\ length \in 1..PageSize /\ fl[i].len >= length
  BY <1>1, PacketMemAssumption DEF IInv, IsFirstFit
<1>3. h.zone = z /\ h.base = fl[i].base /\ h.len = length
  OBVIOUS
<1>4. allocated' = allocated \cup {h}
  BY <1>1, Zenon
<1>5. /\ freelist'[z] = TakeFrom(fl, i, length)
      /\ y # z => freelist'[y] = freelist[y]
  BY <1>1 DEF IInv
<1> HIDE DEF h
<1>6. CASE \E g \in allocated : g.zone = y /\ k \in Bytes(g)
  BY <1>4, <1>6, Zenon DEF Owned
<1>7. CASE y # z /\ Has(freelist[y], k)
  <2>1. Has(freelist'[y], k)
    BY <1>5, <1>7, Zenon
  <2> QED
    BY <2>1, Zenon DEF Owned
<1>8. CASE y = z /\ Has(freelist[y], k)
  <2>1. Has(TakeFrom(fl, i, length), k) \/ k \in Bytes(h)
    BY <1>2, <1>3, <1>8, TakeHas
  <2>2. CASE Has(TakeFrom(fl, i, length), k)
    <3>1. Has(freelist'[y], k)
      BY <1>5, <1>8, <2>2, Zenon
    <3> QED
      BY <3>1, Zenon DEF Owned
  <2>3. CASE k \in Bytes(h)
    BY <1>3, <1>4, <1>8, <2>3, Zenon DEF Owned
  <2> QED
    BY <2>1, <2>2, <2>3
<1> QED
  BY <1>6, <1>7, <1>8, Zenon DEF Owned

(* packetmem_free puts every byte the caller gives up on the list.         *)
LEMMA FreeOwned ==
  ASSUME IInv, NEW h \in allocated, Free(h),
         NEW y \in Zone, NEW k \in Nat, Owned(y, k)
  PROVE  Owned(y, k)'
<1> DEFINE z == h.zone
           fl == freelist[z]
           held == allocated \ {h}
<1>1. PICK p \in 0..Len(fl) :
         /\ freelist' = [freelist EXCEPT ![z] = MergeItems(InsertAfter(fl, p, h), p)]
         /\ allocated' = held
  BY DEF Free
<1>2. h \in Handle /\ z \in Zone /\ Fits(h, z)
  BY HandleFields DEF IInv, Fits
<1>3. held \in SUBSET Handle /\ GoodList(fl, z, held)
  BY <1>2 DEF IInv, GoodList
<1>4. /\ \A i \in 1..Len(fl) : Apart(fl[i], h)
      /\ \A g \in held : g.zone = z => Apart(h, g)
  BY <1>2 DEF IInv, GoodList
<1> DEFINE ins == InsertAfter(fl, p, h)
<1>5. GoodList(ins, z, held)
  BY <1>2, <1>3, <1>4, InsertGood
<1>6. Has(fl, k) \/ k \in Bytes(h) => Has(ins, k)
  BY <1>2, <1>3, InsertHas DEF GoodList
<1>7. /\ freelist'[z] = MergeItems(ins, p)
      /\ y # z => freelist'[y] = freelist[y]
  BY <1>1, <1>2 DEF IInv
<1> HIDE DEF ins, fl
<1>8. Has(ins, k) => Has(freelist'[z], k)
  BY <1>2, <1>3, <1>5, <1>7, MergeHas
<1>9. CASE Has(freelist[y], k)
  <2>1. Has(freelist'[y], k)
    BY <1>6, <1>7, <1>8, <1>9, Zenon DEF fl
  <2> QED
    BY <2>1, Zenon DEF Owned
<1>10. ASSUME NEW g \in allocated, g.zone = y, k \in Bytes(g) PROVE Owned(y, k)'
  <2>1. CASE g = h
    <3>1. Has(freelist'[y], k)
      BY <1>6, <1>8, <1>10, <2>1, Zenon
    <3> QED
      BY <3>1, Zenon DEF Owned
  <2>2. CASE g # h
    <3>1. g \in allocated'
      BY <1>1, <2>2, Zenon
    <3> QED
      BY <1>10, <3>1, Zenon DEF Owned
  <2> QED
    BY <2>1, <2>2
<1> QED
  BY <1>9, <1>10, Zenon DEF Owned

(* Every byte of every zone keeps an owner.                                *)
AllOwned == \A z \in Zone : \A k \in 0..(PageSize - 1) : Owned(z, k)

(* packetmem_alloc, packetmem_free and merge_items lose no byte of a zone, *)
(* for any number and size of zones and any lengths: what callers give     *)
(* back can all be allocated again.                                        *)
THEOREM PacketMemNothingLost == Spec => []NothingLost
<1>1. Init => AllOwned
  <2> SUFFICES ASSUME Init, NEW z \in Zone, NEW k \in 0..(PageSize - 1) PROVE Owned(z, k)
    BY Zenon DEF AllOwned
  <2> DEFINE w == [zone |-> z, base |-> 0, len |-> PageSize]
  <2>1. freelist[z] = <<w>>
    BY DEF Init
  <2>2. k \in Bytes(w)
    BY PacketMemAssumption DEF Bytes
  <2> HIDE DEF w
  <2>3. Len(<<w>>) = 1 /\ <<w>>[1] = w
    OBVIOUS
  <2>4. Has(<<w>>, k)
    BY <2>2, <2>3 DEF Has
  <2> QED
    BY <2>1, <2>4, Zenon DEF Owned
<1>2. IInv /\ AllOwned /\ [Next]_vars => AllOwned'
  <2> SUFFICES ASSUME IInv, AllOwned, [Next]_vars,
                      NEW z \in Zone, NEW k \in 0..(PageSize - 1)
               PROVE  Owned(z, k)'
    BY Zenon DEF AllOwned
  <2>1. Owned(z, k) /\ k \in Nat
    BY PacketMemAssumption DEF AllOwned
  <2>2. ASSUME NEW length \in Lengths, Alloc(length) PROVE Owned(z, k)'
    BY <2>1, <2>2, AllocOwned, Zenon
  <2>3. ASSUME NEW h \in allocated, Free(h) PROVE Owned(z, k)'
    BY <2>1, <2>3, FreeOwned, Zenon
  <2>4. CASE UNCHANGED vars
    BY <2>1, <2>4 DEF vars, Owned
  <2> QED
    BY <2>2, <2>3, <2>4 DEF Next
<1>3. AllOwned => NothingLost
  BY Zenon DEF AllOwned, Owned, Has, Bytes, NothingLost
<1> QED
  BY <1>1, <1>2, <1>3, Invariance, PTL DEF Spec
============================================================================
