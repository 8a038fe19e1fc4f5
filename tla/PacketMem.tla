----------------------------- MODULE PacketMem -----------------------------
(***************************************************************************)
(* The slow path's packet memory manager (user/packetmem.c).  The region   *)
(* the NIC may DMA to and from is cut into zones of one huge page; every   *)
(* zone has a first-fit free list, a linked list of handles, modelled as a *)
(* sequence.  Queues of application contexts and the receive and transmit  *)
(* buffers of connections are allocated from it, so two overlapping        *)
(* allocations mean that the NIC writes one connection's payload into      *)
(* another's buffer.                                                       *)
(*                                                                         *)
(* malloc of a handle may fail: a zone that needs a split is then skipped, *)
(* as in packetmem_alloc.  A request that no zone can serve changes no     *)
(* state and is not an action.                                             *)
(***************************************************************************)
EXTENDS Naturals, Sequences

CONSTANTS TotalZones,   \* dma_mem_size / HUGE_PAGE_SIZE
          PageSize,     \* HUGE_PAGE_SIZE
          Lengths       \* the sizes callers ask for

ASSUME PacketMemAssumption ==
  /\ TotalZones \in Nat \ {0}
  /\ PageSize \in Nat \ {0}
  /\ Lengths \subseteq 1..PageSize

VARIABLES freelist,     \* zone -> sequence of handles
          allocated     \* the handles callers hold

vars == <<freelist, allocated>>

Zone == 0..(TotalZones - 1)

(* struct packetmem_handle, its next pointer being its place in the list.  *)
Handle == [zone : Zone, base : 0..(PageSize - 1), len : 1..PageSize]

TypeOK ==
  /\ freelist \in [Zone -> Seq(Handle)]
  /\ allocated \subseteq Handle

(* packetmem_init: one handle that covers the whole zone.                  *)
Init ==
  /\ freelist = [z \in Zone |-> <<[zone |-> z, base |-> 0, len |-> PageSize]>>]
  /\ allocated = {}

-----------------------------------------------------------------------------
(* Allocation.                                                             *)

(* The entry the "first fit" loop stops at.                                *)
IsFirstFit(fl, i, length) ==
  /\ i \in 1..Len(fl)
  /\ fl[i].len >= length
  /\ \A j \in 1..(i - 1) : fl[j].len < length

(* The zone has nothing to give: no entry is long enough, or the fit has   *)
(* to be split and there is no memory for the second handle.               *)
MayFail(fl, length) ==
  \A i \in 1..Len(fl) : IsFirstFit(fl, i, length) => fl[i].len > length

RemoveEntry(fl, i) ==
  [j \in 1..(Len(fl) - 1) |-> IF j < i THEN fl[j] ELSE fl[j + 1]]

(* Mutant: the split leaves the length as it was.                          *)
TakeFromKeepsLen(fl, i, length) ==
  IF fl[i].len = length
  THEN RemoveEntry(fl, i)
  ELSE [fl EXCEPT ![i] = [@ EXCEPT !.base = @ + length]]

(* An exact fit is unlinked, a longer one gives up its first bytes.        *)
TakeFrom(fl, i, length) ==
  IF fl[i].len = length
  THEN RemoveEntry(fl, i)
  ELSE [fl EXCEPT ![i] = [zone |-> fl[i].zone, base |-> fl[i].base + length,
                          len |-> fl[i].len - length]]

Alloc(length) ==
  \E z \in Zone : \E i \in 1..Len(freelist[z]) :
    /\ IsFirstFit(freelist[z], i, length)
    /\ \A y \in Zone : y < z => MayFail(freelist[y], length)
    /\ freelist' = [freelist EXCEPT ![z] = TakeFrom(@, i, length)]
    /\ allocated' = allocated \cup
         {[zone |-> z, base |-> freelist[z][i].base, len |-> length]}

-----------------------------------------------------------------------------
(* Release.                                                                *)

(* How many entries the loop of packetmem_free has walked past when it     *)
(* stops: it looks one entry ahead, and ph_prev lags one behind ph.        *)
IsInsertPos(fl, p, base) ==
  /\ \A j \in 1..p : j < Len(fl) /\ fl[j + 1].base < base
  /\ p + 1 < Len(fl) => fl[p + 2].base >= base

InsertAfter(fl, p, h) ==
  [j \in 1..(Len(fl) + 1) |->
     IF j <= p THEN fl[j] ELSE IF j = p + 1 THEN h ELSE fl[j - 1]]

Adjacent(fl, i) ==
  i \in 1..(Len(fl) - 1) /\ fl[i].base + fl[i].len = fl[i + 1].base

(* Mutant of Absorb: the entry is unlinked but its bytes are not added.    *)
AbsorbDropsBytes(fl, i) == RemoveEntry(fl, i + 1)

(* Entry i takes over the bytes of entry i + 1, which is freed.            *)
Absorb(fl, i) ==
  [j \in 1..(Len(fl) - 1) |->
     IF j < i THEN fl[j]
     ELSE IF j = i THEN [zone |-> fl[i].zone, base |-> fl[i].base,
                         len |-> fl[i].len + fl[i + 1].len]
     ELSE fl[j + 1]]

(* merge_items: p is the place of ph_prev, 0 for NULL.                     *)
MergeItems(fl, p) ==
  LET pred   == Adjacent(fl, p)
      merged == IF pred THEN Absorb(fl, p) ELSE fl
      ph     == IF pred THEN p ELSE p + 1
  IN  IF Adjacent(merged, ph) THEN Absorb(merged, ph) ELSE merged

Free(h) ==
  \E p \in 0..Len(freelist[h.zone]) :
    /\ IsInsertPos(freelist[h.zone], p, h.base)
    /\ freelist' = [freelist EXCEPT ![h.zone] = MergeItems(InsertAfter(@, p, h), p)]
    /\ allocated' = allocated \ {h}

Next ==
  \/ \E length \in Lengths : Alloc(length)
  \/ \E h \in allocated : Free(h)

Spec == Init /\ [][Next]_vars

-----------------------------------------------------------------------------
(* Properties.                                                             *)

Apart(a, b) == a.base + a.len <= b.base \/ b.base + b.len <= a.base

(* Within a zone no byte has two owners: two entries of the free list, an  *)
(* entry and a handle a caller holds, and two handles callers hold never   *)
(* overlap, whatever order buffers are taken, split, returned and merged   *)
(* in (packetmem_zone_alloc, packetmem_free, merge_items).                 *)
NoOverlapInZone ==
  /\ \A z \in Zone : \A i, j \in 1..Len(freelist[z]) :
       i # j => Apart(freelist[z][i], freelist[z][j])
  /\ \A z \in Zone : \A i \in 1..Len(freelist[z]) : \A h \in allocated :
       h.zone = z => Apart(freelist[z][i], h)
  /\ \A g, h \in allocated : g.zone = h.zone /\ g # h => Apart(g, h)

(* No byte of a zone is lost: every byte is in an entry of the free list   *)
(* or in a handle some caller holds, so merging and splitting leak none.   *)
NothingLost ==
  \A z \in Zone : \A byte \in 0..(PageSize - 1) :
    \/ \E i \in 1..Len(freelist[z]) :
         byte \in freelist[z][i].base..(freelist[z][i].base + freelist[z][i].len - 1)
    \/ \E h \in allocated : h.zone = z /\ byte \in h.base..(h.base + h.len - 1)

(* The offset packetmem_alloc stores in *off, "offset in DMA region"       *)
(* (user/internal.h), which callers add to the address of the region.      *)
Offset(h) == h.base

(* The buffers two callers were given do not overlap in the DMA region     *)
(* that callers address with the offsets packetmem_alloc returned.         *)
OffsetsDisjoint ==
  \A g, h \in allocated :
    g # h => Offset(g) + g.len <= Offset(h) \/ Offset(h) + h.len <= Offset(g)
=============================================================================
