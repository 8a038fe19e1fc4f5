------------------------------ MODULE DmaLoop ------------------------------
(***************************************************************************)
(* The loop every DMA manager of the NIC runs (firmware/dma_rx.c, dma_tx.c,*)
(* dma_arx.c, dma_atx.c, dma_rxtx.c).  A context asks its work ring for    *)
(* commands with one request per transfer register, starts the DMA of a    *)
(* command, asks for the next command into the same register and forwards  *)
(* the command when its DMA is done.  The code is a state machine with     *)
(* labels state_P_Q: P is the register the next command arrives in, Q the  *)
(* number of DMAs in flight.                                               *)
(*                                                                         *)
(* Work rings are the NFP work queues: commands and requests are paired    *)
(* first come, first served.  What a landed DMA and a forwarded command do *)
(* to the rest of the system is said by the module that extends this one.  *)
(***************************************************************************)
EXTENDS Integers, SequencesExt

CONSTANTS
  Ctx,      \* the contexts of all DMA managers
  RingOf    \* the work ring each context serves

(* dma_rxtx.c serves the two rings of payloads that wrap around the host   *)
(* buffer; it has registers for two commands, the others for four.         *)
Rings == {"rx", "tx", "arx", "atx", "rx_excep", "tx_excep"}

Slots(c) == IF RingOf[c] \in {"rx_excep", "tx_excep"} THEN 2 ELSE 4

Slot(c) == 0..(Slots(c) - 1)

(* The PCIe DMA queue of a ring, and whether it moves data to the host.    *)
PcieQueues == {"topci_lo", "topci_med", "frompci_lo", "frompci_med"}

QueueOf(r) ==
  CASE r \in {"rx", "rx_excep"} -> "topci_lo"
    [] r \in {"tx", "tx_excep"} -> "frompci_lo"
    [] r = "arx" -> "topci_med"
    [] r = "atx" -> "frompci_med"

ToPci(k) == k \in {"topci_lo", "topci_med"}

None == [dmas |-> -1]

VARIABLES
  ring,     \* commands of each ring no context has yet
  waiting,  \* requests of each ring without a command: <<context, register>>
  reg,      \* transfer registers: rx_cmd[X] and its signal
  backup,   \* rx_backup[X]: the command whose DMA was started from X
  p, q,     \* the label state_P_Q a context is at
  pcie,     \* DMAs in flight in each PCIe queue
  done      \* dma_sigX: slots whose DMA is done and not yet forwarded

workVars == <<ring, waiting, reg>>
slotVars == <<backup, p, q, pcie, done>>
loopVars == <<workVars, slotVars>>

(* The kickstart: one FETCH per register, context after context.           *)
Requests(c) == [x \in 1..Slots(c) |-> <<c, x - 1>>]

LoopInit ==
  /\ ring = [r \in Rings |-> <<>>]
  /\ waiting = [r \in Rings |->
       FlattenSeq([i \in 1..Cardinality({c \in Ctx : RingOf[c] = r}) |->
         Requests(SetToSeq({c \in Ctx : RingOf[c] = r})[i])])]
  /\ reg = [c \in Ctx |-> [x \in Slot(c) |-> None]]
  /\ backup = [c \in Ctx |-> [x \in Slot(c) |-> None]]
  /\ p = [c \in Ctx |-> 0]
  /\ q = [c \in Ctx |-> 0]
  /\ pcie = [k \in PcieQueues |-> <<>>]
  /\ done = [c \in Ctx |-> {}]

(* A work queue hands its oldest command to its oldest request as soon as  *)
(* it has both.  Add_work and add_thread of one command and one request.   *)
AddWork(r, cmd) ==
  IF waiting[r] = <<>>
  THEN /\ ring' = [ring EXCEPT ![r] = Append(@, cmd)]
       /\ UNCHANGED <<reg, waiting>>
  ELSE LET w == Head(waiting[r])
       IN  /\ reg' = [reg EXCEPT ![w[1]][w[2]] = cmd]
           /\ waiting' = [waiting EXCEPT ![r] = Tail(@)]
           /\ UNCHANGED ring

AddThread(c, x) ==
  LET r == RingOf[c]
  IN  IF ring[r] = <<>>
      THEN /\ waiting' = [waiting EXCEPT ![r] = Append(@, <<c, x>>)]
           /\ reg' = [reg EXCEPT ![c][x] = None]
           /\ UNCHANGED ring
      ELSE /\ reg' = [reg EXCEPT ![c][x] = Head(ring[r])]
           /\ ring' = [ring EXCEPT ![r] = Tail(@)]
           /\ UNCHANGED waiting

(* issue_pkt_dma, issue_pkt_dma_2, issue_desc_dma: a command without       *)
(* payload signals itself; of two DMAs only the second one signals.        *)
Dmas(c, x, cmd) ==
  [i \in 1..cmd.dmas |-> [ctx |-> c, slot |-> x, part |-> i, cmd |-> cmd]]

(* PROC_CMD: BACKUP, ISSUE, FETCH, then state_(P+1)_(Q+1).  The states with*)
(* all slots in flight only wait for a DMA.                                *)
ProcCmd(c) ==
  LET x   == p[c]
      cmd == reg[c][x]
      k   == QueueOf(RingOf[c])
  IN  /\ cmd # None /\ q[c] < Slots(c)
      /\ backup' = [backup EXCEPT ![c][x] = cmd]
      /\ pcie' = [pcie EXCEPT ![k] = @ \o Dmas(c, x, cmd)]
      /\ done' = IF cmd.dmas = 0 THEN [done EXCEPT ![c] = @ \cup {x}] ELSE done
      /\ AddThread(c, x)
      /\ p' = [p EXCEPT ![c] = (x + 1) % Slots(c)]
      /\ q' = [q EXCEPT ![c] = @ + 1]

(* A DMA lands.  Writes to the host keep the order of their queue, since   *)
(* dma_cfg_setup leaves relaxed_order off; reads complete in any order,    *)
(* except that the two reads of one command keep theirs: issue_pkt_dma_2   *)
(* relies on it when it asks for one signal only.                          *)
MayLand(k, i) ==
  /\ i \in 1..Len(pcie[k])
  /\ IF ToPci(k) THEN i = 1
     ELSE \A j \in 1..(i - 1) :
            pcie[k][j].ctx # pcie[k][i].ctx \/ pcie[k][j].slot # pcie[k][i].slot

(* Mutant: the first of two DMAs signals.                                  *)
LandFirst(k, i) ==
  LET d == pcie[k][i]
  IN  /\ pcie' = [pcie EXCEPT ![k] = RemoveAt(@, i)]
      /\ done' = IF d.part = 1
                 THEN [done EXCEPT ![d.ctx] = @ \cup {d.slot}] ELSE done
      /\ UNCHANGED <<workVars, backup, p, q>>

Land(k, i) ==
  LET d == pcie[k][i]
  IN  /\ pcie' = [pcie EXCEPT ![k] = RemoveAt(@, i)]
      /\ done' = IF d.part = d.cmd.dmas
                 THEN [done EXCEPT ![d.ctx] = @ \cup {d.slot}] ELSE done
      /\ UNCHANGED <<workVars, backup, p, q>>

(* The slot whose DMA was started first.                                  *)
Oldest(c) == (p[c] - q[c]) % Slots(c)

(* PROC_DMA: the oldest slot in flight is forwarded, then state_P_(Q-1).   *)
(* The code tests for a command before it tests for a DMA, but the signal  *)
(* of a command may come a moment after it was handed out, so a DMA may go *)
(* first.                                                                  *)
ProcDma(c) ==
  /\ q[c] > 0 /\ Oldest(c) \in done[c]
  /\ done' = [done EXCEPT ![c] = @ \ {Oldest(c)}]
  /\ q' = [q EXCEPT ![c] = @ - 1]
  /\ UNCHANGED <<backup, p, pcie>>

(* The commands between a ring and their forwarding: in the ring, in a     *)
(* register, or in a slot in flight.                                       *)
Flying(c) == {(p[c] - i) % Slots(c) : i \in 1..q[c]}

Pending(r) ==
  Range(ring[r]) \cup
  {cmd \in UNION {Range(reg[c]) \cup {backup[c][x] : x \in Flying(c)} :
                    c \in {d \in Ctx : RingOf[d] = r}} : cmd # None}
=============================================================================
