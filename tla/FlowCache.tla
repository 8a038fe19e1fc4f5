----------------------------- MODULE FlowCache ------------------------------
(***************************************************************************)
(* The flow state caches of one flow processing core (firmware/process.c). *)
(* The state of a flow is worked on in local memory (LM, found through the *)
(* CAM), spills over to a direct mapped cache (CLS) and from there to the  *)
(* table in EMEM, where the slow path put it.  The contexts of the core    *)
(* share all of it.  They take work in turns and are never preempted: a    *)
(* step runs from one wait to the next.                                    *)
(*                                                                         *)
(* Commands to CLS and to EMEM are taken to be served in the order the     *)
(* core issues them.  Every flow is set up once: nothing invalidates the   *)
(* caches when an id is used again.                                        *)
(***************************************************************************)
EXTENDS Integers, Sequences, FiniteSets

CONSTANTS
  NumCtx,      \* contexts of the core (8)
  NumEntries,  \* FS_LM_CACHE_SIZE (16)
  NumSlots,    \* FS_CLS_CACHE_SIZE (512)
  NumFlows,    \* flow ids are 1..NumFlows
  LockCap      \* lock operations a lock queue holds, its holder included (6)

(* The hardware has half as many contexts as there are entries.            *)
ASSUME FlowCacheAssumption ==
  /\ {NumCtx, NumEntries, NumSlots, NumFlows, LockCap} \subseteq Nat \ {0}
  /\ NumCtx <= NumEntries

Ctx == 0..(NumCtx - 1)
Entries == 0..(NumEntries - 1)
Flows == 1..NumFlows
None == 0

(* The tags init_lm_cache writes: not flows, but they have a CLS slot.     *)
NoTag(e) == NumSlots * (NumFlows + NumEntries + 1) - 1 - e
Slot(tag) == tag % NumSlots

VARIABLES
  cam,       \* entry -> [tag, locked]
  lru,       \* the entries, the least recently used one first
  lm,        \* fs_lm: entry -> state
  status,    \* fs_cls_status: slot -> tag or None
  cls,       \* flowst_cache: slot -> state
  emem,      \* fp_state.flows_tcp_state: flow -> state
  lockq,     \* fs_miss_lock: entry -> contexts, its holder first
  job,       \* context -> [pc, flow, entry, fs]
  turn       \* the context that has order_sig

vars == <<cam, lru, lm, status, cls, emem, lockq, job, turn>>

(* A copy of the state of a flow, and whether it is the latest (a ghost).  *)
Copy(f, latest) == [flow |-> f, latest |-> latest]
Garbage == Copy(None, FALSE)
Idle == [pc |-> "idle", flow |-> None, entry |-> 0, fs |-> Garbage]

Init ==
  /\ cam = [e \in Entries |-> [tag |-> NoTag(e), locked |-> FALSE]]
  /\ lru = [i \in 1..NumEntries |-> i - 1]
  /\ lm = [e \in Entries |-> Garbage]
  /\ status = [s \in 0..(NumSlots - 1) |-> None]
  /\ cls = [s \in 0..(NumSlots - 1) |-> Garbage]
  /\ emem = [f \in Flows |-> Copy(f, TRUE)]
  /\ lockq = [e \in Entries |-> <<>>]
  /\ job = [c \in Ctx |-> Idle]
  /\ turn = 0

(* Entry e becomes the most recently used one.                             *)
Used(e) ==
  LET k == CHOOSE i \in DOMAIN lru : lru[i] = e
  IN  Append(SubSeq(lru, 1, k - 1) \o SubSeq(lru, k + 1, Len(lru)), e)

-----------------------------------------------------------------------------
(* Mutant: what a CLS slot held is dropped, not written back to EMEM.      *)
handle_miss_drop(c, f, e) ==
  LET old == cam[e].tag
      s == Slot(old)
      status1 == [status EXCEPT ![s] = old]
      hit == status[s] = f
      inCls == status1[Slot(f)] = f
  IN /\ lru' = Used(e)
     /\ cls' = [cls EXCEPT ![s] = lm[e]]
     /\ status' = IF ~hit /\ inCls THEN [status1 EXCEPT ![Slot(f)] = None] ELSE status1
     /\ cam' = [cam EXCEPT ![e] = [tag |-> f, locked |-> ~hit]]
     /\ lm' = IF hit THEN [lm EXCEPT ![e] = cls[s]] ELSE lm
     /\ lockq' = IF hit THEN lockq ELSE [lockq EXCEPT ![e] = Append(@, c)]
     /\ job' = [job EXCEPT ![c] =
          [pc |-> IF hit THEN "ready" ELSE "fetch", flow |-> f, entry |-> e,
           fs |-> CASE hit -> Garbage
                    [] ~hit /\ inCls -> cls'[Slot(f)]
                    [] OTHER -> emem[f]]]
     /\ UNCHANGED emem

(* handle_miss up to its wait.  The entry's old state goes to the CLS slot *)
(* of its flow; what was there is the state that is looked for, or moves   *)
(* on to EMEM (a tag of init_lm_cache: outside the table).  Else the state *)
(* is read from the CLS slot of the flow, which is given up, or from EMEM. *)
handle_miss(c, f, e) ==
  LET old == cam[e].tag
      s == Slot(old)
      out == status[s]
      status1 == [status EXCEPT ![s] = old]
      cls1 == [cls EXCEPT ![s] = lm[e]]
      emem1 == IF out \in Flows \ {f} THEN [emem EXCEPT ![out] = cls[s]] ELSE emem
      inCls == status1[Slot(f)] = f
  IN /\ lru' = Used(e)
     /\ cls' = cls1 /\ emem' = emem1
     /\ cam' = [cam EXCEPT ![e] = [tag |-> f, locked |-> out # f]]
     /\ IF out = f
        THEN /\ lm' = [lm EXCEPT ![e] = cls[s]]
             /\ status' = status1
             /\ job' = [job EXCEPT ![c] = [pc |-> "ready", flow |-> f, entry |-> e,
                                           fs |-> Garbage]]
             /\ UNCHANGED lockq
        ELSE /\ status' = IF inCls THEN [status1 EXCEPT ![Slot(f)] = None] ELSE status1
             /\ job' = [job EXCEPT ![c] =
                  [pc |-> "fetch", flow |-> f, entry |-> e,
                   fs |-> IF inCls THEN cls1[Slot(f)] ELSE emem1[f]]]
             /\ lockq' = [lockq EXCEPT ![e] = Append(@, c)]
             /\ UNCHANGED lm

(* cls_lockq_lock_retry: the lock queue may be full.                       *)
TryLock(c, f, e) ==
  LET room == Len(lockq[e]) < LockCap
  IN /\ lockq' = IF room THEN [lockq EXCEPT ![e] = Append(@, c)] ELSE lockq
     /\ job' = [job EXCEPT ![c] = [pc |-> IF room THEN "lock" ELSE "retry", flow |-> f,
                                   entry |-> e, fs |-> Garbage]]

(* Mutant: a context takes work whenever it is idle, not in its turn.      *)
TakeWork_unordered(c, f) ==
  /\ job[c].pc = "idle" /\ turn' = turn
  /\ IF \E e \in Entries : cam[e].tag = f
     THEN \E e \in Entries :
            /\ cam[e].tag = f /\ lru' = Used(e)
            /\ IF cam[e].locked THEN TryLock(c, f, e)
               ELSE /\ job' = [job EXCEPT ![c] = [pc |-> "ready", flow |-> f, entry |-> e,
                                                  fs |-> Garbage]]
                    /\ UNCHANGED lockq
            /\ UNCHANGED <<cam, lm, status, cls, emem>>
     ELSE handle_miss(c, f, Head(lru))

(* process_work: a context gets work in its turn, passes the turn on and   *)
(* looks the flow up in the CAM.                                           *)
TakeWork(c, f) ==
  /\ turn = c /\ job[c].pc = "idle"
  /\ turn' = (turn + 1) % NumCtx
  /\ IF \E e \in Entries : cam[e].tag = f
     THEN \E e \in Entries :
            /\ cam[e].tag = f /\ lru' = Used(e)
            /\ IF cam[e].locked THEN TryLock(c, f, e)
               ELSE /\ job' = [job EXCEPT ![c] = [pc |-> "ready", flow |-> f, entry |-> e,
                                                  fs |-> Garbage]]
                    /\ UNCHANGED lockq
            /\ UNCHANGED <<cam, lm, status, cls, emem>>
     ELSE handle_miss(c, f, Head(lru))

Retry(c) ==
  /\ job[c].pc = "retry" /\ Len(lockq[job[c].entry]) < LockCap
  /\ TryLock(c, job[c].flow, job[c].entry)
  /\ UNCHANGED <<cam, lru, lm, status, cls, emem, turn>>

(* The end of handle_miss: the state has arrived and the lock was granted. *)
Fill(c) ==
  LET e == job[c].entry
  IN /\ job[c].pc = "fetch" /\ Head(lockq[e]) = c
     /\ lm' = [lm EXCEPT ![e] = job[c].fs]
     /\ lockq' = [lockq EXCEPT ![e] = Tail(@)]
     /\ cam' = [cam EXCEPT ![e].locked = FALSE]
     /\ job' = [job EXCEPT ![c].pc = "ready", ![c].fs = Garbage]
     /\ UNCHANGED <<lru, status, cls, emem, turn>>

(* Mutant: the lock is not given back.                                     *)
Pass_hold(c) ==
  /\ job[c].pc = "lock" /\ Head(lockq[job[c].entry]) = c
  /\ job' = [job EXCEPT ![c].pc = "ready"]
  /\ UNCHANGED <<cam, lru, lm, status, cls, emem, lockq, turn>>

(* A context that met a locked entry gets the lock and gives it back.      *)
Pass(c) ==
  LET e == job[c].entry
  IN /\ job[c].pc = "lock" /\ Head(lockq[e]) = c
     /\ lockq' = [lockq EXCEPT ![e] = Tail(@)]
     /\ job' = [job EXCEPT ![c].pc = "ready"]
     /\ UNCHANGED <<cam, lru, lm, status, cls, emem, turn>>

(* flows_ack, flows_seg, flows_tx, flows_ac or flows_retx works on the     *)
(* entry: every other copy of that flow's state is out of date from now on. *)
Aged(v, f) == IF v.flow = f THEN Copy(f, FALSE) ELSE v

Process(c) ==
  LET e == job[c].entry  f == lm[e].flow
  IN /\ job[c].pc = "ready"
     /\ lm' = [x \in Entries |-> IF x = e THEN Copy(f, TRUE) ELSE Aged(lm[x], f)]
     /\ cls' = [s \in DOMAIN cls |-> Aged(cls[s], f)]
     /\ emem' = [x \in Flows |-> Aged(emem[x], f)]
     /\ job' = [d \in Ctx |-> IF d = c THEN Idle ELSE [job[d] EXCEPT !.fs = Aged(@, f)]]
     /\ UNCHANGED <<cam, lru, status, lockq, turn>>

-----------------------------------------------------------------------------
Step(c) == Retry(c) \/ Fill(c) \/ Pass(c) \/ Process(c)
Next == \E c \in Ctx : (\E f \in Flows : TakeWork(c, f)) \/ Step(c)

Spec == Init /\ [][Next]_vars

(* Every context is scheduled; no work need ever come.                     *)
FairSpec == Spec /\ \A c \in Ctx : WF_vars(Step(c))

TypeOK ==
  /\ \A e \in Entries : cam[e].tag \in Flows \cup {NoTag(x) : x \in Entries}
  /\ {lru[i] : i \in DOMAIN lru} = Entries /\ Len(lru) = NumEntries
  /\ \A e \in Entries : Len(lockq[e]) <= LockCap
  /\ \A c \in Ctx : /\ job[c].pc \in {"idle", "fetch", "lock", "retry", "ready"}
                    /\ job[c].flow \in Flows \cup {None} /\ job[c].entry \in Entries

(* fs_lm_idx stays good over every wait of process_work: the entry a       *)
(* context is about to work on holds the latest state of its own flow,     *)
(* whatever the others missed, evicted and worked on meanwhile.            *)
OwnState ==
  \A c \in Ctx : job[c].pc = "ready" => lm[job[c].entry] = Copy(job[c].flow, TRUE)

(* Where a lookup would find the state of a flow.                          *)
Found(f) ==
  IF \E e \in Entries : cam[e].tag = f
  THEN LET e == CHOOSE x \in Entries : cam[x].tag = f
       IN IF cam[e].locked
          THEN job[CHOOSE c \in Ctx : job[c].pc = "fetch" /\ job[c].entry = e].fs
          ELSE lm[e]
  ELSE IF status[Slot(f)] = f THEN cls[Slot(f)] ELSE emem[f]

(* The three levels never lose an update: a lookup finds the latest state  *)
(* of the flow, and no two entries of the CAM have the same tag ("No two   *)
(* tags can be written to have same value").                               *)
LatestFound ==
  /\ TypeOK
  /\ \A d, e \in Entries : cam[d].tag = cam[e].tag => d = e
  /\ \A f \in Flows : Found(f) = Copy(f, TRUE)

(* Work that was taken is worked on: the lock queues and the order of the  *)
(* contexts do not block each other.                                       *)
WorkDone == \A c \in Ctx : job[c].pc # "idle" ~> job[c].pc = "idle"
=============================================================================
