------------------------------- MODULE Wakeup -------------------------------
(***************************************************************************)
(* Blocking and waking an application context.  The NIC marks a context    *)
(* when it queues a descriptor for it (firmware/arx.c), and a thread of    *)
(* its own turns marks into interrupts, at most one per poll_cycle_app     *)
(* (loop_msix of firmware/dma_rxtx.c).  A mark it finds sooner is dropped: *)
(* the host polls that long before it blocks (flextcp_context_canwait of   *)
(* lib/tas/init.c).  The slow path signals the eventfd itself              *)
(* (user/appif_ctx.c).                                                     *)
(*                                                                         *)
(* Time is counted in ages, which stop at the last value anyone can tell   *)
(* apart, in units that are long against the few cycles between reading    *)
(* the clock and testing the mark in loop_msix.                            *)
(***************************************************************************)
EXTENDS Integers

CONSTANTS
  PollCycle,   \* poll_cycle_app, on the clock of the host and of the NIC
  DmaTime,     \* longest time from the mark until the descriptor has landed
  IntrTime     \* shortest time from the interrupt until the host sees it

(* The rate limit is sound only on the last condition, which nothing in    *)
(* the code enforces: a descriptor is hardly slower than an interrupt.     *)
ASSUME WakeupAssumption ==
  /\ PollCycle \in Nat \ {0} /\ DmaTime \in Nat /\ IntrTime \in Nat
  /\ DmaTime <= IntrTime + 1

VARIABLES
  flags,     \* ctx->flags: subset of Flags
  grace,     \* time since last_inev_ts, up to PollCycle + 1
  evfd,      \* the eventfd is readable
  landed,    \* a receive queue of the context is not empty
  pc,        \* the thread of the application
  dmas,      \* ages of the descriptors under way
  active,    \* dma_appctx_active # 0
  quiet,     \* time since notify_last_ts, up to PollCycle
  intrs,     \* ages of the interrupts under way, up to IntrTime
  kick       \* the slow path has queued an entry and not yet signalled it

nicVars == <<dmas, active, quiet, intrs>>
wakeVars == <<flags, grace, evfd, landed, pc, kick, nicVars>>

Flags == {"CALLED", "EVENTS", "WANTWAIT", "LASTWAIT"}
UpTo(n, max) == IF n < max THEN n ELSE max

WakeInit ==
  /\ flags = {} /\ grace = 0 /\ evfd = FALSE /\ landed = FALSE /\ pc = "poll"
  /\ dmas = {} /\ active = FALSE /\ quiet = PollCycle /\ intrs = {} /\ kick = FALSE

-----------------------------------------------------------------------------
(* The NIC and the slow path.                                              *)

(* poll_arx: the context is marked and the DMA issued.                     *)
poll_arx ==
  /\ dmas' = dmas \cup {0} /\ active' = TRUE
  /\ UNCHANGED <<flags, grace, evfd, landed, pc, kick, quiet, intrs>>

(* Some or all of the descriptors of one age land.                         *)
Land(age) ==
  /\ age \in dmas
  /\ dmas' \in {dmas, dmas \ {age}} /\ landed' = TRUE
  /\ UNCHANGED <<flags, grace, evfd, pc, kick, active, quiet, intrs>>

(* Mutant: a dropped mark restarts the period too.                         *)
loop_msix_restart ==
  /\ active /\ active' = FALSE /\ quiet' = 0
  /\ intrs' = IF quiet >= PollCycle THEN intrs \cup {0} ELSE intrs
  /\ UNCHANGED <<flags, grace, evfd, landed, pc, kick, dmas>>

(* loop_msix: one look at the context.                                     *)
loop_msix ==
  /\ active /\ active' = FALSE
  /\ IF quiet >= PollCycle
     THEN quiet' = 0 /\ intrs' = intrs \cup {0}
     ELSE UNCHANGED <<quiet, intrs>>
  /\ UNCHANGED <<flags, grace, evfd, landed, pc, kick, dmas>>

(* The handler of the interrupt signals the eventfd.                       *)
Interrupt ==
  /\ IntrTime \in intrs
  /\ intrs' = intrs \ {IntrTime} /\ evfd' = TRUE
  /\ UNCHANGED <<flags, grace, landed, pc, kick, dmas, active, quiet>>

(* The slow path writes an entry for the context, then appif_ctx_kick.     *)
SpEntry ==
  /\ ~kick /\ kick' = TRUE /\ landed' = TRUE
  /\ UNCHANGED <<flags, grace, evfd, pc, nicVars>>

appif_ctx_kick ==
  /\ kick /\ kick' = FALSE /\ evfd' = TRUE
  /\ UNCHANGED <<flags, grace, landed, pc, nicVars>>

Tick ==
  /\ DmaTime \notin dmas
  /\ dmas' = {a + 1 : a \in dmas}
  /\ intrs' = {UpTo(a + 1, IntrTime) : a \in intrs}
  /\ quiet' = UpTo(quiet + 1, PollCycle)
  /\ grace' = IF "WANTWAIT" \in flags THEN UpTo(grace + 1, PollCycle + 1) ELSE grace
  /\ UNCHANGED <<flags, evfd, landed, pc, kick, active>>

-----------------------------------------------------------------------------
(* The application's thread: it polls its context (sp_poll, fastpath_poll; *)
(* one poll may leave some of what is there) and then either polls again,  *)
(* in a later call, or tries to wait.                                      *)
flextcp_context_poll ==
  /\ pc = "poll"
  /\ flags' = flags \cup {"CALLED"} \cup IF landed THEN {"EVENTS"} ELSE {}
  /\ landed' \in {FALSE, landed} /\ pc' \in {"poll", "wait"}
  /\ UNCHANGED <<grace, evfd, kick, nicVars>>

(* Mutant: the grace period is over as soon as poll_cycle_app has passed.  *)
flextcp_context_canwait_early ==
  IF "EVENTS" \in flags
    THEN flags' = flags \ {"EVENTS", "WANTWAIT", "LASTWAIT"} /\ grace' = 0
  ELSE IF "WANTWAIT" \in flags
    THEN IF grace >= PollCycle
         THEN flags' = (flags \ {"CALLED", "WANTWAIT"}) \cup {"LASTWAIT"} /\ grace' = 0
         ELSE UNCHANGED <<flags, grace>>
  ELSE IF "LASTWAIT" \notin flags /\ "CALLED" \in flags
    THEN flags' = flags \cup {"WANTWAIT"} /\ grace' = 0
  ELSE UNCHANGED <<flags, grace>>

(* flextcp_context_canwait, and when it returns 0.                         *)
flextcp_context_canwait ==
  IF "EVENTS" \in flags
    THEN flags' = flags \ {"EVENTS", "WANTWAIT", "LASTWAIT"} /\ grace' = 0
  ELSE IF "WANTWAIT" \in flags
    THEN IF grace > PollCycle
         THEN flags' = (flags \ {"CALLED", "WANTWAIT"}) \cup {"LASTWAIT"} /\ grace' = 0
         ELSE UNCHANGED <<flags, grace>>
  ELSE IF "LASTWAIT" \notin flags /\ "CALLED" \in flags
    THEN flags' = flags \cup {"WANTWAIT"} /\ grace' = 0
  ELSE UNCHANGED <<flags, grace>>

CanWait ==
  /\ "EVENTS" \notin flags /\ "WANTWAIT" \notin flags
  /\ {"LASTWAIT", "CALLED"} \subseteq flags

(* flextcp_context_wait blocks in poll(2), or returns at once.             *)
flextcp_context_wait ==
  /\ pc = "wait" /\ flextcp_context_canwait
  /\ pc' = IF CanWait THEN "sleep" ELSE "poll"
  /\ UNCHANGED <<evfd, landed, kick, nicVars>>

flextcp_context_waitclear ==
  /\ pc = "sleep" /\ evfd
  /\ evfd' = FALSE /\ flags' = flags \ {"WANTWAIT", "LASTWAIT", "CALLED"}
  /\ pc' = "poll"
  /\ UNCHANGED <<grace, landed, kick, nicVars>>

-----------------------------------------------------------------------------
WakeNext ==
  \/ poll_arx \/ loop_msix \/ Interrupt \/ SpEntry \/ appif_ctx_kick \/ Tick
  \/ \E age \in 0..DmaTime : Land(age)
  \/ flextcp_context_poll \/ flextcp_context_wait \/ flextcp_context_waitclear

WakeSpec == WakeInit /\ [][WakeNext]_wakeVars

(* The threads of the NIC, of the slow path and of the application run,    *)
(* interrupts are delivered and time passes.                               *)
WakeFairSpec ==
  /\ WakeSpec
  /\ WF_wakeVars(loop_msix) /\ WF_wakeVars(Interrupt)
  /\ WF_wakeVars(appif_ctx_kick) /\ WF_wakeVars(Tick)
  /\ WF_wakeVars(flextcp_context_poll) /\ WF_wakeVars(flextcp_context_wait)
  /\ WF_wakeVars(flextcp_context_waitclear)
  /\ \A age \in 0..DmaTime : WF_wakeVars(Land(age) /\ age \notin dmas')

TypeOK ==
  /\ flags \subseteq Flags /\ ~({"WANTWAIT", "LASTWAIT"} \subseteq flags)
  /\ grace \in 0..(PollCycle + 1) /\ quiet \in 0..PollCycle
  /\ evfd \in BOOLEAN /\ landed \in BOOLEAN /\ active \in BOOLEAN /\ kick \in BOOLEAN
  /\ pc \in {"poll", "wait", "sleep"}
  /\ dmas \subseteq 0..DmaTime /\ intrs \subseteq 0..IntrTime

(* No lost wake-up: while the thread is blocked, whatever is in its queues *)
(* or on its way there has a signal in store, although loop_msix drops     *)
(* marks.                                                                  *)
SignalComing == evfd \/ intrs # {} \/ active \/ kick
NoLostWakeup == pc = "sleep" /\ (landed \/ dmas # {}) => SignalComing

(* Why that is so.  When no signal is under way, the last interrupt was    *)
(* seen before the grace period began, so the NIC's period runs out before *)
(* the host's does.  Marks are dropped only before that: a descriptor      *)
(* whose mark was dropped has grown too old to be still under way when the *)
(* grace period ends, and the poll that follows finds it.                  *)
Unsignalled == ~evfd /\ intrs = {}

LastIntr == quiet < PollCycle /\ quiet < IntrTime => quiet \in intrs
Dropped ==
  ~active => \A a \in dmas : \E i \in intrs \cup {IntrTime} : a >= i + 1 - PollCycle
InGrace ==
  "WANTWAIT" \in flags /\ Unsignalled =>
    /\ quiet = PollCycle \/ quiet >= IntrTime + grace
    /\ ~active => \A a \in dmas : a >= grace + IntrTime + 1 - PollCycle
PastGrace ==
  "LASTWAIT" \in flags /\ Unsignalled =>
    /\ quiet = PollCycle
    /\ ~active => dmas = {}
    /\ "CALLED" \in flags /\ "EVENTS" \notin flags /\ ~active /\ ~kick => ~landed
Asleep == pc = "sleep" => flags = {"CALLED", "LASTWAIT"}

WakeInv == LastIntr /\ Dropped /\ InGrace /\ PastGrace /\ Asleep

(* What reaches the context's queues is found by a poll in the end.        *)
Served == landed ~> (~landed \/ "EVENTS" \in flags)
=============================================================================
