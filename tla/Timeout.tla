------------------------------ MODULE Timeout -------------------------------
(***************************************************************************)
(* The timers of the slow path (util/timeout.c) as its main loop drives    *)
(* them (user/slowpath.c): cur_ts is read at the top of an iteration, the  *)
(* pollers arm and disarm timers by the clock of that later moment, and    *)
(* util_timeout_poll_ts then runs the handlers by the older cur_ts.  A     *)
(* timestamp has TIMEOUT_BITS bits and wraps; Wrap is 2^TIMEOUT_BITS.      *)
(*                                                                         *)
(* left is a ghost of a pending timer: the time it really still has, which *)
(* the clock counts down, independent of every timestamp.                  *)
(***************************************************************************)
EXTENDS Integers, Sequences, FiniteSetsExt

CONSTANTS
  Timers,       \* struct timeout objects of the clients
  Middle,       \* 1 << (TIMEOUT_BITS - 1)
  Delays,       \* values of us the clients arm with
  MaxTimeouts,  \* MAX_TIMEOUTS: handlers run by one poll
  MaxLag        \* time one iteration of the main loop may take

Wrap == 2 * Middle

ASSUME TimeoutAssumption ==
  /\ Middle \in Nat \ {0} /\ MaxTimeouts \in Nat \ {0} /\ MaxLag \in Nat
  /\ Delays \subseteq Nat
  /\ 2 * MaxLag < Middle /\ \A us \in Delays : us + MaxLag < Middle

VARIABLES
  now,        \* timestamp_us()
  cur,        \* cur_ts of the main loop
  pc,         \* where the main loop is: "top", "work" or "poll"
  num,        \* handlers this poll has run
  timeouts,   \* pending list, timeouts_first to timeouts_last
  due         \* due list, due_first to due_last: timers whose time is no longer read

vars == <<now, cur, pc, num, timeouts, due>>

(* A pending timer: ts is timeout_type & TIMEOUT_MASK, left the ghost.     *)
Entry == [timer : Timers, ts : 0..(Wrap - 1), left : Int]

Pending == {timeouts[i].timer : i \in DOMAIN timeouts}
Due == Range(due)
Lag == (now - cur) % Wrap

(* Mutant: the end of the positive interval is off by one.                 *)
rel_time_end(c, t) ==
  LET start == (c - Middle) % Wrap
      end == (c + Middle) % Wrap
  IN CASE c < Middle -> IF start <= t THEN t - start - Middle ELSE t - c
       [] c = Middle -> t - c
       [] c > Middle -> IF t + 1 < end THEN t + Wrap - c ELSE t - c

(* rel_time: how far timestamp t is from c.                                *)
rel_time(c, t) ==
  LET start == (c - Middle) % Wrap
      end == ((c + Middle) % Wrap) + 1
  IN CASE c < Middle -> IF start <= t THEN t - start - Middle ELSE t - c
       [] c = Middle -> t - c
       [] c > Middle -> IF t < end THEN t + Wrap - c ELSE t - c

(* Mutant: a timer is due one unit early.                                  *)
timeout_due_early(e, c) == rel_time(c, e.ts) <= 1

timeout_due(e, c) == rel_time(c, e.ts) <= 0

(* move_due_timeouts: the length of the due prefix, which it moves.        *)
NumDue(c) ==
  CHOOSE n \in 0..Len(timeouts) :
    /\ \A i \in 1..n : timeout_due(timeouts[i], c)
    /\ n < Len(timeouts) => ~timeout_due(timeouts[n + 1], c)

DuePrefix(n) == [i \in 1..n |-> timeouts[i].timer]

(* Steps 2 and 3 of util_timeout_arm_ts: from the tail back to the last    *)
(* timer whose rel_time is not > us.  The comparison is unsigned, so a     *)
(* negative rel_time is passed over too.                                   *)
Insert(list, e, us, c) ==
  LET stays == {i \in 1..Len(list) : rel_time(c, list[i].ts) \in 0..us}
      p == IF stays = {} THEN 0 ELSE Max(stays)
  IN SubSeq(list, 1, p) \o <<e>> \o SubSeq(list, p + 1, Len(list))

(* util_timeout_arm, with the clock read now; d is the due list it appends *)
(* to (the poll has taken the running timer off it).                       *)
util_timeout_arm(t, us, d) ==
  LET n == NumDue(now)
      e == [timer |-> t, ts |-> (now + us) % Wrap, left |-> us]
  IN /\ us < Middle
     /\ due' = d \o DuePrefix(n)
     /\ timeouts' = Insert(SubSeq(timeouts, n + 1, Len(timeouts)), e, us, now)

Unlink(list, i) == SubSeq(list, 1, i - 1) \o SubSeq(list, i + 1, Len(list))

(* util_timeout_disarm: t is unlinked from the list it is on.              *)
util_timeout_disarm(t) ==
  \/ \E i \in DOMAIN timeouts :
       timeouts[i].timer = t /\ timeouts' = Unlink(timeouts, i) /\ UNCHANGED due
  \/ \E i \in DOMAIN due :
       due[i] = t /\ due' = Unlink(due, i) /\ UNCHANGED timeouts

-----------------------------------------------------------------------------
Init ==
  /\ now \in 0..(Wrap - 1) /\ cur = now /\ pc = "top" /\ num = 0
  /\ timeouts = <<>> /\ due = <<>>

(* The clock goes on while the slow path works.                            *)
Tick ==
  /\ Lag < MaxLag
  /\ now' = (now + 1) % Wrap
  /\ timeouts' = [i \in DOMAIN timeouts |-> [timeouts[i] EXCEPT !.left = @ - 1]]
  /\ UNCHANGED <<cur, pc, num, due>>

(* The top of the main loop reads the clock.                               *)
LoopTop ==
  /\ pc = "top" /\ pc' = "work" /\ cur' = now
  /\ UNCHANGED <<now, num, timeouts, due>>

(* nicif_poll, appif_poll and tcp_poll arm and disarm timers.              *)
Arm(t, us) ==
  /\ pc = "work" /\ t \notin Pending \cup Due
  /\ util_timeout_arm(t, us, due)
  /\ UNCHANGED <<now, cur, pc, num>>

Disarm(t) ==
  /\ pc = "work"
  /\ util_timeout_disarm(t)
  /\ UNCHANGED <<now, cur, pc, num>>

(* util_timeout_poll_ts: by cur_ts, timers become due ...                  *)
PollStart ==
  LET n == NumDue(cur) IN
  /\ pc = "work" /\ pc' = "poll" /\ num' = 0
  /\ due' = due \o DuePrefix(n)
  /\ timeouts' = SubSeq(timeouts, n + 1, Len(timeouts))
  /\ UNCHANGED <<now, cur>>

(* Mutant: the poll runs handlers until none is due.                       *)
Fire_unbounded(t) ==
  /\ pc = "poll" /\ due # <<>> /\ t = Head(due) /\ num' = 0
  /\ \/ due' = Tail(due) /\ UNCHANGED timeouts
     \/ \E us \in Delays : util_timeout_arm(t, us, Tail(due))
  /\ UNCHANGED <<now, cur, pc>>

(* ... and their handlers run, at most MAX_TIMEOUTS of them.  arp_timeout, *)
(* gratuitous_arp_timeout and tcp_timeout may arm the timer again.         *)
Fire(t) ==
  /\ pc = "poll" /\ due # <<>> /\ t = Head(due)
  /\ num < MaxTimeouts /\ num' = num + 1
  /\ \/ due' = Tail(due) /\ UNCHANGED timeouts
     \/ \E us \in Delays : util_timeout_arm(t, us, Tail(due))
  /\ UNCHANGED <<now, cur, pc>>

PollEnd ==
  /\ pc = "poll" /\ (due = <<>> \/ num = MaxTimeouts) /\ pc' = "top"
  /\ UNCHANGED <<now, cur, num, timeouts, due>>

Next ==
  \/ Tick \/ LoopTop \/ PollStart \/ PollEnd
  \/ \E t \in Timers : Disarm(t) \/ Fire(t) \/ \E us \in Delays : Arm(t, us)

(* The clock runs and the main loop never blocks: no poller waits.         *)
Fairness ==
  WF_vars(Tick) /\ WF_vars(LoopTop \/ PollStart \/ PollEnd \/ \E t \in Timers : Fire(t))

Spec == Init /\ [][Next]_vars
FairSpec == Spec /\ Fairness

-----------------------------------------------------------------------------
TypeOK ==
  /\ now \in 0..(Wrap - 1) /\ cur \in 0..(Wrap - 1)
  /\ pc \in {"top", "work", "poll"} /\ num \in 0..MaxTimeouts
  /\ timeouts \in Seq(Entry) /\ due \in Seq(Timers)

(* A timer is on one list, once, so that its handler runs once; and it     *)
(* waits on the pending list for at most two iterations of the main loop   *)
(* after its time.                                                         *)
NeverForgotten ==
  /\ IsInjective(DuePrefix(Len(timeouts)) \o due)
  /\ \A i \in DOMAIN timeouts : timeouts[i].left >= -(2 * MaxLag)

(* rel_time undoes the wrap-around: by the clock, and by the cur_ts a poll *)
(* uses, it is the time a pending timer really has left; and the pending   *)
(* list is in that order, which the due prefix of move_due_timeouts and    *)
(* the search of util_timeout_arm_ts rely on.  So none is forgotten.       *)
ClockFaithful ==
  /\ TypeOK /\ NeverForgotten
  /\ \A i \in 1..Len(timeouts) :
       /\ rel_time(now, timeouts[i].ts) = timeouts[i].left
       /\ pc # "top" => rel_time(cur, timeouts[i].ts) = timeouts[i].left + Lag
       /\ \A j \in 1..i : timeouts[j].left <= timeouts[i].left

(* A timer becomes due only when its time has come, though the clock it    *)
(* was armed by is ahead of the cur_ts that makes it due.                  *)
NeverEarly ==
  [][\A t \in Due' \ Due : \E i \in DOMAIN timeouts :
        timeouts[i].timer = t /\ timeouts[i].left <= 0]_vars

(* Every armed timer is disarmed or run, though a poll stops after         *)
(* MAX_TIMEOUTS and handlers arm new timers.                               *)
Runs == \A t \in Timers : /\ t \in Pending ~> t \notin Pending
                          /\ t \in Due ~> t \notin Due
=============================================================================
