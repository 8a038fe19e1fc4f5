------------------------------- MODULE Epoll --------------------------------
(***************************************************************************)
(* epoll of the sockets library (lib/sockets/epoll.c): one epoll instance, *)
(* used by the thread whose context its sockets are on.  It mixes TAS      *)
(* sockets, whose readiness the library tracks in lists of its own, with a *)
(* Linux descriptor, which the kernel's epoll watches.  A thread blocks    *)
(* until one of them has something; that no event of the TAS side is slept *)
(* through is the subject of Wakeup.  Of the events only EPOLLIN is        *)
(* modelled; a mask without it stands for any other mask.                  *)
(***************************************************************************)
EXTENDS Integers, SequencesExt

CONSTANTS
  Socks,       \* TAS sockets
  MaxReport,   \* maxevents of the calls
  NumMod       \* 2^32, the range of num_tas

VARIABLES
  events,      \* queue of the context: the sockets the events are for
  pc,          \* the thread: "app", in epoll_wait "poll" or "sleep", or "linux"
  mask,        \* socket -> "off" (not on the epoll), "other" or "in"
  ep_events,   \* sockets with EPOLLIN in s->ep_events
  ready,       \* the active list, active_first to active_last
  num_tas,
  num_linux,   \* Linux descriptors on the epoll: none or one
  linux_next,
  linuxIn,     \* the Linux descriptor is readable
  reported,    \* events returned by the last call
  stray        \* ghost: a socket was deleted that was not on the epoll

vars == <<events, pc, mask, ep_events, ready, num_tas, num_linux, linux_next, linuxIn,
          reported, stray>>

Linux == "linux"
OnEpoll(s) == mask[s] # "off"
IsReady(s) == mask[s] = "in" /\ s \in ep_events

Init ==
  /\ events = <<>> /\ pc = "app" /\ mask = [s \in Socks |-> "off"] /\ ep_events = {} /\ ready = <<>>
  /\ num_tas = 0 /\ num_linux = 0 /\ linux_next = FALSE /\ linuxIn = FALSE
  /\ reported = {} /\ stray = FALSE

Drop(s) == SelectSeq(ready, LAMBDA x : x # s)
Activate(list, s) == IF Contains(list, s) THEN list ELSE Append(list, s)

-----------------------------------------------------------------------------
(* The application, between its calls of epoll_wait.                       *)

(* tas_epoll_ctl, EPOLL_CTL_ADD: num_tas counts even what is refused with  *)
(* EEXIST.                                                                 *)
CtlAdd(s, m) ==
  /\ pc = "app" /\ num_tas < NumMod - 1
  /\ num_tas' = num_tas + 1
  /\ IF OnEpoll(s) THEN UNCHANGED <<mask, ready>>
     ELSE /\ mask' = [mask EXCEPT ![s] = m]
          /\ ready' = IF m = "in" /\ s \in ep_events THEN Activate(ready, s) ELSE ready
  /\ UNCHANGED <<pc, ep_events, num_linux, linux_next, linuxIn, reported, stray, events>>

(* Mutant: a new mask does not look at the events that are there.          *)
CtlMod_lazy(s, m) ==
  /\ pc = "app" /\ OnEpoll(s)
  /\ mask' = [mask EXCEPT ![s] = m]
  /\ UNCHANGED <<pc, ready, ep_events, num_tas, num_linux, linux_next, linuxIn, reported,
                 stray, events>>

CtlMod(s, m) ==
  /\ pc = "app" /\ OnEpoll(s)
  /\ mask' = [mask EXCEPT ![s] = m]
  /\ ready' = IF m = "in" /\ s \in ep_events THEN Activate(ready, s) ELSE ready
  /\ UNCHANGED <<pc, ep_events, num_tas, num_linux, linux_next, linuxIn, reported, stray,
                 events>>

(* EPOLL_CTL_DEL: num_tas is taken down before ENOENT is found.            *)
CtlDel(s) ==
  /\ pc = "app"
  /\ num_tas' = (num_tas - 1) % NumMod
  /\ mask' = [mask EXCEPT ![s] = "off"] /\ ready' = Drop(s)
  /\ stray' = (stray \/ ~OnEpoll(s))
  /\ UNCHANGED <<pc, ep_events, num_linux, linux_next, linuxIn, reported, events>>

CtlLinux(n) ==
  /\ pc = "app" /\ n # num_linux /\ num_linux' = n
  /\ UNCHANGED <<pc, mask, ep_events, ready, num_tas, linux_next, linuxIn, reported, stray,
                 events>>

(* tas_recv reads everything and clears the event (flextcp_epoll_clear).   *)
Recv(s) ==
  /\ pc = "app" /\ s \in ep_events
  /\ ep_events' = ep_events \ {s}
  /\ UNCHANGED <<pc, mask, ready, num_tas, num_linux, linux_next, linuxIn, reported, stray,
                 events>>

(* flextcp_epoll_sockclose; the next use of s is a new socket.  num_tas    *)
(* keeps counting the old one.  What is still under way for the old one    *)
(* finds no epoll: closing with nothing under way is the case modelled.    *)
SockClose(s) ==
  /\ pc = "app" /\ ~Contains(events, s)
  /\ mask' = [mask EXCEPT ![s] = "off"] /\ ep_events' = ep_events \ {s}
  /\ ready' = Drop(s)
  /\ UNCHANGED <<pc, num_tas, num_linux, linux_next, linuxIn, reported, stray, events>>

LinuxRead ==
  /\ pc = "app" /\ linuxIn /\ linuxIn' = FALSE
  /\ UNCHANGED <<pc, mask, ep_events, ready, num_tas, num_linux, linux_next, reported, stray,
                 events>>

-----------------------------------------------------------------------------
(* tas_epoll_wait with timeout -1.                                         *)

EpollWait ==
  /\ pc = "app" /\ reported' = {}
  /\ pc' = IF num_tas = 0 THEN "linux" ELSE "poll"
  /\ UNCHANGED <<mask, ep_events, ready, num_tas, num_linux, linux_next, linuxIn, stray,
                 events>>

LinuxWait ==
  /\ pc = "linux" /\ num_linux = 1 /\ linuxIn
  /\ pc' = "app" /\ reported' = {Linux}
  /\ UNCHANGED <<mask, ep_events, ready, num_tas, num_linux, linux_next, linuxIn, stray,
                 events>>

(* ep_poll_tas polls the context (the descriptors that have events, up to  *)
(* 16 at a time and at least maxevents) and flextcp_epoll_set puts every   *)
(* socket with a new event of its mask on the active list.                 *)
Polled == ep_events \cup Range(events)
Woken ==
  ready \o SelectSeq(events, LAMBDA s : /\ s \notin ep_events /\ mask[s] = "in"
                                        /\ ~Contains(ready, s))

(* Mutant: what was reported stays at the head of the list.                *)
ep_poll_tas_front(room) ==
  LET isReady(s) == mask[s] = "in" /\ s \in Polled
      found(i) == SelectSeq(SubSeq(Woken, 1, i), isReady)
      k == Min({Len(Woken)} \cup {i \in 1..Len(Woken) : Len(found(i)) = room})
  IN [list |-> found(k) \o SubSeq(Woken, k + 1, Len(Woken)), events |-> Range(found(k))]

(* The loop of ep_poll_tas visits the first k sockets of the list, until   *)
(* it has room events.  Those that are ready go to the end of the list,    *)
(* the others to the inactive list.                                        *)
ep_poll_tas(room) ==
  LET isReady(s) == mask[s] = "in" /\ s \in Polled
      found(i) == SelectSeq(SubSeq(Woken, 1, i), isReady)
      k == Min({Len(Woken)} \cup {i \in 1..Len(Woken) : Len(found(i)) = room})
  IN [list |-> SubSeq(Woken, k + 1, Len(Woken)) \o found(k), events |-> Range(found(k))]

(* One round of the loop.  Linux and TAS are polled in turns first, the    *)
(* other one only if there is room left.  A round without events may let   *)
(* the thread block.                                                       *)
LinuxHas == num_linux = 1 /\ linuxIn

PollRound ==
  /\ pc = "poll"
  /\ LET first == num_linux = 1 /\ linux_next
         lin == IF LinuxHas THEN {Linux} ELSE {}
         room == IF first THEN MaxReport - Cardinality(lin) ELSE MaxReport
         tas == ep_poll_tas(room)
     IN IF room = 0
        THEN reported' = lin /\ UNCHANGED <<ep_events, ready, events>>
        ELSE /\ events' = <<>> /\ ep_events' = Polled /\ ready' = tas.list
             /\ reported' = tas.events \cup
                  IF first \/ Cardinality(tas.events) < MaxReport THEN lin ELSE {}
  /\ linux_next' = (linux_next # (num_linux = 1))
  /\ pc' \in IF reported' = {} THEN {"poll", "sleep"} ELSE {"app"}
  /\ UNCHANGED <<mask, num_tas, num_linux, linuxIn, stray>>

(* poll() returns: the eventfd or the Linux epoll is readable.             *)
Wake ==
  /\ pc = "sleep" /\ (events # <<>> \/ LinuxHas)
  /\ pc' = "poll"
  /\ UNCHANGED <<events, mask, ep_events, ready, num_tas, num_linux, linux_next, linuxIn, reported,
                 stray>>

-----------------------------------------------------------------------------
(* Data arrives: at most one event per socket is queued (a bound).         *)
NewData(s) ==
  /\ ~Contains(events, s) /\ events' = Append(events, s)
  /\ UNCHANGED <<pc, mask, ep_events, ready, num_tas, num_linux, linux_next, linuxIn,
                 reported, stray>>

LinuxData ==
  /\ ~linuxIn /\ linuxIn' = TRUE
  /\ UNCHANGED <<pc, mask, ep_events, ready, num_tas, num_linux, linux_next, reported, stray,
                 events>>

Next ==
  \/ \E s \in Socks : \/ \E m \in {"in", "other"} : CtlAdd(s, m) \/ CtlMod(s, m)
                      \/ CtlDel(s) \/ Recv(s) \/ SockClose(s) \/ NewData(s)
  \/ \E n \in 0..1 : CtlLinux(n)
  \/ LinuxRead \/ LinuxData \/ EpollWait \/ LinuxWait
  \/ PollRound \/ Wake

Spec == Init /\ [][Next]_vars

(* The application calls epoll_wait again and its thread runs.             *)
FairSpec ==
  /\ Spec
  /\ WF_vars(EpollWait) /\ WF_vars(LinuxWait) /\ WF_vars(PollRound) /\ WF_vars(Wake)

-----------------------------------------------------------------------------
TypeOK ==
  /\ events \in Seq(Socks)
  /\ pc \in {"app", "poll", "sleep", "linux"}
  /\ mask \in [Socks -> {"off", "other", "in"}]
  /\ ep_events \subseteq Socks /\ Range(ready) \subseteq Socks
  /\ num_tas \in 0..(NumMod - 1) /\ num_linux \in 0..1
  /\ linux_next \in BOOLEAN /\ linuxIn \in BOOLEAN /\ stray \in BOOLEAN
  /\ reported \subseteq Socks \cup {Linux} /\ Cardinality(reported) <= MaxReport

(* The active list, which epoll_wait looks at instead of the sockets,      *)
(* holds every socket with an event of its mask, once, and nothing that    *)
(* has left the epoll (its epoll_socket is freed); no more is reported     *)
(* than the caller has room for (TypeOK).  tas_epoll_wait leaves the TAS   *)
(* side out only when "no TAS fds on the epoll": num_tas covers the        *)
(* sockets that are there, as long as no socket was deleted that was not   *)
(* on it.                                                                  *)
ReadyListed ==
  /\ TypeOK
  /\ \A s \in Socks : IsReady(s) => Contains(ready, s)
  /\ \A s \in Range(ready) : OnEpoll(s)
  /\ IsInjective(ready)
  /\ ~stray => num_tas >= Cardinality({s \in Socks : OnEpoll(s)})

(* No starvation: an event that the application asked for is reported in   *)
(* the end, whatever the other descriptors do.                             *)
Pending(s) == mask[s] = "in" /\ (s \in ep_events \/ Contains(events, s))
EventsReported ==
  \A s \in Socks : Pending(s) ~> (s \in reported \/ ~Pending(s) \/ stray)
=============================================================================
