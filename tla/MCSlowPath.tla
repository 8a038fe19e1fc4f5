---------------------------- MODULE MCSlowPath ----------------------------
(* Loads for SlowPath: packets with answers and a control packet over both *)
(* rings; and a connection that sends, beside one that comes, in one       *)
(* cc_poll with it, and behind one that goes, in a cc_poll of its own.     *)
EXTENDS SlowPath

CONSTANTS c1, c2

McLoads ==
  {[rx |-> 4, ctl |-> 1, open |-> <<>>, opens |-> {}, closes |-> {}, busy |-> {}, cap |-> 1],
   [rx |-> 0, ctl |-> 0, open |-> <<c1>>, opens |-> {c2}, closes |-> {}, busy |-> {c1},
    cap |-> 2],
   [rx |-> 0, ctl |-> 0, open |-> <<c2, c1>>, opens |-> {}, closes |-> {c2}, busy |-> {c1},
    cap |-> 1]}
============================================================================
