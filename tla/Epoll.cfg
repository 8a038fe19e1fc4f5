SPECIFICATION FairSpec
CONSTANTS
  Socks = {s1, s2}
  MaxReport = 1
  NumMod = 4
INVARIANTS ReadyListed
PROPERTY EventsReported
CHECK_DEADLOCK FALSE
