SPECIFICATION FairSpec
CONSTANTS
  Timers = {t1, t2, t3}
  Middle = 4
  Delays = {0, 2}
  MaxTimeouts = 2
  MaxLag = 1
INVARIANT ClockFaithful
PROPERTIES NeverEarly Runs
