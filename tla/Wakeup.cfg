SPECIFICATION WakeFairSpec
CONSTANTS
  PollCycle = 3
  DmaTime = 3
  IntrTime = 2
INVARIANT NoLostWakeup
PROPERTY Served
