\* One zone: --shm-len at its default of one huge page.
SPECIFICATION Spec
CONSTANTS
  TotalZones = 1
  PageSize = 7
  Lengths = {1, 2, 3}
INVARIANTS NoOverlapInZone NothingLost
