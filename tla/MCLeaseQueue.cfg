SPECIFICATION FairSpec
CONSTANTS
  w1 = w1
  w2 = w2
  Workers = {w1, w2}
  Steady = {w2}
  Jobs = {1, 2}
  Nobody = Nobody
  Filters <- MixedFilters
  LeaseFor = 2
  FinalStatuses <- MixedStatuses
  MaxClock = 4
  Observed = 1
  Undecided = Undecided
INVARIANTS
  OneWorkerPerJob
PROPERTIES
  AvailableIsLeased
CHECK_DEADLOCK FALSE
