SPECIFICATION WatchedSpec
CONSTANTS
  x = x  y = y
  Callers = {x, y}
  Absent = Absent  NoDiff = NoDiff
  Setups <- MCSetups
  Amounts = {1, 2}
  Ceiling = 1
  MaxCalls = 3
  Watched <- MCWatched
  Filters = {{}, {1, 2}}
INVARIANTS ReplicaIsCurrent AuditIsExact FeedMatchesWrites AckedIsAudited CountersAreRight WatcherIsCurrent
SYMMETRY Interchangeable
CHECK_DEADLOCK FALSE
