SPECIFICATION FairSpec
CONSTANTS
  Callers = {c1, c2}
  Sweepers = {c2}
  Tokens = {t1, t2, t3}
  Values = {v1, v2}
  Leases = {1}
  MaxAttempts = 2
  NoToken = NoToken
  NoValue = NoValue
  Nobody = Nobody
  Undecided = Undecided
  MaxClock = 3
  AttemptCap = 3
INVARIANTS
  OneLiveWorker
  ReplayIsTrue
  HolderKnowsProgress
PROPERTIES
  ImplementsLeasedDecision
  ExpiredIsRecovered
CHECK_DEADLOCK FALSE
