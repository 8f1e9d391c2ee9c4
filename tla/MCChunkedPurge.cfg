SPECIFICATION FairSpec
CONSTANTS
  Ids = {1, 2, 3}
  IdFilter = {1, 2, 3}
  Strategies = {"hard", "soft", "anonymize", "anonymizeFunction", "archive"}
  SoftDelete = FALSE
  BatchSize = 2
  MaxRetries = 1
INVARIANTS
  Complete
  ArchivedBeforeRemoved
PROPERTIES
  OnlyMatchingTouched
  RunEnds
CHECK_DEADLOCK FALSE
